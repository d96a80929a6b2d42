----------------------------- MODULE PhaseLoop ------------------------------
(***************************************************************************)
(* The Phase loop of a Run: startPhaseLoop and runPhaseLoop with what a    *)
(* Phase is given (payload, results of a fan-out, instruction), the        *)
(* checkpoint a suspended Run is resumed from, and the compaction that an  *)
(* overflow of the context starts (packages/agent/src/loop/runners.ts,     *)
(* packages/agent/src/runtime/execution.ts).                               *)
(* One loop runs at a time: what a fan-out does is RunExecution's.         *)
(***************************************************************************)
EXTENDS FiniteSets, Naturals

CONSTANTS
  Phase,        \* names of Phases the host may register
  First,        \* the one the Definition names as its entry Phase
  Configuration,  \* sets of Phases a Turn may find registered
  MaxAttempts   \* consecutive executions that run no Tool

ASSUME PhaseAssumption ==
  /\ First \in Phase
  /\ Phase \cap {"loop", "stop", "compact", "host", "none", "several"} = {}
  /\ MaxAttempts \in Nat \ {0}

\* The internal entry Loop, and the built-in Phases with a part of their own.
Loop == "loop"
Stop == "stop"
Compact == "compact"
Registered == Phase \cup {Stop, Compact}

ASSUME ConfigurationAssumption == Configuration \subseteq SUBSET Registered

\* What a Phase is given is named after who gave it: a payload, and a briefing
\* (the results of a fan-out and the instruction, which go the same way).
Source == Phase \cup {Loop, Compact, "host", "none"}
Input == [payload: Source, briefing: Source]
NoInput == [payload |-> "none", briefing |-> "none"]

VARIABLES
  registry,      \* the Phases of this Turn's Configuration
  claim,         \* what the attempt starts from: the Run's input, or its checkpoint
  pass,          \* which executeOnce of the attempt this is
  at,            \* where the loop is
  \* ExecutionState
  phase, attempt, initial, entries, continuation,
  \* locals of runPhaseLoop
  continuing, input, shown, progressed,
  \* what the Phase was entered with, and what of it a suspension may have cut
  due, cut,
  kept           \* the two of them at the last checkpoint

stateVars == <<phase, attempt, initial, entries, continuation>>
localVars == <<continuing, input, shown, progressed>>
ghostVars == <<due, cut>>
runVars == <<registry, claim, kept, pass>>
vars == <<runVars, at, stateVars, localVars, ghostVars>>

NoContinuation == [continuing |-> TRUE, payload |-> "none", briefing |-> "none"]
NoMessage == [of |-> "none", given |-> NoInput]
EntryPhases == {"none", "several"} \cup Phase
Cuts == {"nothing", "waited", "asked"}

Continuations == [continuing: BOOLEAN, payload: Source, briefing: Source]
Claims == [phase: Registered \cup {Loop, "none"}, initial: {"none", "host"},
           entries: EntryPhases, continuation: Continuations]

TypeOK ==
  /\ registry \subseteq Registered
  /\ claim \in Claims
  /\ pass \in {"first", "compacting", "again"}
  /\ at \in {"start", "top", "running", "suspended", "done"}
  /\ phase \in Registered \cup {Loop}
  /\ attempt \in 0..MaxAttempts
  /\ initial \in {"none", "host"} /\ entries \in EntryPhases
  /\ continuation \in Continuations
  /\ continuing \in BOOLEAN /\ progressed \in BOOLEAN
  /\ input \in Input /\ due \in Input
  /\ shown \in [of: Registered \cup {"none"}, given: Input]
  /\ cut \in Cuts /\ kept \in [due: Input, cut: Cuts]

-----------------------------------------------------------------------------
(* Starting the loop *)

Entry(r, p) ==
  IF p = "compacting" THEN Compact ELSE IF First \in r THEN First ELSE Loop

WillRun(p, r, e) == IF p = Loop THEN e = Loop ELSE p \in r

NewLoop ==
  /\ attempt' = 0 /\ initial' = claim.initial
  /\ shown' = NoMessage /\ progressed' = FALSE

\* No checkpoint, or one whose Phase is gone: the entry Phase, and no
\* continuation.
LoadStart(r, p) ==
  /\ ~WillRun(claim.phase, r, Entry(r, p))
  /\ phase' = Entry(r, p) /\ entries' = claim.entries
  /\ continuation' = NoContinuation
  /\ at' = "start" /\ continuing' = FALSE /\ input' = NoInput
  /\ due' = NoInput /\ cut' = "nothing"
  /\ NewLoop

\* A checkpoint written without a continuation falls back to the Run's own
\* payload; so does a continuation whose payload was undefined.
Restored ==
  [payload |-> IF claim.continuation.payload = "none" THEN claim.initial ELSE claim.continuation.payload,
   briefing |-> claim.continuation.briefing]

LoadResumed(r, p) ==
  /\ WillRun(claim.phase, r, Entry(r, p))
  /\ phase' = claim.phase /\ entries' = "none"
  /\ continuation' = claim.continuation
  /\ at' = "top" /\ continuing' = claim.continuation.continuing /\ input' = Restored
  /\ due' = kept.due /\ cut' = kept.cut
  /\ NewLoop

Load(r, p) == LoadStart(r, p) \/ LoadResumed(r, p)

\* The host starts a Run with a payload, or with entryPhases and theirs.
Init ==
  /\ claim \in {[phase |-> "none", initial |-> i, entries |-> e, continuation |-> NoContinuation] :
                  i \in {"none", "host"}, e \in EntryPhases}
  /\ claim.initial = "none" \/ claim.entries = "none"
  /\ registry \in Configuration
  /\ pass = "first" /\ at = "start"
  /\ phase = Entry(registry, pass) /\ attempt = 0
  /\ initial = claim.initial /\ entries = claim.entries /\ continuation = NoContinuation
  /\ continuing = FALSE /\ input = NoInput /\ shown = NoMessage /\ progressed = FALSE
  /\ due = NoInput /\ cut = "nothing" /\ kept = [due |-> due, cut |-> cut]

\* entryPhases are taken from the state before they are run.
DispatchedStays == entries  \* mutant: dispatched entry Phases stay in the state
Dispatched == "none"

Given(i) == input' = i /\ due' = i

Start ==
  /\ at = "start" /\ at' = "top"
  /\ \/ /\ entries = "none"
        /\ Given([NoInput EXCEPT !.payload = initial])
        /\ UNCHANGED phase
     \/ /\ entries \in registry
        /\ phase' = entries /\ Given([NoInput EXCEPT !.payload = "host"])
     \/ /\ entries = "several"
        /\ \E results \in {"none", "host"} : Given([NoInput EXCEPT !.briefing = results])
        /\ UNCHANGED phase
  /\ entries' = Dispatched
  /\ UNCHANGED <<runVars, attempt, initial, continuation, continuing, shown, progressed, cut>>

-----------------------------------------------------------------------------
(* Suspending and resuming *)

\* The loop has returned: its locals and its state are gone.
Gone ==
  /\ phase' = Loop /\ attempt' = 0 /\ initial' = "none" /\ entries' = "none"
  /\ continuation' = NoContinuation
  /\ continuing' = FALSE /\ input' = NoInput /\ shown' = NoMessage /\ progressed' = FALSE
  /\ due' = NoInput /\ cut' = "nothing"

\* encodeExecutionCheckpoint.  A compaction that is suspended is given up, and
\* the attempt fails with the overflow.
Suspend(saved, by) ==
  /\ Gone /\ UNCHANGED <<registry, pass>>
  /\ IF pass = "compacting" THEN at' = "done" /\ UNCHANGED <<claim, kept>>
     ELSE /\ at' = "suspended" /\ claim' = saved
          /\ kept' = [due |-> due, cut |-> IF by = "asked" \/ cut = "nothing" THEN by ELSE cut]

\* awaitInput: a Phase that goes on afterwards does so with what is left of its
\* input.
AwaitInput(then, i, e, by) ==
  Suspend([phase |-> phase, initial |-> i, entries |-> e,
           continuation |-> [continuing |-> then, payload |-> input.payload,
                             briefing |-> input.briefing]], by)

\* Somebody answered, and the next attempt claims the Run under the
\* Configuration of its Turn.
Resume(r) ==
  /\ at = "suspended"
  /\ registry' = r /\ pass' = "first"
  /\ Load(r, "first")
  /\ UNCHANGED <<claim, kept>>

-----------------------------------------------------------------------------
(* The top of the loop *)

AtLimit == attempt >= MaxAttempts

LimitReached ==
  /\ at = "top" /\ AtLimit
  /\ AwaitInput(FALSE, initial, entries, IF continuing THEN "waited" ELSE "nothing")

CountedOnEntry == IF continuing THEN attempt ELSE attempt + 1  \* mutant: a Phase that goes on is not counted
Counted == attempt + 1

\* The Phase is told what it was given, unless it goes on and its message is
\* still there.  Results and instruction are told once.
Enter ==
  /\ at = "top" /\ ~AtLimit /\ at' = "running"
  /\ phase = Loop \/ phase \in registry
  /\ attempt' = Counted
  /\ continuing' = FALSE /\ progressed' = FALSE
  /\ IF phase # Loop /\ (~continuing \/ shown = NoMessage)
     THEN /\ shown' = [of |-> phase, given |-> input]
          /\ input' = [NoInput EXCEPT !.payload = input.payload]
     ELSE UNCHANGED <<shown, input>>
  /\ UNCHANGED <<runVars, phase, initial, entries, continuation, ghostVars>>

\* beforePhase sends the loop on to another Phase, with what this one was given.
Skip ==
  /\ at = "top" /\ ~AtLimit /\ phase \in registry
  /\ attempt' = Counted
  /\ continuing' = FALSE /\ shown' = NoMessage
  /\ phase' \in registry \ {Stop}
  /\ due' = input /\ cut' = "nothing"
  /\ UNCHANGED <<runVars, at, initial, entries, continuation, input, progressed>>

\* A Phase that is not registered, a payload of the wrong shape, a hook that
\* stops or aborts, the host that aborts, and whatever throws.
Fails ==
  /\ at \in {"start", "top", "running"}
  /\ at' = "done" /\ Gone
  /\ UNCHANGED runVars

-----------------------------------------------------------------------------
(* A Phase runs *)

ToolRound ==
  /\ at = "running"
  /\ progressed' = TRUE
  /\ UNCHANGED <<runVars, at, stateVars, continuing, input, shown, ghostVars>>

\* driver.suspend: a Tool or the Phase needs an answer.  The continuation is
\* the one of the last awaitInput.
Ask ==
  /\ at = "running"
  /\ Suspend([phase |-> phase, initial |-> initial, entries |-> entries,
              continuation |-> continuation], "asked")

\* executePhase has returned.
Executed ==
  /\ at = "running"
  /\ attempt' = IF progressed THEN 0 ELSE attempt
  /\ initial' = "none" /\ entries' = "none"

Routing == Cardinality(registry \ {Compact}) >= 2
GoesOn == Executed /\ Routing /\ phase # Stop

\* completeRun.  A compaction with a summary runs the Run once more.
Complete ==
  /\ at = "running"
  /\ \/ at' = "done" /\ Gone /\ UNCHANGED pass
     \/ /\ pass = "compacting" /\ phase = Compact
        /\ pass' = "again" /\ Load(registry, "again")
  /\ UNCHANGED <<registry, claim, kept>>

Continue ==
  /\ GoesOn /\ at' = "top"
  /\ continuing' = TRUE
  /\ UNCHANGED <<runVars, phase, continuation, input, shown, progressed, ghostVars>>

\* A reply and no route: the turn ends and the Run waits for the human.
Wait ==
  /\ at = "running" /\ Routing /\ phase \notin {Stop, Compact}
  /\ AwaitInput(TRUE, "none", "none", "waited")

\* target > route, or the Stop Phase when there is no reply yet.
Route(next) ==
  /\ GoesOn /\ at' = "top"
  /\ next \in registry /\ phase' = next
  /\ \E i \in [payload: {"none", phase}, briefing: {"none", phase}] : Given(i)
  /\ cut' = "nothing" /\ shown' = NoMessage
  /\ UNCHANGED <<runVars, continuation, continuing, progressed>>

JoinKeepsPayload(results) == [input EXCEPT !.briefing = results]  \* mutant: the join inherits a payload
JoinInput(results) == [NoInput EXCEPT !.briefing = results]

\* Several targets run at the same time, and join at the Phase's target or at
\* the entry Phase with the results of those that did not fail.
FanOut(next) ==
  /\ GoesOn /\ at' = "top"
  /\ next \in registry \cup {Entry(registry, pass)} /\ phase' = next
  /\ \E results \in {"none", phase} :
       /\ input' = JoinInput(results)
       /\ due' = [NoInput EXCEPT !.briefing = results]
  /\ cut' = "nothing" /\ shown' = NoMessage
  /\ UNCHANGED <<runVars, continuation, continuing, progressed>>

\* The model refuses a context that is too long: the compact Phase is run with
\* the same claim.
Overflow ==
  /\ at = "running" /\ pass = "first" /\ Compact \in registry
  /\ pass' = "compacting" /\ Load(registry, "compacting")
  /\ UNCHANGED <<registry, claim, kept>>

-----------------------------------------------------------------------------

LoopStep ==
  \/ Start \/ LimitReached \/ Enter \/ Skip \/ Fails
  \/ ToolRound \/ Ask \/ Complete \/ Continue \/ Wait \/ Overflow
  \/ \E next \in Registered \cup {Loop} : Route(next) \/ FanOut(next)

Next == LoopStep \/ \E r \in Configuration : Resume(r)

\* The loop goes on by itself; nobody has to answer.
Spec == Init /\ [][Next]_vars /\ WF_vars(LoopStep)

-----------------------------------------------------------------------------
(* Properties *)

\* What a Phase is told is what whoever routed to it meant for it: nothing of
\* another Phase's, and nothing is lost but for what a suspension in the middle
\* of the Phase cuts off (the results and the instruction when it waits for the
\* next turn, anything when a Tool asked).
PhaseSeesItsInput ==
  at = "running" /\ phase # Loop /\ cut # "asked" =>
    /\ shown.of = phase
    /\ shown.given.payload = due.payload
    /\ cut = "nothing" => shown.given = due

\* entryPhases that were run are not run again by a resumed Run, wherever it
\* was suspended and whatever its Configuration has become.
ResumedRunsDoNotRedispatch == at = "start" /\ claim.phase # "none" => entries = "none"

\* A Run that runs no Tool comes back to the human: routing in circles ends.
CirclesReachTheHuman == <>[]~progressed => []<>(at \in {"suspended", "done"})
=============================================================================
