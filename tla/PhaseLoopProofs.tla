-------------------------- MODULE PhaseLoopProofs ---------------------------
(***************************************************************************)
(* What PhaseLoop promises, for every set of Phases, every Configuration   *)
(* and every limit.                                                        *)
(***************************************************************************)
EXTENDS PhaseLoop, TLAPS

-----------------------------------------------------------------------------
(* Types *)

LEMMA Names ==
  /\ "none" \notin Registered /\ Loop \notin Registered /\ Loop # "none"
  /\ Stop \in Registered /\ Compact \in Registered /\ First \in Registered
  /\ \A x \in Registered \cup {Loop} : x \in Source \cup {Stop}
  /\ "several" \notin Registered
  /\ NoInput \in Input /\ NoContinuation \in Continuations
  /\ NoMessage \in [of: Registered \cup {"none"}, given: Input]
  BY PhaseAssumption
  DEF Registered, Loop, Stop, Compact, Source, NoInput, Input, NoContinuation, Continuations, NoMessage

LEMMA LoadTyped ==
  ASSUME TypeOK, NEW r \in SUBSET Registered, NEW p, Load(r, p)
  PROVE  /\ at' \in {"start", "top"}
         /\ phase' \in Registered \cup {Loop} /\ attempt' \in 0..MaxAttempts
         /\ initial' \in {"none", "host"} /\ entries' \in EntryPhases
         /\ continuation' \in Continuations
         /\ continuing' \in BOOLEAN /\ progressed' \in BOOLEAN
         /\ input' \in Input /\ due' \in Input
         /\ shown' \in [of: Registered \cup {"none"}, given: Input] /\ cut' \in Cuts
<1>0. 0 \in 0..MaxAttempts /\ claim \in Claims /\ "nothing" \in Cuts /\ "none" \in EntryPhases
  BY PhaseAssumption DEF TypeOK, Cuts, EntryPhases
<1>1. CASE LoadStart(r, p)
  <2>1. Entry(r, p) \in Registered \cup {Loop}
    BY Names DEF Entry
  <2>2. QED
    BY <1>0, <1>1, <2>1, Names DEF LoadStart, NewLoop, Claims
<1>2. CASE LoadResumed(r, p)
  <2>1. claim.phase \in Registered \cup {Loop}
    BY <1>2 DEF LoadResumed, WillRun
  <2>2. Restored \in Input
    BY <1>0 DEF Restored, Claims, Continuations, Input, Source
  <2>3. kept.due \in Input /\ kept.cut \in Cuts
    BY DEF TypeOK
  <2>4. QED
    BY <1>0, <1>2, <2>1, <2>2, <2>3, Names DEF LoadResumed, NewLoop, Claims, Continuations
<1>3. QED
  BY <1>1, <1>2 DEF Load

LEMMA GoneTyped ==
  ASSUME Gone
  PROVE  /\ phase' \in Registered \cup {Loop} /\ attempt' \in 0..MaxAttempts
         /\ initial' \in {"none", "host"} /\ entries' \in EntryPhases
         /\ continuation' \in Continuations
         /\ continuing' \in BOOLEAN /\ progressed' \in BOOLEAN
         /\ input' \in Input /\ due' \in Input
         /\ shown' \in [of: Registered \cup {"none"}, given: Input] /\ cut' \in Cuts
<1>1. 0 \in 0..MaxAttempts /\ "nothing" \in Cuts /\ "none" \in EntryPhases
  BY PhaseAssumption DEF Cuts, EntryPhases
<1>2. QED
  BY <1>1, Names DEF Gone

LEMMA SuspendTyped ==
  ASSUME TypeOK, NEW saved \in Claims, NEW by \in Cuts, Suspend(saved, by)
  PROVE  TypeOK'
<1>1. kept' \in [due: Input, cut: Cuts]
  BY DEF Suspend, TypeOK
<1>2. claim' \in Claims /\ at' \in {"suspended", "done"} /\ UNCHANGED <<registry, pass>>
  BY DEF Suspend, TypeOK
<1>3. Gone
  BY DEF Suspend
<1>4. QED
  BY <1>1, <1>2, <1>3, GoneTyped DEF TypeOK

LEMMA AwaitTyped ==
  ASSUME TypeOK, NEW then \in BOOLEAN, NEW i \in {"none", "host"}, NEW e \in EntryPhases,
         NEW by \in Cuts, AwaitInput(then, i, e, by)
  PROVE  TypeOK'
<1> DEFINE saved == [phase |-> phase, initial |-> i, entries |-> e,
                     continuation |-> [continuing |-> then, payload |-> input.payload,
                                       briefing |-> input.briefing]]
<1>1. [continuing |-> then, payload |-> input.payload, briefing |-> input.briefing] \in Continuations
  BY DEF TypeOK, Continuations, Input
<1>2. saved \in Claims
  BY <1>1 DEF TypeOK, Claims
<1>3. QED
  BY <1>2, SuspendTyped DEF AwaitInput

LEMMA TypeInit == Init => TypeOK
<1> SUFFICES ASSUME Init PROVE TypeOK
  OBVIOUS
<1>1. claim \in Claims
  BY Names DEF Init, Claims
<1>2. registry \in SUBSET Registered
  BY ConfigurationAssumption DEF Init
<1>3. phase \in Registered \cup {Loop}
  BY <1>2, Names DEF Init, Entry
<1>4. initial \in {"none", "host"} /\ entries \in EntryPhases
  BY <1>1 DEF Init, Claims
<1>5. kept \in [due: Input, cut: Cuts] /\ cut \in Cuts
  BY Names DEF Init, Cuts
<1>6. 0 \in 0..MaxAttempts
  BY PhaseAssumption
<1>7. QED
  BY <1>1, <1>2, <1>3, <1>4, <1>5, <1>6, Names DEF Init, TypeOK

LEMMA TypeStep == TypeOK /\ [Next]_vars => TypeOK'
<1> SUFFICES ASSUME TypeOK, [Next]_vars PROVE TypeOK'
  OBVIOUS
<1> USE DEF vars, runVars, stateVars, localVars, ghostVars
<1>0. /\ "none" \in EntryPhases /\ "nothing" \in Cuts /\ "waited" \in Cuts /\ "asked" \in Cuts
      /\ phase \in Registered \cup {Loop} /\ attempt \in 0..MaxAttempts /\ MaxAttempts \in Nat
      /\ input.payload \in Source /\ input.briefing \in Source
  BY PhaseAssumption DEF EntryPhases, Cuts, TypeOK, Input
<1>1. CASE Start
  <2>1. \A x \in Source : [NoInput EXCEPT !.payload = x] \in Input
                          /\ [NoInput EXCEPT !.briefing = x] \in Input
    BY Names DEF Input
  <2>2. initial \in Source /\ "host" \in Source /\ "none" \in Source
    BY DEF TypeOK, Source
  <2>3. input' \in Input /\ due' \in Input
    BY <1>1, <2>1, <2>2 DEF Start, Given
  <2>4. phase' \in Registered \cup {Loop}
    BY <1>1 DEF Start, TypeOK
  <2>5. QED
    BY <1>0, <1>1, <2>3, <2>4 DEF Start, Dispatched, TypeOK
<1>2. CASE LimitReached
  <2>1. (IF continuing THEN "waited" ELSE "nothing") \in Cuts
    BY <1>0
  <2>2. QED
    BY <1>2, <2>1, AwaitTyped DEF LimitReached, TypeOK
<1>3. CASE Enter
  <2>1. attempt + 1 \in 0..MaxAttempts
    BY <1>0, <1>3 DEF Enter, AtLimit
  <2>2. [NoInput EXCEPT !.payload = input.payload] \in Input
    BY <1>0, Names DEF Input
  <2>3. phase # Loop => [of |-> phase, given |-> input] \in [of: Registered \cup {"none"}, given: Input]
    BY DEF TypeOK
  <2>4. input' \in Input /\ shown' \in [of: Registered \cup {"none"}, given: Input]
    BY <1>3, <2>2, <2>3 DEF Enter, TypeOK
  <2>5. QED
    BY <1>3, <2>1, <2>4 DEF Enter, Counted, TypeOK
<1>4. CASE Skip
  <2>1. attempt + 1 \in 0..MaxAttempts
    BY <1>0, <1>4 DEF Skip, AtLimit
  <2>2. QED
    BY <1>0, <1>4, <2>1, Names DEF Skip, Counted, TypeOK
<1>5. CASE Fails
  BY <1>5, GoneTyped DEF Fails, TypeOK
<1>6. CASE ToolRound
  BY <1>6 DEF ToolRound, TypeOK
<1>7. CASE Ask
  <2>1. [phase |-> phase, initial |-> initial, entries |-> entries,
         continuation |-> continuation] \in Claims
    BY DEF TypeOK, Claims
  <2>2. QED
    BY <1>0, <1>7, <2>1, SuspendTyped DEF Ask
<1>8. CASE Complete
  <2>1. CASE at' = "done" /\ Gone /\ UNCHANGED pass
    BY <1>8, <2>1, GoneTyped DEF Complete, TypeOK
  <2>2. CASE pass' = "again" /\ Load(registry, "again")
    BY <1>8, <2>2, LoadTyped DEF Complete, TypeOK
  <2>3. QED
    BY <1>8, <2>1, <2>2 DEF Complete
<1>9. CASE Continue
  BY <1>0, <1>9, PhaseAssumption DEF Continue, GoesOn, Executed, TypeOK
<1>10. CASE Wait
  BY <1>0, <1>10, AwaitTyped DEF Wait
<1>11. CASE Overflow
  BY <1>11, LoadTyped DEF Overflow, TypeOK
<1>12. ASSUME NEW next, Route(next) PROVE TypeOK'
  <2>1. registry \subseteq Registered /\ phase' \in Registered
    BY <1>12 DEF Route, TypeOK
  <2>2. phase # Stop
    BY <1>12 DEF Route, GoesOn
  <2>3. phase \in Source
    BY <1>0, <2>2, Names
  <2>4. input' \in Input /\ due' \in Input
    BY <1>12, <2>3 DEF Route, Given, Input, Source
  <2>5. QED
    BY <1>0, <1>12, <2>1, <2>4, Names, PhaseAssumption DEF Route, GoesOn, Executed, TypeOK
<1>13. ASSUME NEW next, FanOut(next) PROVE TypeOK'
  <2>1. phase' \in Registered \cup {Loop}
    BY <1>13, Names DEF FanOut, Entry, TypeOK
  <2>2. phase \in Source /\ "none" \in Source
    BY <1>0, <1>13, Names DEF FanOut, GoesOn, Source
  <2>3. \A x \in Source : [NoInput EXCEPT !.briefing = x] \in Input
    BY Names DEF Input
  <2>4. input' \in Input /\ due' \in Input
    BY <1>13, <2>2, <2>3 DEF FanOut, JoinInput
  <2>5. QED
    BY <1>0, <1>13, <2>1, <2>4, Names, PhaseAssumption DEF FanOut, GoesOn, Executed, TypeOK
<1>14. ASSUME NEW r \in Configuration, Resume(r) PROVE TypeOK'
  <2>1. r \in SUBSET Registered
    BY ConfigurationAssumption
  <2>2. QED
    BY <1>14, <2>1, LoadTyped DEF Resume, TypeOK
<1>15. CASE UNCHANGED vars
  BY <1>15 DEF TypeOK
<1>16. QED
  BY <1>1, <1>2, <1>3, <1>4, <1>5, <1>6, <1>7, <1>8, <1>9, <1>10, <1>11, <1>12, <1>13, <1>14, <1>15
  DEF Next, LoopStep

\* Wherever a Run is suspended, and whatever Configuration it is resumed under,
\* the state of the loop and the checkpoint are well formed.
THEOREM TypeCorrect == Spec => []TypeOK
  BY TypeInit, TypeStep, PTL DEF Spec

-----------------------------------------------------------------------------
(* What is where *)

\* Entry Phases are in the state only until they are run, and never in a
\* checkpoint.
EntriesAreTaken ==
  /\ entries = "none" \/ (at = "start" /\ claim.phase = "none")
  /\ claim.phase = "none" \/ claim.entries = "none"

\* The payload of the host is still the input while it is in the state: a
\* continuation without a payload may fall back to it.
HostPayload(i, payload) == i = "none" \/ payload = i
PayloadIsKept ==
  /\ initial = "none" \/ entries = "none"
  /\ claim.initial = "none" \/ claim.entries = "none"
  /\ at \in {"top", "running"} => HostPayload(initial, input.payload)
  /\ continuation.payload = "none" \/ HostPayload(initial, continuation.payload)
  /\ claim.continuation.payload = "none" \/ HostPayload(claim.initial, claim.continuation.payload)

\* A Phase that runs, or goes on with its message in place, was told what was
\* due; one that is about to be told has it as its input.
ToldRight ==
  /\ shown.of = phase /\ shown.given.payload = due.payload
  /\ cut = "nothing" => shown.given = due
AlreadyTold == at = "running" \/ (continuing /\ shown # NoMessage)
InputIsDue ==
  /\ at = "start" => ~continuing
  /\ cut # "asked" /\ at \in {"top", "running"} =>
       /\ input.payload = due.payload
       /\ phase # Loop /\ AlreadyTold => ToldRight
       /\ phase # Loop /\ ~AlreadyTold => (cut = "nothing" => input = due)

\* The checkpoint gives back what was due.
CheckpointIsDue ==
  claim.phase # "none" /\ kept.cut # "asked" =>
    /\ Restored.payload = kept.due.payload
    /\ claim.phase # Loop /\ kept.cut = "nothing" => Restored = kept.due

Kept == EntriesAreTaken /\ PayloadIsKept /\ InputIsDue /\ CheckpointIsDue
IInv == TypeOK /\ Kept

LEMMA LoadKeeps ==
  ASSUME IInv, NEW r \in SUBSET Registered, NEW p, Load(r, p), UNCHANGED <<claim, kept>>
  PROVE  Kept'
<1>1. EntriesAreTaken /\ PayloadIsKept /\ CheckpointIsDue
  BY DEF IInv, Kept
<1>2. CheckpointIsDue'
  BY <1>1 DEF CheckpointIsDue, Restored
<1>3. CASE LoadStart(r, p)
  <2>1. /\ at' = "start" /\ entries' = claim.entries /\ initial' = claim.initial
        /\ continuation'.payload = "none" /\ continuing' = FALSE
    BY <1>3 DEF LoadStart, NewLoop, NoContinuation
  <2>2. EntriesAreTaken' /\ PayloadIsKept' /\ InputIsDue'
    BY <1>1, <2>1 DEF EntriesAreTaken, PayloadIsKept, InputIsDue
  <2>3. QED
    BY <1>2, <2>2 DEF Kept
<1>4. CASE LoadResumed(r, p)
  <2>1. /\ at' = "top" /\ entries' = "none" /\ initial' = claim.initial
        /\ continuation' = claim.continuation /\ input' = Restored
        /\ phase' = claim.phase /\ due' = kept.due /\ cut' = kept.cut /\ shown' = NoMessage
    BY <1>4 DEF LoadResumed, NewLoop
  <2>2. claim.phase # "none"
    BY <1>4, Names DEF LoadResumed, WillRun
  <2>3. EntriesAreTaken'
    BY <1>1, <2>1 DEF EntriesAreTaken
  <2>4. HostPayload(claim.initial, Restored.payload)
    BY <1>1 DEF PayloadIsKept, HostPayload, Restored
  <2>5. PayloadIsKept'
    BY <1>1, <2>1, <2>4 DEF PayloadIsKept, HostPayload
  <2>6. InputIsDue'
    BY <1>1, <2>1, <2>2 DEF CheckpointIsDue, InputIsDue, AlreadyTold
  <2>7. QED
    BY <1>2, <2>3, <2>5, <2>6 DEF Kept
<1>5. QED
  BY <1>3, <1>4 DEF Load

LEMMA SuspendKeeps ==
  ASSUME IInv, NEW saved, NEW by, Suspend(saved, by),
         saved.entries = "none",
         saved.continuation.payload = "none" \/ HostPayload(saved.initial, saved.continuation.payload),
         claim' = saved /\ kept' = [due |-> due, cut |-> IF by = "asked" \/ cut = "nothing" THEN by ELSE cut]
           => CheckpointIsDue'
  PROVE  Kept'
<1>1. EntriesAreTaken /\ PayloadIsKept /\ CheckpointIsDue
  BY DEF IInv, Kept
<1>2. /\ entries' = "none" /\ initial' = "none" /\ at' \in {"suspended", "done"}
      /\ \/ UNCHANGED <<claim, kept>>
         \/ /\ claim' = saved
            /\ kept' = [due |-> due, cut |-> IF by = "asked" \/ cut = "nothing" THEN by ELSE cut]
  BY DEF Suspend, Gone
<1>3. CheckpointIsDue'
  BY <1>1, <1>2 DEF CheckpointIsDue, Restored
<1>4. EntriesAreTaken'
  BY <1>1, <1>2 DEF EntriesAreTaken
<1>5. PayloadIsKept'
  BY <1>1, <1>2 DEF PayloadIsKept, HostPayload
<1>6. InputIsDue'
  BY <1>2 DEF InputIsDue
<1>7. QED
  BY <1>3, <1>4, <1>5, <1>6 DEF Kept

\* awaitInput: with the execution limit reached before the Phase is told, or
\* after it has replied.
LEMMA AwaitKeeps ==
  ASSUME IInv, at \in {"top", "running"}, NEW then, NEW i \in {"none", "host"},
         NEW by \in {"nothing", "waited"}, AwaitInput(then, i, "none", by),
         HostPayload(i, input.payload), by = "nothing" => ~AlreadyTold
  PROVE  Kept'
<1> DEFINE saved == [phase |-> phase, initial |-> i, entries |-> "none",
                     continuation |-> [continuing |-> then, payload |-> input.payload,
                                       briefing |-> input.briefing]]
           save == [due |-> due, cut |-> IF by = "asked" \/ cut = "nothing" THEN by ELSE cut]
<1>1. ASSUME claim' = saved, kept' = save
      PROVE  CheckpointIsDue'
  <2>1. claim'.phase = phase /\ kept'.due = due
    BY <1>1
  <2>2. kept'.cut # "asked" => cut # "asked"
    BY <1>1
  <2>3. kept'.cut = "nothing" => cut = "nothing" /\ ~AlreadyTold
    BY <1>1
  <2>4. Restored' = input
    <3>1. input = [payload |-> input.payload, briefing |-> input.briefing]
      BY DEF IInv, TypeOK, Input
    <3>2. Restored' = [payload |-> IF input.payload = "none" THEN i ELSE input.payload,
                       briefing |-> input.briefing]
      BY <1>1 DEF Restored
    <3>3. (IF input.payload = "none" THEN i ELSE input.payload) = input.payload
      BY DEF HostPayload
    <3>4. QED
      BY <3>1, <3>2, <3>3
  <2> HIDE DEF saved, save
  <2>5. cut # "asked" =>
          /\ input.payload = due.payload
          /\ phase # Loop /\ ~AlreadyTold => (cut = "nothing" => input = due)
    BY DEF IInv, Kept, InputIsDue
  <2>6. QED
    BY <2>1, <2>2, <2>3, <2>4, <2>5 DEF CheckpointIsDue
<1>2. Suspend(saved, by)
  BY DEF AwaitInput
<1>3. /\ saved.entries = "none"
      /\ saved.continuation.payload = "none" \/ HostPayload(saved.initial, saved.continuation.payload)
  BY DEF HostPayload
<1> HIDE DEF saved
<1>4. QED
  BY <1>1, <1>2, <1>3, SuspendKeeps

LEMMA AskKeeps ==
  ASSUME IInv, Ask
  PROVE  Kept'
<1> DEFINE saved == [phase |-> phase, initial |-> initial, entries |-> entries,
                     continuation |-> continuation]
           save == [due |-> due, cut |-> IF "asked" = "asked" \/ cut = "nothing" THEN "asked" ELSE cut]
<1>1. Suspend(saved, "asked")
  BY DEF Ask
<1>2. /\ saved.entries = "none"
      /\ saved.continuation.payload = "none" \/ HostPayload(saved.initial, saved.continuation.payload)
  BY DEF Ask, IInv, Kept, EntriesAreTaken, PayloadIsKept
<1>3. kept' = save => CheckpointIsDue'
  BY DEF CheckpointIsDue
<1> HIDE DEF saved
<1>4. QED
  BY <1>1, <1>2, <1>3, SuspendKeeps

\* A step of the loop that stays in it, or ends it, and keeps the checkpoint.
LEMMA LoopKeeps ==
  ASSUME IInv, UNCHANGED <<claim, kept>>, entries' = "none",
         initial' = "none" \/ at' \notin {"top", "running"} \/ initial' = input'.payload,
         initial' = "none" \/ initial' = initial,
         continuation' = continuation \/ continuation' = NoContinuation,
         InputIsDue'
  PROVE  Kept'
<1>1. EntriesAreTaken /\ PayloadIsKept /\ CheckpointIsDue
  BY DEF IInv, Kept
<1>2. EntriesAreTaken'
  BY <1>1 DEF EntriesAreTaken
<1>3. PayloadIsKept'
  BY <1>1 DEF PayloadIsKept, HostPayload, NoContinuation
<1>4. CheckpointIsDue'
  BY <1>1 DEF CheckpointIsDue, Restored
<1>5. QED
  BY <1>2, <1>3, <1>4 DEF Kept

LEMMA InvInit == Init => IInv
<1> SUFFICES ASSUME Init PROVE IInv
  OBVIOUS
<1>1. TypeOK
  BY TypeInit
<1>2. claim.phase = "none" /\ claim.continuation.payload = "none" /\ at = "start"
  BY DEF Init, NoContinuation
<1>3. Kept
  BY <1>2
  DEF Init, Kept, EntriesAreTaken, PayloadIsKept, InputIsDue, CheckpointIsDue, HostPayload,
      NoContinuation
<1>4. QED
  BY <1>1, <1>3 DEF IInv

LEMMA InvStep == IInv /\ [Next]_vars => IInv'
<1> SUFFICES ASSUME IInv, [Next]_vars PROVE IInv'
  OBVIOUS
<1> USE DEF vars, runVars, stateVars, localVars, ghostVars
<1>0. TypeOK /\ TypeOK'
  BY TypeStep DEF IInv
<1>t. /\ at # "start" => entries = "none"
      /\ at \in {"top", "running"} => initial = "none" \/ input.payload = initial
  BY DEF IInv, Kept, EntriesAreTaken, PayloadIsKept, HostPayload
<1>d. cut # "asked" /\ at \in {"top", "running"} =>
        /\ input.payload = due.payload
        /\ phase # Loop /\ AlreadyTold => ToldRight
        /\ phase # Loop /\ ~AlreadyTold => (cut = "nothing" => input = due)
  BY DEF IInv, Kept, InputIsDue
<1> SUFFICES Kept'
  BY <1>0 DEF IInv
<1>1. CASE Start
  <2>1. /\ at' = "top" /\ entries' = "none" /\ input' = due' /\ continuing' = continuing
        /\ shown' = shown /\ UNCHANGED <<claim, kept, initial, continuation, continuing, shown>>
    BY <1>1 DEF Start, Given, Dispatched
  <2>2. initial = "none" \/ input'.payload = initial
    <3>1. initial = "none" \/ entries = "none"
      BY DEF IInv, Kept, PayloadIsKept
    <3>2. ASSUME entries = "none" PROVE input'.payload = initial
      <4>1. entries \notin registry
        BY <1>0, <3>2, Names DEF TypeOK
      <4>2. input' = [NoInput EXCEPT !.payload = initial]
        BY <1>1, <3>2, <4>1 DEF Start, Given
      <4>3. QED
        BY <4>2 DEF NoInput
    <3>3. QED
      BY <3>1, <3>2
  <2>3. ~continuing
    BY <1>1 DEF Start, IInv, Kept, InputIsDue
  <2>4. InputIsDue'
    BY <2>1, <2>3 DEF InputIsDue, AlreadyTold
  <2>5. QED
    BY <2>1, <2>2, <2>4, LoopKeeps
<1>2. CASE LimitReached
  <2>1. /\ at = "top"
        /\ AwaitInput(FALSE, initial, "none", IF continuing THEN "waited" ELSE "nothing")
    BY <1>2, <1>t DEF LimitReached
  <2>2. HostPayload(initial, input.payload) /\ initial \in {"none", "host"}
    BY <1>0, <1>t, <2>1 DEF HostPayload, TypeOK
  <2>3. CASE continuing
    BY <2>1, <2>2, <2>3, AwaitKeeps
  <2>4. CASE ~continuing
    <3>1. ~AlreadyTold
      BY <2>1, <2>4 DEF AlreadyTold
    <3>2. QED
      BY <2>1, <2>2, <2>4, <3>1, AwaitKeeps
  <2>5. QED
    BY <2>3, <2>4
<1>3. CASE Enter
  <2>1. /\ at = "top" /\ at' = "running" /\ entries = "none"
        /\ UNCHANGED <<claim, kept, initial, entries, continuation, phase, due, cut>>
    BY <1>3, <1>t DEF Enter
  <2>2. input'.payload = input.payload
    BY <1>3 DEF Enter, NoInput
  <2>3. CASE phase # Loop /\ (~continuing \/ shown = NoMessage)
    <3>1. ~AlreadyTold
      BY <2>1, <2>3 DEF AlreadyTold
    <3>2. shown' = [of |-> phase, given |-> input]
      BY <1>3, <2>3 DEF Enter
    <3>3. cut # "asked" => ToldRight'
      BY <1>d, <2>1, <2>3, <3>1, <3>2 DEF ToldRight
    <3>4. InputIsDue'
      BY <1>d, <2>1, <2>2, <3>3 DEF InputIsDue, AlreadyTold
    <3>5. QED
      BY <1>t, <2>1, <2>2, <3>4, LoopKeeps
  <2>4. CASE ~(phase # Loop /\ (~continuing \/ shown = NoMessage))
    <3>1. phase # Loop => AlreadyTold
      BY <2>4 DEF AlreadyTold
    <3>2. UNCHANGED <<shown, input>>
      BY <1>3, <2>4 DEF Enter
    <3>3. cut # "asked" /\ phase # Loop => ToldRight'
      BY <1>d, <2>1, <3>1, <3>2 DEF ToldRight
    <3>4. InputIsDue'
      BY <1>d, <2>1, <2>2, <3>3 DEF InputIsDue, AlreadyTold
    <3>5. QED
      BY <1>t, <2>1, <2>2, <3>4, LoopKeeps
  <2>5. QED
    BY <2>3, <2>4
<1>4. CASE Skip
  <2>1. /\ at = "top" /\ at' = "top" /\ due' = input /\ shown' = NoMessage /\ entries = "none"
        /\ UNCHANGED <<claim, kept, initial, entries, continuation, input>>
    BY <1>4, <1>t DEF Skip
  <2>2. InputIsDue'
    BY <2>1 DEF InputIsDue, AlreadyTold
  <2>3. QED
    BY <1>t, <2>1, <2>2, LoopKeeps
<1>5. CASE Fails
  <2>1. /\ at' = "done" /\ UNCHANGED <<claim, kept>> /\ entries' = "none" /\ initial' = "none"
        /\ continuation' = NoContinuation
    BY <1>5 DEF Fails, Gone
  <2>2. InputIsDue'
    BY <2>1 DEF InputIsDue
  <2>3. QED
    BY <2>1, <2>2, LoopKeeps
<1>6. CASE ToolRound
  <2>1. /\ at = "running" /\ entries = "none"
        /\ UNCHANGED <<claim, kept, at, phase, initial, entries, continuation, input, shown, due, cut>>
    BY <1>6, <1>t DEF ToolRound
  <2>2. InputIsDue'
    BY <1>d, <2>1 DEF InputIsDue, AlreadyTold, ToldRight
  <2>3. QED
    BY <1>t, <2>1, <2>2, LoopKeeps
<1>7. CASE Ask
  BY <1>7, AskKeeps
<1>8. CASE Complete
  <2>1. CASE at' = "done" /\ Gone
    <3>1. /\ UNCHANGED <<claim, kept>> /\ entries' = "none" /\ initial' = "none"
          /\ continuation' = NoContinuation
      BY <1>8, <2>1 DEF Complete, Gone
    <3>2. InputIsDue'
      BY <2>1 DEF InputIsDue
    <3>3. QED
      BY <3>1, <3>2, LoopKeeps
  <2>2. CASE Load(registry, "again")
    BY <1>0, <1>8, <2>2, LoadKeeps DEF Complete, TypeOK
  <2>3. QED
    BY <1>8, <2>1, <2>2 DEF Complete
<1>9. CASE Continue
  <2>1. /\ at = "running" /\ at' = "top" /\ initial' = "none" /\ entries' = "none" /\ continuing'
        /\ UNCHANGED <<claim, kept, phase, continuation, input, shown, due, cut>>
    BY <1>9 DEF Continue, GoesOn, Executed
  <2>2. cut # "asked" /\ phase # Loop => ToldRight /\ shown # NoMessage
    <3>1. cut # "asked" /\ phase # Loop => ToldRight
      BY <1>d, <2>1 DEF AlreadyTold
    <3>2. phase # "none"
      BY <1>0, Names DEF TypeOK
    <3>3. QED
      BY <3>1, <3>2 DEF ToldRight, NoMessage
  <2>3. InputIsDue'
    BY <1>d, <2>1, <2>2 DEF InputIsDue, AlreadyTold, ToldRight
  <2>4. QED
    BY <2>1, <2>3, LoopKeeps
<1>10. CASE Wait
  <2>1. HostPayload("none", input.payload)
    BY DEF HostPayload
  <2>2. QED
    BY <1>10, <2>1, AwaitKeeps DEF Wait
<1>11. CASE Overflow
  BY <1>0, <1>11, LoadKeeps DEF Overflow, TypeOK
<1>12. ASSUME NEW next, Route(next) \/ FanOut(next) PROVE Kept'
  <2>1. /\ at' = "top" /\ initial' = "none" /\ entries' = "none" /\ input' = due'
        /\ shown' = NoMessage /\ UNCHANGED <<claim, kept, continuation>>
    BY <1>12 DEF Route, FanOut, Given, JoinInput, GoesOn, Executed
  <2>2. InputIsDue'
    BY <2>1 DEF InputIsDue, AlreadyTold
  <2>3. QED
    BY <2>1, <2>2, LoopKeeps
<1>13. ASSUME NEW r \in Configuration, Resume(r) PROVE Kept'
  BY <1>13, LoadKeeps, ConfigurationAssumption DEF Resume
<1>14. CASE UNCHANGED vars
  BY <1>14
  DEF IInv, Kept, EntriesAreTaken, PayloadIsKept, InputIsDue, CheckpointIsDue, ToldRight,
      AlreadyTold, Restored
<1>15. QED
  BY <1>1, <1>2, <1>3, <1>4, <1>5, <1>6, <1>7, <1>8, <1>9, <1>10, <1>11, <1>12, <1>13, <1>14
  DEF Next, LoopStep

\* Through routes, skips, fan-outs, waits, limits and resumptions under another
\* Configuration, a Phase is told what was meant for it.
THEOREM EveryPhaseIsTold == Spec => []PhaseSeesItsInput
<1>1. IInv => PhaseSeesItsInput
  BY DEF IInv, Kept, InputIsDue, AlreadyTold, ToldRight, PhaseSeesItsInput
<1>2. QED
  BY <1>1, InvInit, InvStep, PTL DEF Spec

\* Entry Phases leave the state before they are run, so no checkpoint has them.
THEOREM EntriesRunOnce == Spec => []ResumedRunsDoNotRedispatch
<1>1. IInv => ResumedRunsDoNotRedispatch
  BY DEF IInv, Kept, EntriesAreTaken, ResumedRunsDoNotRedispatch
<1>2. QED
  BY <1>1, InvInit, InvStep, PTL DEF Spec
=============================================================================
