--------------------------- MODULE ConfigCommands ---------------------------
(***************************************************************************)
(* Which Configuration a Turn runs on.  The Store keeps tokens, a Provider *)
(* keeps what they stand for, and every command is a saga over the two:    *)
(* createAgent and updateAgentConfig (runtime/config-commands.ts), and     *)
(* start, respondInteraction and execute (runtime/durable-runtime.ts),     *)
(* which resolve the Agent's token and pin a snapshot to the Run.  A step  *)
(* is what runs between two awaits.  One Agent; its Runs and their         *)
(* questions are those of RunStore, with the tokens that are left out      *)
(* there.                                                                  *)
(***************************************************************************)
EXTENDS Naturals, FiniteSets

CONSTANTS
  Identity,      \* AgentConfiguration.identity
  MaxUpdates,    \* bound: updateAgentConfig calls, not counting retries
  MaxMessages,   \* bound: messages of the host, not counting retries
  Faults         \* what the Provider may do: throw, defer, or not know a token

ASSUME ConfigAssumption ==
  /\ "none" \notin Identity
  /\ MaxUpdates \in Nat /\ MaxMessages \in Nat
  /\ Faults \subseteq {"throws", "deferred", "unavailable"}

Update == 1 .. MaxUpdates
Message == 1 .. MaxMessages   \* by idempotency key
Run == Message                \* a Run is numbered by the message that created it

\* The operation ids under which the Provider is asked to store.  It gives each
\* a token of its own, so an operation is its token.
Operation ==
  ({"create"} \X {0}) \cup ({"update"} \X Update)
  \cup ({"start", "run", "answer"} \X Message)

NoToken == <<"none", 0>>
Token == Operation \cup {NoToken}
CreateToken == <<"create", 0>>

\* An AgentConfiguration names its resources, a ConfigurationSnapshot has them.
Config == [identity: Identity, snapshot: BOOLEAN]
NoConfig == [identity |-> "none", snapshot |-> FALSE]

VARIABLES
  asked,      \* the identity each command asks for, the same in every retry
  stored,     \* the Provider: what it keeps for each operation
  agent,      \* the AgentRecord
  receipts,   \* the updates the Store has a receipt of
  runs,       \* the RunRecords, and what the attempts of their Turn run on
  commands,   \* where createAgent and the updateAgentConfig calls are
  calls,      \* where the calls that carry a message are
  exec,       \* the execute() in flight
  current     \* history: what was the Agent's identity since a message was sent

storeVars == <<agent, receipts, runs>>
callVars == <<commands, calls, exec>>
vars == <<asked, stored, storeVars, callVars, current>>

Command == ({"create"} \X {0}) \cup ({"update"} \X Update)

NoCall == [at |-> "idle", token |-> NoToken, pin |-> NoToken, turn |-> 0]
Call == [at: {"idle", "payload", "check", "create", "resolve", "answer", "done"},
         token: Token, pin: Token, turn: 0 .. MaxMessages]

\* boundary: waits without an attempt for the next message; asking: for the
\* answer to a question in the middle of its Turn.
NoRun == [state |-> "none", sequence |-> 0, pin |-> NoToken, turn |-> 0, under |-> NoConfig]
RunRecord == [state: {"none", "queued", "running", "boundary", "asking", "ended", "failed"},
              sequence: 0 .. MaxMessages,      \* agentSequence
              pin: Token,                      \* pinnedConfigToken
              turn: 0 .. MaxMessages,          \* the message that opened the Turn
              under: Config \cup {NoConfig}]   \* what its attempts run on

NoExec == [run |-> 0, at |-> "none", token |-> NoToken, config |-> NoConfig]
Exec == [run: 0 .. MaxMessages, at: {"none", "resolving", "ready"},
         token: Token, config: Config \cup {NoConfig}]

TypeOK ==
  /\ asked \in [Command -> Identity]
  /\ stored \in [Operation -> Config \cup {NoConfig}]
  /\ agent \in [activated: BOOLEAN, token: Token, identity: Identity \cup {"none"}]
  /\ receipts \subseteq Update
  /\ runs \in [Run -> RunRecord]
  /\ commands \in [Command -> {"idle", "stored"}]
  /\ calls \in [Message -> Call]
  /\ exec \in Exec
  /\ current \in [Message -> SUBSET Identity]

Init ==
  /\ asked \in [Command -> Identity]
  /\ stored = [o \in Operation |-> NoConfig]
  /\ agent = [activated |-> FALSE, token |-> NoToken, identity |-> "none"]
  /\ receipts = {}
  /\ runs = [r \in Run |-> NoRun]
  /\ commands = [c \in Command |-> "idle"]
  /\ calls = [m \in Message |-> NoCall]
  /\ exec = NoExec
  /\ current = [m \in Message |-> {}]

-----------------------------------------------------------------------------
(* The Provider *)

\* The same operation again: the same token if the identity is the same, and
\* what was stored first is kept; a conflict otherwise.
SameIdentityOrNot(o, c) == TRUE  \* mutant: the operation alone is compared
SameIdentity(o, c) == stored[o] = NoConfig \/ stored[o].identity = c.identity
Put(o, c) ==
  /\ SameIdentity(o, c)
  /\ stored' = IF stored[o] = NoConfig THEN [stored EXCEPT ![o] = c] ELSE stored

\* put() does not give a token: a conflict, a failure, or an answer that is
\* lost, by the deadline or by the caller's signal, after the Provider stored.
PutFails(o, c) ==
  \/ ~SameIdentity(o, c) /\ UNCHANGED stored
  \/ "throws" \in Faults /\ UNCHANGED stored
  \/ "throws" \in Faults /\ Put(o, c)

\* resolveConfig: a snapshot is what it is, a Configuration becomes one.
Resolved(t) == [stored[t] EXCEPT !.snapshot = TRUE]

-----------------------------------------------------------------------------
(* createAgent and updateAgentConfig *)

Request(c) == [identity |-> asked[c], snapshot |-> FALSE]

\* Before createAgent asks the Provider it reserves the Agent, which gives an id
\* and lets nobody see it yet.  A retry finds the record as it was reserved, in
\* the receipt: it never takes the early return for an activated Agent.
PutCommandUnchecked(c) ==  \* mutant: what the Provider answered is not looked at
  /\ commands[c] = "idle" /\ (c # CreateToken => agent.activated)
  /\ Put(c, Request(c)) \/ PutFails(c, Request(c))
  /\ commands' = [commands EXCEPT ![c] = "stored"]
  /\ UNCHANGED <<asked, storeVars, calls, exec, current>>
PutCommand(c) ==
  /\ commands[c] = "idle" /\ (c # CreateToken => agent.activated)
  /\ \/ Put(c, Request(c)) /\ commands' = [commands EXCEPT ![c] = "stored"]
     \/ PutFails(c, Request(c)) /\ UNCHANGED commands
  /\ UNCHANGED <<asked, storeVars, calls, exec, current>>

\* The Agent's Configuration is another from here on, for all messages under way.
Becomes(t, identity) ==
  /\ agent' = [agent EXCEPT !.activated = TRUE, !.token = t, !.identity = identity]
  /\ current' = [m \in Message |-> IF current[m] = {} THEN {} ELSE current[m] \cup {identity}]

ActivateAgent ==
  /\ commands[CreateToken] = "stored"
  /\ Becomes(CreateToken, asked[CreateToken])
  /\ commands' = [commands EXCEPT ![CreateToken] = "idle"]
  /\ UNCHANGED <<asked, stored, receipts, runs, calls, exec>>

RepeatedNever(u) == FALSE  \* mutant: the receipt is not looked at
Repeated(u) == u \in receipts

UpdateAgentConfigToken(u) ==
  /\ commands[<<"update", u>>] = "stored"
  /\ IF Repeated(u) THEN UNCHANGED <<agent, current>>
     ELSE Becomes(<<"update", u>>, asked[<<"update", u>>])
  /\ receipts' = receipts \cup {u}
  /\ commands' = [commands EXCEPT ![<<"update", u>>] = "idle"]
  /\ UNCHANGED <<asked, stored, runs, calls, exec>>

-----------------------------------------------------------------------------
(* start *)

\* Called again after it failed or its process died, it reads the Agent again.
Send(m) ==
  /\ agent.activated /\ calls[m].at = "idle"
  /\ \E at \in {"payload", "check"} :   \* with a phasePayload or without
       calls' = [calls EXCEPT ![m] = [NoCall EXCEPT !.at = at, !.token = agent.token]]
  /\ current' = [current EXCEPT ![m] = {agent.identity}]
  /\ UNCHANGED <<asked, stored, storeVars, commands, exec>>

CallAt(m, at, pin) == calls' = [calls EXCEPT ![m].at = at, ![m].pin = pin]
CallFails(m) == calls' = [calls EXCEPT ![m] = NoCall]
CallOnly == UNCHANGED <<asked, storeVars, commands, exec, current>>

\* resolve() gives no Configuration.
ResolveFails == Faults # {}

StartToken(m) == <<"start", m>>

\* The payload is prepared by the entry Phase of a snapshot, which is pinned.
ResolvePayload(m) ==
  /\ calls[m].at = "payload"
  /\ LET c == Resolved(calls[m].token) IN
     \/ Put(StartToken(m), c) /\ CallAt(m, "check", StartToken(m))
     \/ PutFails(StartToken(m), c) /\ CallFails(m)
     \/ ResolveFails /\ UNCHANGED stored /\ CallFails(m)
  /\ CallOnly

\* If a Run waits for the message now, its Turn is to have the Agent's
\* Configuration, the one that was read at the start of the call.
CheckBoundary(m) ==
  /\ calls[m].at = "check"
  /\ IF \A r \in Run : runs[r].state # "boundary"
     THEN CallAt(m, "create", calls[m].pin) /\ UNCHANGED stored
     ELSE LET c == IF calls[m].pin = NoToken THEN Resolved(calls[m].token)
                   ELSE stored[calls[m].pin]
          IN \/ Put(StartToken(m), c) /\ CallAt(m, "create", StartToken(m))
             \/ PutFails(StartToken(m), c) /\ CallFails(m)
             \/ /\ calls[m].pin = NoToken /\ ResolveFails
                /\ UNCHANGED stored /\ CallAt(m, "create", NoToken)
  /\ CallOnly

AtTurnBoundary(r) == runs[r].state = "boundary"
Waiting == {r \in Run : runs[r].state \in {"boundary", "asking"}}

OpenTurn(run, m, pin) ==
  [run EXCEPT !.state = "queued", !.turn = m, !.under = NoConfig,
              !.pin = IF pin = NoToken THEN run.pin ELSE pin]

\* A message that is a reply in the middle of a Turn leaves its pin alone.
ReplyRepins(r, m) == [runs[r] EXCEPT !.state = "queued", !.pin = OpenTurn(runs[r], m, calls[m].pin).pin]  \* mutant
Reply(r, m) == [runs[r] EXCEPT !.state = "queued"]

NewRun(m) ==
  LET before == {r \in Run : runs[r].state # "none"} IN
  OpenTurn([NoRun EXCEPT !.sequence = Cardinality(before) + 1], m, calls[m].pin)

\* createRun: a reply to the Run that waits, or a new Run.
CreateRun(m) ==
  /\ calls[m].at = "create"
  /\ \/ \E r \in Waiting :
          runs' = [runs EXCEPT ![r] = IF AtTurnBoundary(r) THEN OpenTurn(runs[r], m, calls[m].pin)
                                      ELSE Reply(r, m)]
     \/ Waiting = {} /\ runs' = [runs EXCEPT ![m] = NewRun(m)]
  /\ CallAt(m, "done", NoToken)
  /\ UNCHANGED <<asked, stored, agent, receipts, commands, exec, current>>

-----------------------------------------------------------------------------
(* respondInteraction *)

\* The answer that opens the next Turn.
Answer(m, r) ==
  /\ calls[m].at = "idle" /\ AtTurnBoundary(r)
  /\ calls' = [calls EXCEPT ![m] = [NoCall EXCEPT !.at = "resolve", !.token = agent.token,
                                                  !.turn = runs[r].turn]]
  /\ current' = [current EXCEPT ![m] = {agent.identity}]
  /\ UNCHANGED <<asked, stored, storeVars, commands, exec>>

\* A Turn ends with one question, which is named after the Turn here.  Whatever
\* fails is caught: the Run then keeps its pin.
ResolveAnswer(m) ==
  /\ calls[m].at = "resolve"
  /\ LET o == <<"answer", calls[m].turn>>
         c == Resolved(calls[m].token)
     IN \/ Put(o, c) /\ CallAt(m, "answer", o)
        \/ PutFails(o, c) /\ CallAt(m, "answer", NoToken)
        \/ ResolveFails /\ UNCHANGED stored /\ CallAt(m, "answer", NoToken)
  /\ CallOnly

\* answerInteraction, refused when the Run was changed since it was read.
RecordAnswer(m) ==
  /\ calls[m].at = "answer"
  /\ LET asking == {r \in Run : AtTurnBoundary(r) /\ runs[r].turn = calls[m].turn} IN
     \/ \E r \in asking :
          /\ runs' = [runs EXCEPT ![r] = OpenTurn(runs[r], m, calls[m].pin)]
          /\ calls' = [calls EXCEPT ![m] = [NoCall EXCEPT !.at = "done"]]
     \/ asking = {} /\ CallFails(m) /\ UNCHANGED runs
  /\ UNCHANGED <<asked, stored, agent, receipts, commands, exec, current>>

\* The answer to a question in the middle of the Turn.
AnswerQuestion(r) ==
  /\ runs[r].state = "asking"
  /\ runs' = [runs EXCEPT ![r].state = "queued"]
  /\ UNCHANGED <<asked, stored, agent, receipts, callVars, current>>

-----------------------------------------------------------------------------
(* execute *)

ExecOnly == UNCHANGED <<asked, agent, receipts, commands, calls, current>>

Execute(r) ==
  /\ exec = NoExec /\ runs[r].state = "queued"
  /\ \A q \in Run : runs[q].state # "running"
  /\ exec' = [run |-> r, at |-> "resolving", config |-> NoConfig,
              token |-> IF runs[r].pin # NoToken THEN runs[r].pin ELSE agent.token]
  /\ UNCHANGED <<stored, runs>> /\ ExecOnly

Returns == exec' = NoExec
FailQueued == runs' = [runs EXCEPT ![exec.run].state = "failed"] /\ Returns

\* The Provider does not know the token, or it throws.
Unavailable ==
  /\ exec.at = "resolving" /\ {"throws", "unavailable"} \cap Faults # {}
  /\ FailQueued
  /\ UNCHANGED stored /\ ExecOnly

Deferred ==
  /\ exec.at = "resolving" /\ "deferred" \in Faults
  /\ Returns
  /\ UNCHANGED <<stored, runs>> /\ ExecOnly

\* A Configuration is stored as the snapshot of the Run; the attempt has what
\* it resolved itself, whichever snapshot the Provider keeps for the Run.
ResolveConfig ==
  /\ exec.at = "resolving"
  /\ LET c == Resolved(exec.token)
         Ready(t) == exec' = [exec EXCEPT !.at = "ready", !.token = t, !.config = c] /\ UNCHANGED runs
     IN IF stored[exec.token].snapshot
        THEN Ready(exec.token) /\ UNCHANGED stored
        ELSE \/ Put(<<"run", exec.run>>, c) /\ Ready(<<"run", exec.run>>)
             \/ PutFails(<<"run", exec.run>>, c) /\ FailQueued
  /\ ExecOnly

\* The context is nearly full: a Control Run that compacts goes first.
AutoCompact ==
  /\ exec.at = "ready" /\ Returns
  /\ UNCHANGED <<stored, runs>> /\ ExecOnly

MayClaim(r) ==
  \A q \in Run \ {r} :
    /\ runs[q].state \notin {"running", "boundary", "asking"}
    /\ runs[q].state = "queued" => runs[q].sequence > runs[r].sequence

ClaimRun ==
  /\ exec.at = "ready"
  /\ IF MayClaim(exec.run) /\ runs[exec.run].pin \in {NoToken, exec.token}
     THEN runs' = [runs EXCEPT ![exec.run].state = "running", ![exec.run].pin = exec.token,
                               ![exec.run].under = exec.config]
     ELSE UNCHANGED runs
  /\ Returns
  /\ UNCHANGED stored /\ ExecOnly

\* The attempt ends: at the boundary of the Turn, with a question, or for good.
AttemptEnds(r) ==
  /\ runs[r].state = "running"
  /\ \E state \in {"boundary", "asking", "ended"} : runs' = [runs EXCEPT ![r].state = state]
  /\ UNCHANGED <<asked, stored, agent, receipts, callVars, current>>

\* The process closes or dies.  Every call of the host fails; a running Run is
\* interrupted when the Store is opened again.
Crash ==
  /\ runs' = [r \in Run |-> IF runs[r].state = "running" THEN [runs[r] EXCEPT !.state = "ended"]
                             ELSE runs[r]]
  /\ commands' = [c \in Command |-> "idle"]
  /\ calls' = [m \in Message |-> IF calls[m].at = "done" THEN calls[m] ELSE NoCall]
  /\ exec' = NoExec
  /\ UNCHANGED <<asked, stored, agent, receipts, current>>

-----------------------------------------------------------------------------

Commands ==
  \/ ActivateAgent
  \/ \E u \in Update : UpdateAgentConfigToken(u)
  \/ \E c \in Command : PutCommand(c)

Messages ==
  \/ \E m \in Message :
       \/ Send(m) \/ ResolvePayload(m) \/ CheckBoundary(m) \/ CreateRun(m)
       \/ ResolveAnswer(m) \/ RecordAnswer(m)
  \/ \E m \in Message, r \in Run : Answer(m, r)
  \/ \E r \in Run : AnswerQuestion(r)

Attempts ==
  \/ \E r \in Run : Execute(r) \/ AttemptEnds(r)
  \/ Unavailable \/ Deferred \/ ResolveConfig \/ AutoCompact \/ ClaimRun

Next == Commands \/ Messages \/ Attempts \/ Crash

Spec == Init /\ [][Next]_vars

-----------------------------------------------------------------------------
(* Properties *)

\* A token in the Store always stands for something at the Provider: the
\* Agent's for the Configuration it is shown with, a Run's for a snapshot.
\* Neither a crash nor a retry between put and commit leaves it dangling.
TokensAreKept ==
  /\ agent.activated =>
       stored[agent.token] # NoConfig /\ stored[agent.token].identity = agent.identity
  /\ \A r \in Run : runs[r].pin # NoToken => stored[runs[r].pin].snapshot

\* A retry of an update that was replaced since does not bring it back.
UpdatesAreNotUndone ==
  [][\A u \in receipts : agent.token # <<"update", u>> => agent'.token # <<"update", u>>]_vars

\* A Run does not execute under a Configuration that was replaced before the
\* message that created it was sent.
NewRunsSeeUpdates ==
  \A r \in Run : runs[r].turn = r /\ runs[r].under # NoConfig =>
    runs[r].under.identity \in current[r]

\* Everything in a Turn runs under one Configuration, through questions,
\* restarts and updates of the Agent.
TurnKeepsItsConfiguration ==
  [][\A r \in Run :
       /\ runs[r].under # NoConfig /\ runs'[r].under # NoConfig
       /\ runs'[r].turn = runs[r].turn
       => runs'[r].under.identity = runs[r].under.identity]_vars
=============================================================================
