------------------------ MODULE ConfigCommandsProofs ------------------------
(***************************************************************************)
(* What ConfigCommands promises, for any number of identities, updates and *)
(* messages, and whatever the Provider does.                               *)
(***************************************************************************)
EXTENDS ConfigCommands, FiniteSetTheorems, TLAPS

-----------------------------------------------------------------------------
(* The inductive invariant *)

\* What is stored for a command is what it asked for; the rest are snapshots.
StoredIsSound ==
  \A o \in Operation : stored[o] # NoConfig =>
    IF o \in Command THEN stored[o].identity = asked[o] ELSE stored[o].snapshot

CommandsAreSound == \A c \in Command : commands[c] = "stored" => stored[c] # NoConfig

AgentIsSound ==
  agent.activated =>
    /\ agent.token \in Operation /\ stored[agent.token] # NoConfig
    /\ stored[agent.token].identity = agent.identity

CurrentIsSound ==
  \A m \in Message : current[m] # {} => agent.activated /\ agent.identity \in current[m]

\* What a call has read or stored was the Agent's Configuration since it began.
CallsAreSound ==
  \A m \in Message :
    /\ calls[m].at \notin {"idle", "done"} =>
         /\ current[m] # {}
         /\ calls[m].token \in Operation /\ stored[calls[m].token] # NoConfig
         /\ stored[calls[m].token].identity \in current[m]
    /\ calls[m].pin # NoToken =>
         /\ calls[m].at \notin {"idle", "done"}
         /\ stored[calls[m].pin].snapshot
         /\ stored[calls[m].pin].identity \in current[m]

TurnsAreSound ==
  \A m \in Message : calls[m].at \in {"resolve", "answer"} => calls[m].turn \in Message

\* A Run's message is not sent again, so what was current for it only grows.
RunsAreSound ==
  \A r \in Run :
    /\ runs[r].state = "none" => runs[r] = NoRun
    /\ runs[r].state # "none" =>
         /\ calls[r].at = "done"
         /\ runs[r].turn \in Message /\ calls[runs[r].turn].at = "done"
         /\ current[runs[r].turn] # {}
    /\ runs[r].pin # NoToken => stored[runs[r].pin].snapshot
    /\ runs[r].pin # NoToken /\ runs[r].turn = r => stored[runs[r].pin].identity \in current[r]
    /\ runs[r].under # NoConfig =>
         runs[r].pin # NoToken /\ runs[r].under.identity = stored[runs[r].pin].identity

ExecIsSound ==
  exec # NoExec =>
    /\ exec.run \in Run /\ exec.at \in {"resolving", "ready"}
    /\ runs[exec.run].state = "queued"
    /\ exec.token \in Operation /\ stored[exec.token] # NoConfig
    /\ runs[exec.run].pin # NoToken => exec.token = runs[exec.run].pin
    /\ runs[exec.run].turn = exec.run => stored[exec.token].identity \in current[exec.run]
    /\ exec.at = "ready" =>
         /\ stored[exec.token].snapshot
         /\ exec.config.identity = stored[exec.token].identity

IInv == /\ TypeOK /\ StoredIsSound /\ CommandsAreSound /\ AgentIsSound /\ CurrentIsSound
        /\ CallsAreSound /\ TurnsAreSound /\ RunsAreSound /\ ExecIsSound

-----------------------------------------------------------------------------
(* Operations, tokens and what is stored for them *)

LEMMA Names ==
  /\ NoToken \notin Operation /\ NoConfig \notin Config /\ ~NoConfig.snapshot
  /\ Command \subseteq Operation /\ CreateToken \in Command
  /\ \A u \in Update : <<"update", u>> \in Command
  /\ \A m \in Message : \A k \in {"start", "run", "answer"} :
       <<k, m>> \in Operation /\ <<k, m>> \notin Command
  /\ NoToken \in Token /\ Operation \subseteq Token
  BY ConfigAssumption
  DEF NoToken, Operation, NoConfig, Config, Command, CreateToken, Update, Message, Token

LEMMA Blank ==
  /\ NoCall \in Call /\ NoRun \in RunRecord /\ NoExec \in Exec
  /\ NoCall.at = "idle" /\ NoCall.pin = NoToken
  BY Names, ConfigAssumption DEF NoCall, Call, NoRun, RunRecord, NoExec, Exec

\* What was stored stays.
Grows ==
  /\ stored' \in [Operation -> Config \cup {NoConfig}]
  /\ \A o \in Operation : stored[o] # NoConfig => stored'[o] = stored[o]

LEMMA PutResult ==
  ASSUME TypeOK, StoredIsSound, NEW o \in Operation, NEW c \in Config,
         o \in Command => c.identity = asked[o],
         o \notin Command => c.snapshot,
         UNCHANGED asked,
         Put(o, c) \/ PutFails(o, c) \/ UNCHANGED stored
  PROVE  /\ Grows /\ StoredIsSound'
         /\ Put(o, c) => stored'[o] # NoConfig /\ stored'[o].identity = c.identity
<1>1. stored \in [Operation -> Config \cup {NoConfig}]
  BY DEF TypeOK
<1>2. CASE UNCHANGED stored
  BY <1>1, <1>2, Names DEF Grows, StoredIsSound, Put, SameIdentity
<1>3. CASE Put(o, c)
  <2>1. CASE stored[o] = NoConfig
    <3>1. stored' = [stored EXCEPT ![o] = c]
      BY <1>3, <2>1 DEF Put
    <3>2. QED
      BY <1>1, <2>1, <3>1, Names DEF Grows, StoredIsSound
  <2>2. CASE stored[o] # NoConfig
    BY <1>1, <1>3, <2>2 DEF Grows, StoredIsSound, Put, SameIdentity
  <2>3. QED
    BY <2>1, <2>2
<1>4. QED
  BY <1>2, <1>3 DEF PutFails

LEMMA ResolvedConfig ==
  ASSUME TypeOK, NEW t \in Operation, stored[t] # NoConfig
  PROVE  /\ Resolved(t) \in Config /\ Resolved(t).snapshot
         /\ Resolved(t).identity = stored[t].identity
<1>1. stored[t] \in Config
  BY DEF TypeOK
<1>2. QED
  BY <1>1 DEF Resolved, Config

-----------------------------------------------------------------------------
(* What an action leaves alone *)

\* What is current for a message that was sent only grows.
Widens == \A m \in Message : calls[m].at # "idle" => current[m] \subseteq current'[m]

LEMMA CommandsKept ==
  ASSUME IInv, Grows, UNCHANGED commands
  PROVE  CommandsAreSound'
  BY Names DEF IInv, Grows, CommandsAreSound

LEMMA AgentKept ==
  ASSUME IInv, Grows, UNCHANGED agent
  PROVE  AgentIsSound'
  BY DEF IInv, Grows, AgentIsSound

LEMMA CallKept ==
  ASSUME IInv, Grows, Widens, NEW m \in Message, calls'[m] = calls[m]
  PROVE  /\ calls'[m].at \notin {"idle", "done"} =>
              /\ current'[m] # {}
              /\ calls'[m].token \in Operation /\ stored'[calls'[m].token] # NoConfig
              /\ stored'[calls'[m].token].identity \in current'[m]
         /\ calls'[m].pin # NoToken =>
              /\ calls'[m].at \notin {"idle", "done"}
              /\ stored'[calls'[m].pin].snapshot
              /\ stored'[calls'[m].pin].identity \in current'[m]
<1>1. calls[m].pin \in Operation \cup {NoToken}
  BY DEF IInv, TypeOK, Call, Token
<1>2. calls[m].pin # NoToken => stored[calls[m].pin] # NoConfig
  BY Names DEF IInv, CallsAreSound
<1>3. QED
  BY <1>1, <1>2 DEF IInv, CallsAreSound, Grows, Widens

LEMMA CallsKept ==
  ASSUME IInv, Grows, Widens, UNCHANGED calls
  PROVE  CallsAreSound'
  BY CallKept DEF CallsAreSound

LEMMA TurnsKept ==
  ASSUME IInv, UNCHANGED calls
  PROVE  TurnsAreSound'
  BY DEF IInv, TurnsAreSound

\* A message that was delivered stays delivered.
Delivered == \A m \in Message : calls[m].at = "done" => calls'[m].at = "done"

LEMMA RunKept ==
  ASSUME IInv, Grows, Widens, Delivered, NEW r \in Run,
         runs'[r] = runs[r] \/ (runs[r].state # "none" /\ \E s \in {"queued", "running", "boundary", "asking", "ended", "failed"} :
                                  runs'[r] = [runs[r] EXCEPT !.state = s])
  PROVE  /\ runs'[r].state = "none" => runs'[r] = NoRun
         /\ runs'[r].state # "none" =>
              /\ calls'[r].at = "done"
              /\ runs'[r].turn \in Message /\ calls'[runs'[r].turn].at = "done"
              /\ current'[runs'[r].turn] # {}
         /\ runs'[r].pin # NoToken => stored'[runs'[r].pin].snapshot
         /\ runs'[r].pin # NoToken /\ runs'[r].turn = r => stored'[runs'[r].pin].identity \in current'[r]
         /\ runs'[r].under # NoConfig =>
              runs'[r].pin # NoToken /\ runs'[r].under.identity = stored'[runs'[r].pin].identity
<1>1. /\ runs[r] \in RunRecord /\ r \in Message
      /\ runs'[r].pin = runs[r].pin /\ runs'[r].turn = runs[r].turn /\ runs'[r].under = runs[r].under
      /\ runs[r].state = "none" => runs'[r] = runs[r]
      /\ runs[r].state # "none" => runs'[r].state # "none"
  BY DEF IInv, TypeOK, RunRecord, Run
<1>2. runs[r].pin \in Operation \cup {NoToken}
  BY <1>1 DEF RunRecord, Token
<1>3. runs[r].pin # NoToken => stored'[runs[r].pin] = stored[runs[r].pin]
  BY <1>1, <1>2, Names DEF IInv, RunsAreSound, Grows
<1>4. runs[r].state = "none" => runs[r].pin = NoToken /\ runs[r].under = NoConfig
  BY DEF IInv, RunsAreSound, NoRun
<1>5. runs[r].state # "none" =>
        /\ current[r] \subseteq current'[r] /\ current[runs[r].turn] \subseteq current'[runs[r].turn]
  BY DEF IInv, RunsAreSound, Widens, Run
<1>6. QED
  BY <1>1, <1>2, <1>3, <1>4, <1>5 DEF IInv, RunsAreSound, Delivered

LEMMA RunsKept ==
  ASSUME IInv, Grows, Widens, Delivered, UNCHANGED runs
  PROVE  RunsAreSound'
  BY RunKept DEF RunsAreSound

\* execute() is not disturbed: its Run stays as it is.
LEMMA ExecKept ==
  ASSUME IInv, Grows, Widens, UNCHANGED exec, exec # NoExec => runs'[exec.run] = runs[exec.run]
  PROVE  ExecIsSound'
<1>1. CASE exec # NoExec
  <2>1. exec.run \in Run /\ exec.run \in Message /\ exec.token \in Operation
    BY <1>1 DEF IInv, ExecIsSound, Run
  <2>2. calls[exec.run].at = "done"
    BY <1>1, <2>1 DEF IInv, ExecIsSound, RunsAreSound
  <2>3. current[exec.run] \subseteq current'[exec.run]
    BY <2>1, <2>2 DEF Widens
  <2>4. stored'[exec.token] = stored[exec.token]
    BY <1>1, <2>1 DEF IInv, ExecIsSound, Grows
  <2>5. QED
    BY <1>1, <2>1, <2>3, <2>4 DEF IInv, ExecIsSound
<1>2. QED
  BY <1>1 DEF ExecIsSound

-----------------------------------------------------------------------------
(* The steps *)

LEMMA InitInductive == Init => IInv
<1> SUFFICES ASSUME Init PROVE IInv
  OBVIOUS
<1>1. TypeOK
  BY Names, Blank DEF Init, TypeOK
<1>2. /\ \A o \in Operation : stored[o] = NoConfig
      /\ \A c \in Command : commands[c] # "stored"
      /\ ~agent.activated /\ exec = NoExec
      /\ \A m \in Message : current[m] = {} /\ calls[m] = NoCall
      /\ \A r \in Run : runs[r] = NoRun
  BY DEF Init
<1>3. StoredIsSound /\ CommandsAreSound /\ AgentIsSound /\ CurrentIsSound /\ ExecIsSound
  BY <1>2 DEF StoredIsSound, CommandsAreSound, AgentIsSound, CurrentIsSound, ExecIsSound
<1>4. CallsAreSound /\ TurnsAreSound
  BY <1>2, Blank DEF CallsAreSound, TurnsAreSound
<1>5. RunsAreSound
  BY <1>2 DEF RunsAreSound, NoRun
<1>6. QED
  BY <1>1, <1>3, <1>4, <1>5 DEF IInv

LEMMA NothingStored ==
  ASSUME IInv, UNCHANGED <<asked, stored>>
  PROVE  Grows /\ StoredIsSound'
  BY DEF IInv, TypeOK, Grows, StoredIsSound

LEMMA PutCommandInductive ==
  ASSUME IInv, NEW c \in Command, PutCommand(c)
  PROVE  IInv'
<1>1. TypeOK /\ StoredIsSound /\ c \in Operation
  BY Names DEF IInv
<1>2. Request(c) \in Config /\ Request(c).identity = asked[c]
  BY DEF IInv, TypeOK, Request, Config
<1>3. /\ Grows /\ StoredIsSound'
      /\ Put(c, Request(c)) => stored'[c] # NoConfig
  BY <1>1, <1>2, PutResult DEF PutCommand
<1>4. UNCHANGED <<asked, agent, receipts, runs, calls, exec, current>>
  BY DEF PutCommand, storeVars
<1>5. commands' \in [Command -> {"idle", "stored"}] /\ CommandsAreSound'
  <2>1. CASE UNCHANGED commands
    BY <1>3, <2>1, CommandsKept DEF IInv, TypeOK
  <2>2. CASE Put(c, Request(c)) /\ commands' = [commands EXCEPT ![c] = "stored"]
    BY <1>3, <2>2, Names DEF IInv, TypeOK, CommandsAreSound, Grows
  <2>3. QED
    BY <2>1, <2>2 DEF PutCommand
<1>6. TypeOK'
  BY <1>3, <1>4, <1>5 DEF IInv, TypeOK, Grows
<1>7. Widens /\ Delivered /\ CurrentIsSound'
  BY <1>4 DEF IInv, Widens, Delivered, CurrentIsSound
<1>8. QED
  BY <1>3, <1>4, <1>5, <1>6, <1>7, AgentKept, CallsKept, TurnsKept, RunsKept, ExecKept DEF IInv

LEMMA BecomesSound ==
  ASSUME IInv, NEW c \in Command, stored[c] # NoConfig, Becomes(c, asked[c]),
         UNCHANGED <<asked, stored, runs, calls, exec>>
  PROVE  /\ agent' \in [activated: BOOLEAN, token: Token, identity: Identity \cup {"none"}]
         /\ current' \in [Message -> SUBSET Identity]
         /\ Grows /\ StoredIsSound'
         /\ AgentIsSound' /\ CurrentIsSound' /\ CallsAreSound' /\ TurnsAreSound' /\ RunsAreSound' /\ ExecIsSound'
<1>1. Grows /\ StoredIsSound'
  BY NothingStored
<1>2. /\ c \in Operation /\ c \in Token /\ asked[c] \in Identity
      /\ stored[c].identity = asked[c]
  BY Names DEF IInv, TypeOK, StoredIsSound
<1>3. agent' = [agent EXCEPT !.activated = TRUE, !.token = c, !.identity = asked[c]]
  BY DEF Becomes
<1>4. agent \in [activated: BOOLEAN, token: Token, identity: Identity \cup {"none"}]
  BY DEF IInv, TypeOK
<1>5. agent' \in [activated: BOOLEAN, token: Token, identity: Identity \cup {"none"}]
      /\ agent'.activated /\ agent'.token = c /\ agent'.identity = asked[c]
  BY <1>2, <1>3, <1>4
<1>6. AgentIsSound'
  BY <1>2, <1>5 DEF AgentIsSound
<1>7. /\ current' \in [Message -> SUBSET Identity]
      /\ \A m \in Message : current[m] \subseteq current'[m]
      /\ \A m \in Message : current'[m] # {} => asked[c] \in current'[m]
  BY <1>2 DEF Becomes, IInv, TypeOK
<1>8. CurrentIsSound' /\ Widens /\ Delivered
  BY <1>5, <1>7 DEF CurrentIsSound, Widens, Delivered
<1>9. QED
  BY <1>1, <1>5, <1>6, <1>7, <1>8, CallsKept, TurnsKept, RunsKept, ExecKept

LEMMA ActivateAgentInductive ==
  ASSUME IInv, ActivateAgent
  PROVE  IInv'
<1>1. CreateToken \in Command /\ stored[CreateToken] # NoConfig
  BY Names DEF IInv, CommandsAreSound, ActivateAgent
<1>2. /\ UNCHANGED <<asked, stored, receipts, runs, calls, exec>>
      /\ Becomes(CreateToken, asked[CreateToken])
      /\ commands' = [commands EXCEPT ![CreateToken] = "idle"]
  BY DEF ActivateAgent
<1>3. commands' \in [Command -> {"idle", "stored"}] /\ CommandsAreSound'
  BY <1>1, <1>2 DEF IInv, TypeOK, CommandsAreSound
<1>4. QED
  BY <1>1, <1>2, <1>3, BecomesSound DEF IInv, TypeOK

LEMMA UpdateInductive ==
  ASSUME IInv, NEW u \in Update, UpdateAgentConfigToken(u)
  PROVE  IInv'
<1> DEFINE c == <<"update", u>>
<1>1. c \in Command /\ stored[c] # NoConfig
  BY Names DEF IInv, CommandsAreSound, UpdateAgentConfigToken
<1>2. /\ UNCHANGED <<asked, stored, runs, calls, exec>>
      /\ Becomes(c, asked[c]) \/ UNCHANGED <<agent, current>>
      /\ commands' = [commands EXCEPT ![c] = "idle"]
      /\ receipts' = receipts \cup {u}
  BY DEF UpdateAgentConfigToken
<1> HIDE DEF c
<1>3. /\ commands' \in [Command -> {"idle", "stored"}] /\ CommandsAreSound'
      /\ receipts' \subseteq Update
  BY <1>1, <1>2 DEF IInv, TypeOK, CommandsAreSound
<1>4. CASE Becomes(c, asked[c])
  BY <1>1, <1>2, <1>3, <1>4, BecomesSound DEF IInv, TypeOK
<1>5. CASE UNCHANGED <<agent, current>>
  <2>1. Grows /\ StoredIsSound'
    BY <1>2, NothingStored
  <2>2. Widens /\ Delivered /\ CurrentIsSound'
    BY <1>2, <1>5 DEF IInv, Widens, Delivered, CurrentIsSound
  <2>3. TypeOK'
    BY <1>2, <1>3, <1>5 DEF IInv, TypeOK
  <2>4. QED
    BY <1>2, <1>3, <1>5, <2>1, <2>2, <2>3, AgentKept, CallsKept, TurnsKept, RunsKept, ExecKept DEF IInv
<1>6. QED
  BY <1>2, <1>4, <1>5

\* A step of a call that does not deliver its message yet.
LEMMA CallStep ==
  ASSUME IInv, NEW m \in Message, NEW x \in Call,
         Grows, StoredIsSound',
         UNCHANGED <<asked, agent, receipts, runs, commands, exec>>,
         calls' = [calls EXCEPT ![m] = x], calls[m].at # "done",
         \/ UNCHANGED current
         \/ /\ current' = [current EXCEPT ![m] = {agent.identity}]
            /\ calls[m].at = "idle" /\ agent.activated,
         x.at \notin {"idle", "done"} =>
           /\ current'[m] # {}
           /\ x.token \in Operation /\ stored'[x.token] # NoConfig
           /\ stored'[x.token].identity \in current'[m],
         x.pin # NoToken =>
           /\ x.at \notin {"idle", "done"}
           /\ stored'[x.pin].snapshot /\ stored'[x.pin].identity \in current'[m],
         x.at \in {"resolve", "answer"} => x.turn \in Message
  PROVE  IInv'
<1>1. agent.activated => agent.identity \in Identity
  <2>1. agent.activated => stored[agent.token] \in Config /\ stored[agent.token].identity = agent.identity
    BY DEF IInv, TypeOK, AgentIsSound
  <2>2. QED
    BY <2>1 DEF Config
<1>2. /\ current' \in [Message -> SUBSET Identity]
      /\ calls' \in [Message -> Call]
      /\ calls'[m] = x /\ \A n \in Message \ {m} : calls'[n] = calls[n]
  BY <1>1 DEF IInv, TypeOK
<1>3. TypeOK'
  BY <1>2 DEF IInv, TypeOK, Grows
<1>4. Widens /\ Delivered
  BY <1>2 DEF IInv, TypeOK, Widens, Delivered
<1>5. CurrentIsSound'
  BY DEF IInv, TypeOK, CurrentIsSound
<1>6. CallsAreSound'
  <2> SUFFICES ASSUME NEW n \in Message
               PROVE  /\ calls'[n].at \notin {"idle", "done"} =>
                           /\ current'[n] # {}
                           /\ calls'[n].token \in Operation /\ stored'[calls'[n].token] # NoConfig
                           /\ stored'[calls'[n].token].identity \in current'[n]
                      /\ calls'[n].pin # NoToken =>
                           /\ calls'[n].at \notin {"idle", "done"}
                           /\ stored'[calls'[n].pin].snapshot
                           /\ stored'[calls'[n].pin].identity \in current'[n]
    BY DEF CallsAreSound
  <2>1. CASE n = m
    BY <1>2, <2>1
  <2>2. CASE n # m
    BY <1>2, <1>4, <2>2, CallKept
  <2>3. QED
    BY <2>1, <2>2
<1>7. TurnsAreSound'
  BY <1>2 DEF IInv, TurnsAreSound
<1>8. QED
  BY <1>3, <1>4, <1>5, <1>6, <1>7, CommandsKept, AgentKept, RunsKept, ExecKept DEF IInv

LEMMA AgentsToken ==
  ASSUME IInv, agent.activated
  PROVE  /\ agent.token \in Operation /\ agent.token \in Token
         /\ stored[agent.token] # NoConfig /\ stored[agent.token].identity = agent.identity
  BY Names DEF IInv, AgentIsSound

LEMMA SendInductive ==
  ASSUME IInv, NEW m \in Message, Send(m)
  PROVE  IInv'
<1>1. PICK at \in {"payload", "check"} :
        calls' = [calls EXCEPT ![m] = [NoCall EXCEPT !.at = at, !.token = agent.token]]
  BY DEF Send
<1> DEFINE x == [NoCall EXCEPT !.at = at, !.token = agent.token]
<1>2. x \in Call /\ x.at = at /\ x.token = agent.token /\ x.pin = NoToken
  BY Blank, AgentsToken DEF NoCall, Call, Send
<1> HIDE DEF x
<1>3. current'[m] = {agent.identity}
  BY DEF Send, IInv, TypeOK
<1>4. /\ UNCHANGED <<asked, stored, agent, receipts, runs, commands, exec>>
      /\ current' = [current EXCEPT ![m] = {agent.identity}]
      /\ calls[m].at = "idle" /\ agent.activated /\ calls' = [calls EXCEPT ![m] = x]
  BY <1>1 DEF Send, storeVars, x
<1>5. Grows /\ StoredIsSound'
  BY <1>4, NothingStored
<1>6. QED
  BY <1>2, <1>3, <1>4, <1>5, AgentsToken, CallStep

LEMMA AnswerInductive ==
  ASSUME IInv, NEW m \in Message, NEW r \in Run, Answer(m, r)
  PROVE  IInv'
<1> DEFINE x == [NoCall EXCEPT !.at = "resolve", !.token = agent.token, !.turn = runs[r].turn]
<1>1. /\ UNCHANGED <<asked, stored, agent, receipts, runs, commands, exec>>
      /\ current' = [current EXCEPT ![m] = {agent.identity}]
      /\ calls[m].at = "idle" /\ calls' = [calls EXCEPT ![m] = x]
      /\ runs[r].state = "boundary"
  BY DEF Answer, storeVars, AtTurnBoundary
<1>2. agent.activated
  BY <1>1 DEF IInv, RunsAreSound, CurrentIsSound
<1>3. runs[r].turn \in Message /\ runs[r].turn \in 0 .. MaxMessages
  BY <1>1 DEF IInv, TypeOK, RunRecord, RunsAreSound
<1>4. /\ x \in Call /\ x.at = "resolve" /\ x.token = agent.token /\ x.pin = NoToken
      /\ x.turn = runs[r].turn
  BY <1>2, <1>3, Blank, AgentsToken DEF NoCall, Call
<1> HIDE DEF x
<1>5. current'[m] = {agent.identity}
  BY <1>1 DEF IInv, TypeOK
<1>6. Grows /\ StoredIsSound'
  BY <1>1, NothingStored
<1>7. QED
  BY <1>1, <1>2, <1>3, <1>4, <1>5, <1>6, AgentsToken, CallStep

\* What a call that has read the Agent's token may do next.
LEMMA CallMoves ==
  ASSUME IInv, NEW m \in Message, calls[m].at \notin {"idle", "done"},
         NEW at \in {"check", "create", "answer"}, at = "answer" => calls[m].at = "resolve",
         NEW pin \in Token,
         Grows, StoredIsSound',
         UNCHANGED <<asked, agent, receipts, runs, commands, exec, current>>,
         CallAt(m, at, pin),
         pin # NoToken => stored'[pin].snapshot /\ stored'[pin].identity \in current[m]
  PROVE  IInv'
<1> DEFINE x == [calls[m] EXCEPT !.at = at, !.pin = pin]
<1>1. calls[m] \in Call /\ calls \in [Message -> Call]
  BY DEF IInv, TypeOK
<1>2. /\ x \in Call /\ x.at = at /\ x.token = calls[m].token /\ x.pin = pin
      /\ x.turn = calls[m].turn
  BY <1>1 DEF Call
<1>3. calls' = [calls EXCEPT ![m] = x]
  BY <1>1 DEF CallAt
<1> HIDE DEF x
<1>4. /\ current[m] # {} /\ calls[m].token \in Operation
      /\ stored[calls[m].token] # NoConfig /\ stored[calls[m].token].identity \in current[m]
  BY DEF IInv, CallsAreSound
<1>5. stored'[calls[m].token] = stored[calls[m].token]
  BY <1>4 DEF Grows
<1>6. x.at \in {"resolve", "answer"} => x.turn \in Message
  BY <1>2 DEF IInv, TurnsAreSound
<1>7. QED
  BY <1>2, <1>3, <1>4, <1>5, <1>6, CallStep

LEMMA CallGivesUp ==
  ASSUME IInv, NEW m \in Message, calls[m].at \notin {"idle", "done"},
         Grows, StoredIsSound',
         UNCHANGED <<asked, agent, receipts, runs, commands, exec, current>>,
         CallFails(m)
  PROVE  IInv'
  BY Blank, CallStep DEF CallFails

\* The snapshot that a call stores has the identity it read.
LEMMA CallPuts ==
  ASSUME IInv, NEW m \in Message, calls[m].at \notin {"idle", "done"},
         NEW k \in {"start", "answer"}, NEW n \in Message, NEW c \in Config,
         c.snapshot, c.identity \in current[m], UNCHANGED asked,
         Put(<<k, n>>, c) \/ PutFails(<<k, n>>, c) \/ UNCHANGED stored
  PROVE  /\ <<k, n>> \in Token /\ Grows /\ StoredIsSound'
         /\ Put(<<k, n>>, c) => stored'[<<k, n>>].snapshot /\ stored'[<<k, n>>].identity \in current[m]
<1> DEFINE o == <<k, n>>
<1>1. o \in Operation /\ o \notin Command /\ o \in Token
  BY Names
<1> HIDE DEF o
<1>2. /\ Grows /\ StoredIsSound'
      /\ Put(o, c) => stored'[o] # NoConfig /\ stored'[o].identity = c.identity
  BY <1>1, PutResult DEF IInv, o
<1>3. Put(o, c) => stored'[o].snapshot
  BY <1>1, <1>2 DEF StoredIsSound
<1>4. QED
  BY <1>1, <1>2, <1>3 DEF o

LEMMA TokenOfCall ==
  ASSUME IInv, NEW m \in Message, calls[m].at \notin {"idle", "done"}
  PROVE  /\ Resolved(calls[m].token) \in Config /\ Resolved(calls[m].token).snapshot
         /\ Resolved(calls[m].token).identity \in current[m]
<1>1. /\ calls[m].token \in Operation /\ stored[calls[m].token] # NoConfig
      /\ stored[calls[m].token].identity \in current[m]
  BY DEF IInv, CallsAreSound
<1>2. QED
  BY <1>1, ResolvedConfig DEF IInv

LEMMA ResolvePayloadInductive ==
  ASSUME IInv, NEW m \in Message, ResolvePayload(m)
  PROVE  IInv'
<1> DEFINE c == Resolved(calls[m].token)
<1>1. /\ calls[m].at = "payload"
      /\ UNCHANGED <<asked, agent, receipts, runs, commands, exec, current>>
      /\ \/ Put(<<"start", m>>, c) /\ CallAt(m, "check", <<"start", m>>)
         \/ (PutFails(<<"start", m>>, c) \/ UNCHANGED stored) /\ CallFails(m)
  BY DEF ResolvePayload, CallOnly, storeVars, StartToken
<1>2. c \in Config /\ c.snapshot /\ c.identity \in current[m]
  BY <1>1, TokenOfCall
<1> HIDE DEF c
<1>3. Put(<<"start", m>>, c) \/ PutFails(<<"start", m>>, c) \/ UNCHANGED stored
  BY <1>1
<1>4. /\ <<"start", m>> \in Token /\ Grows /\ StoredIsSound'
      /\ Put(<<"start", m>>, c) =>
           stored'[<<"start", m>>].snapshot /\ stored'[<<"start", m>>].identity \in current[m]
  BY <1>1, <1>2, <1>3, CallPuts
<1>5. CASE Put(<<"start", m>>, c) /\ CallAt(m, "check", <<"start", m>>)
  BY <1>1, <1>4, <1>5, CallMoves
<1>6. CASE CallFails(m)
  BY <1>1, <1>4, <1>6, CallGivesUp
<1>7. QED
  BY <1>1, <1>5, <1>6

LEMMA CheckBoundaryInductive ==
  ASSUME IInv, NEW m \in Message, CheckBoundary(m)
  PROVE  IInv'
<1> DEFINE c == IF calls[m].pin = NoToken THEN Resolved(calls[m].token) ELSE stored[calls[m].pin]
           o == <<"start", m>>
<1>1. /\ calls[m].at = "check"
      /\ UNCHANGED <<asked, agent, receipts, runs, commands, exec, current>>
      /\ \/ Put(o, c) /\ CallAt(m, "create", o)
         \/ PutFails(o, c) /\ CallFails(m)
         \/ UNCHANGED stored /\ (CallAt(m, "create", calls[m].pin) \/ CallAt(m, "create", NoToken))
  BY DEF CheckBoundary, CallOnly, storeVars, StartToken
<1>2. /\ calls[m].pin \in Token
      /\ calls[m].pin # NoToken =>
           /\ calls[m].pin \in Operation
           /\ stored[calls[m].pin].snapshot /\ stored[calls[m].pin].identity \in current[m]
  BY DEF IInv, TypeOK, Call, Token, CallsAreSound
<1>3. c \in Config /\ c.snapshot /\ c.identity \in current[m]
  <2>1. CASE calls[m].pin = NoToken
    BY <1>1, <2>1, TokenOfCall
  <2>2. CASE calls[m].pin # NoToken
    <3>1. stored[calls[m].pin] \in Config
      BY <1>2, <2>2, Names DEF IInv, TypeOK
    <3>2. QED
      BY <1>2, <2>2, <3>1
  <2>3. QED
    BY <2>1, <2>2
<1> HIDE DEF c
<1>4. Put(o, c) \/ PutFails(o, c) \/ UNCHANGED stored
  BY <1>1
<1>5. /\ o \in Token /\ Grows /\ StoredIsSound'
      /\ Put(o, c) => stored'[o].snapshot /\ stored'[o].identity \in current[m]
  BY <1>1, <1>3, <1>4, CallPuts
<1> HIDE DEF o
<1>6. CASE Put(o, c) /\ CallAt(m, "create", o)
  BY <1>1, <1>5, <1>6, CallMoves
<1>7. CASE CallFails(m)
  BY <1>1, <1>5, <1>7, CallGivesUp
<1>8. CASE UNCHANGED stored /\ CallAt(m, "create", calls[m].pin)
  BY <1>1, <1>2, <1>5, <1>8, CallMoves
<1>9. CASE UNCHANGED stored /\ CallAt(m, "create", NoToken)
  BY <1>1, <1>5, <1>9, Names, CallMoves
<1>10. QED
  BY <1>1, <1>6, <1>7, <1>8, <1>9

LEMMA ResolveAnswerInductive ==
  ASSUME IInv, NEW m \in Message, ResolveAnswer(m)
  PROVE  IInv'
<1> DEFINE c == Resolved(calls[m].token)
           o == <<"answer", calls[m].turn>>
<1>1. /\ calls[m].at = "resolve"
      /\ UNCHANGED <<asked, agent, receipts, runs, commands, exec, current>>
      /\ \/ Put(o, c) /\ CallAt(m, "answer", o)
         \/ (PutFails(o, c) \/ UNCHANGED stored) /\ CallAt(m, "answer", NoToken)
  BY DEF ResolveAnswer, CallOnly, storeVars
<1>2. c \in Config /\ c.snapshot /\ c.identity \in current[m]
  BY <1>1, TokenOfCall
<1> HIDE DEF c
<1>3. calls[m].turn \in Message
  BY <1>1 DEF IInv, TurnsAreSound
<1>4. Put(o, c) \/ PutFails(o, c) \/ UNCHANGED stored
  BY <1>1
<1>5. /\ o \in Token /\ Grows /\ StoredIsSound'
      /\ Put(o, c) => stored'[o].snapshot /\ stored'[o].identity \in current[m]
  BY <1>1, <1>2, <1>3, <1>4, CallPuts
<1> HIDE DEF o
<1>6. CASE Put(o, c) /\ CallAt(m, "answer", o)
  BY <1>1, <1>5, <1>6, CallMoves
<1>7. CASE CallAt(m, "answer", NoToken)
  BY <1>1, <1>5, <1>7, Names, CallMoves
<1>8. QED
  BY <1>1, <1>6, <1>7


\* A message is delivered: a Run is created, or takes its next step on it.
LEMMA DeliverInductive ==
  ASSUME IInv, NEW m \in Message, NEW r \in Run, NEW x \in RunRecord, NEW y \in Call,
         calls[m].at \notin {"idle", "done"},
         UNCHANGED <<asked, stored, agent, receipts, commands, exec, current>>,
         calls' = [calls EXCEPT ![m] = y], y.at = "done", y.pin = NoToken,
         runs' = [runs EXCEPT ![r] = x],
         runs[r].state \in {"none", "boundary", "asking"}, x.state = "queued",
         r = m \/ runs[r].state # "none",
         x.turn = m \/ (x.turn = runs[r].turn /\ runs[r].state # "none"),
         x.pin # NoToken => stored[x.pin].snapshot,
         x.pin # NoToken /\ x.turn = r => stored[x.pin].identity \in current[r],
         x.under # NoConfig => x.pin # NoToken /\ x.under.identity = stored[x.pin].identity
  PROVE  IInv'
<1>1. /\ calls' \in [Message -> Call] /\ calls'[m] = y
      /\ \A n \in Message \ {m} : calls'[n] = calls[n]
      /\ runs' \in [Run -> RunRecord] /\ runs'[r] = x
      /\ \A q \in Run \ {r} : runs'[q] = runs[q]
  BY DEF IInv, TypeOK
<1>2. TypeOK' /\ Grows /\ StoredIsSound'
  BY <1>1, NothingStored DEF IInv, TypeOK
<1>3. Widens /\ Delivered /\ CurrentIsSound'
  BY <1>1 DEF IInv, Widens, Delivered, CurrentIsSound
<1>4. CallsAreSound'
  <2> SUFFICES ASSUME NEW n \in Message
               PROVE  /\ calls'[n].at \notin {"idle", "done"} =>
                           /\ current'[n] # {}
                           /\ calls'[n].token \in Operation /\ stored'[calls'[n].token] # NoConfig
                           /\ stored'[calls'[n].token].identity \in current'[n]
                      /\ calls'[n].pin # NoToken =>
                           /\ calls'[n].at \notin {"idle", "done"}
                           /\ stored'[calls'[n].pin].snapshot
                           /\ stored'[calls'[n].pin].identity \in current'[n]
    BY DEF CallsAreSound
  <2>1. CASE n = m
    BY <1>1, <2>1
  <2>2. CASE n # m
    BY <1>1, <1>2, <1>3, <2>2, CallKept
  <2>3. QED
    BY <2>1, <2>2
<1>5. TurnsAreSound'
  BY <1>1 DEF IInv, TurnsAreSound
<1>6. /\ r \in Message
      /\ runs[r].state # "none" => calls[r].at = "done"
      /\ runs[r].state # "none" =>
           runs[r].turn \in Message /\ calls[runs[r].turn].at = "done" /\ current[runs[r].turn] # {}
      /\ current[m] # {}
  BY DEF IInv, RunsAreSound, CallsAreSound, Run
<1>7. calls'[r].at = "done"
  BY <1>1, <1>3, <1>6 DEF Delivered
<1>7a. x.turn \in Message /\ calls'[x.turn].at = "done" /\ current[x.turn] # {}
  <2>1. CASE x.turn = m
    BY <1>1, <1>6, <2>1
  <2>2. CASE x.turn = runs[r].turn /\ runs[r].state # "none"
    BY <1>3, <1>6, <2>2 DEF Delivered
  <2>3. QED
    BY <2>1, <2>2
<1>8. RunsAreSound'
  <2> SUFFICES ASSUME NEW q \in Run
               PROVE  /\ runs'[q].state = "none" => runs'[q] = NoRun
                      /\ runs'[q].state # "none" =>
                           /\ calls'[q].at = "done"
                           /\ runs'[q].turn \in Message /\ calls'[runs'[q].turn].at = "done"
                           /\ current'[runs'[q].turn] # {}
                      /\ runs'[q].pin # NoToken => stored'[runs'[q].pin].snapshot
                      /\ runs'[q].pin # NoToken /\ runs'[q].turn = q => stored'[runs'[q].pin].identity \in current'[q]
                      /\ runs'[q].under # NoConfig =>
                           runs'[q].pin # NoToken /\ runs'[q].under.identity = stored'[runs'[q].pin].identity
    BY DEF RunsAreSound
  <2>1. CASE q = r
    BY <1>1, <1>7, <1>7a, <2>1
  <2>2. CASE q # r
    <3>1. runs'[q] = runs[q]
      BY <1>1, <2>2
    <3>2. QED
      BY <1>2, <1>3, <3>1, RunKept
  <2>3. QED
    BY <2>1, <2>2
<1>9. exec # NoExec => runs'[exec.run] = runs[exec.run]
  BY <1>1 DEF IInv, ExecIsSound
<1>10. QED
  BY <1>2, <1>3, <1>4, <1>5, <1>8, <1>9, CommandsKept, AgentKept, ExecKept DEF IInv

LEMMA OpenTurnInductive ==
  ASSUME IInv, NEW m \in Message, NEW r \in Run, NEW y \in Call,
         calls[m].at \notin {"idle", "done"},
         UNCHANGED <<asked, stored, agent, receipts, commands, exec, current>>,
         calls' = [calls EXCEPT ![m] = y], y.at = "done", y.pin = NoToken,
         runs[r].state = "boundary",
         runs' = [runs EXCEPT ![r] = OpenTurn(runs[r], m, calls[m].pin)]
  PROVE  IInv'
<1> DEFINE x == OpenTurn(runs[r], m, calls[m].pin)
<1>1. runs[r] \in RunRecord /\ calls[m].pin \in Token /\ m \in 0 .. MaxMessages
  BY ConfigAssumption DEF IInv, TypeOK, Call, Message
<1>2. /\ x \in RunRecord /\ x.state = "queued" /\ x.turn = m /\ x.under = NoConfig
      /\ x.pin = runs[r].pin \/ x.pin = calls[m].pin
  BY <1>1 DEF OpenTurn, RunRecord
<1> HIDE DEF x
<1>3. /\ runs[r].pin # NoToken => stored[runs[r].pin].snapshot
      /\ calls[m].pin # NoToken => stored[calls[m].pin].snapshot
      /\ r # m
  BY DEF IInv, CallsAreSound, RunsAreSound
<1>4. x.pin # NoToken => stored[x.pin].snapshot
  BY <1>2, <1>3
<1>5. x.pin # NoToken /\ x.turn = r => stored[x.pin].identity \in current[r]
  BY <1>2, <1>3
<1>6. /\ runs' = [runs EXCEPT ![r] = x]
      /\ runs[r].state \in {"none", "boundary", "asking"} /\ runs[r].state # "none"
  BY DEF x
<1>6a. x \in RunRecord /\ x.state = "queued" /\ x.turn = m
  BY <1>2
<1>6b. x.under # NoConfig => x.pin # NoToken /\ x.under.identity = stored[x.pin].identity
  BY <1>2
<1>7. QED
  <2>1. r = m \/ runs[r].state # "none"
    BY <1>6
  <2>2. x.turn = m \/ (x.turn = runs[r].turn /\ runs[r].state # "none")
    BY <1>6a
  <2>3. QED
    BY <1>4, <1>5, <1>6, <1>6a, <1>6b, <2>1, <2>2, DeliverInductive, ZenonT(60)

LEMMA ReplyInductive ==
  ASSUME IInv, NEW m \in Message, NEW r \in Run, NEW y \in Call,
         calls[m].at \notin {"idle", "done"},
         UNCHANGED <<asked, stored, agent, receipts, commands, exec, current>>,
         calls' = [calls EXCEPT ![m] = y], y.at = "done", y.pin = NoToken,
         runs[r].state = "asking",
         runs' = [runs EXCEPT ![r] = Reply(r, m)]
  PROVE  IInv'
<1> DEFINE x == Reply(r, m)
<1>1. runs[r] \in RunRecord
  BY DEF IInv, TypeOK
<1>2. /\ x \in RunRecord /\ x.state = "queued" /\ x.turn = runs[r].turn
      /\ x.pin = runs[r].pin /\ x.under = runs[r].under
  BY <1>1 DEF Reply, RunRecord
<1>3. runs' = [runs EXCEPT ![r] = x]
  OBVIOUS
<1> HIDE DEF x
<1>4. /\ x.pin # NoToken => stored[x.pin].snapshot
      /\ x.pin # NoToken /\ x.turn = r => stored[x.pin].identity \in current[r]
      /\ x.under # NoConfig =>
           x.pin # NoToken /\ x.under.identity = stored[x.pin].identity
  BY <1>2 DEF IInv, RunsAreSound
<1>5. QED
  BY <1>2, <1>3, <1>4, DeliverInductive

LEMMA NewRunRecord ==
  ASSUME IInv, NEW m \in Message, calls[m].at # "done"
  PROVE  /\ runs[m].state = "none" /\ NewRun(m) \in RunRecord
         /\ NewRun(m).state = "queued" /\ NewRun(m).turn = m /\ NewRun(m).under = NoConfig
         /\ NewRun(m).pin = calls[m].pin
<1> DEFINE before == {r \in Run : runs[r].state # "none"}
           n == Cardinality(before) + 1
<1>1. m \in Run /\ runs[m].state = "none" /\ runs[m] \in RunRecord /\ calls[m].pin \in Token
  BY DEF IInv, TypeOK, RunsAreSound, Call, Run
<1>2. IsFiniteSet(Run) /\ Cardinality(Run) = MaxMessages
  BY ConfigAssumption, FS_Interval DEF Run, Message
<1>3. before \subseteq Run /\ before # Run
  BY <1>1
<1>4. IsFiniteSet(before) /\ Cardinality(before) \in Nat /\ Cardinality(before) < MaxMessages
  <2>1. /\ IsFiniteSet(before) /\ Cardinality(before) <= Cardinality(Run)
        /\ Cardinality(Run) = Cardinality(before) => Run = before
    BY <1>2, <1>3, FS_Subset
  <2>2. Cardinality(before) \in Nat
    BY <2>1, FS_CardinalityType
  <2>3. QED
    BY <1>2, <1>3, <2>1, <2>2, ConfigAssumption
<1>5. n \in 0 .. MaxMessages /\ m \in 0 .. MaxMessages
  BY <1>4, ConfigAssumption DEF Message
<1>6. NewRun(m) = OpenTurn([NoRun EXCEPT !.sequence = n], m, calls[m].pin)
  BY DEF NewRun
<1> HIDE DEF n
<1>7. NewRun(m) = [state |-> "queued", sequence |-> n, turn |-> m, under |-> NoConfig,
                   pin |-> calls[m].pin]
  BY <1>6 DEF OpenTurn, NoRun
<1>8. QED
  BY <1>1, <1>5, <1>7 DEF RunRecord

LEMMA CreateRunInductive ==
  ASSUME IInv, NEW m \in Message, CreateRun(m)
  PROVE  IInv'
<1> DEFINE y == [calls[m] EXCEPT !.at = "done", !.pin = NoToken]
<1>1. calls[m].at = "create" /\ calls[m] \in Call /\ calls \in [Message -> Call]
  BY DEF CreateRun, IInv, TypeOK
<1>2. y \in Call /\ y.at = "done" /\ y.pin = NoToken
  BY <1>1, Names DEF Call
<1>3. /\ calls' = [calls EXCEPT ![m] = y]
      /\ UNCHANGED <<asked, stored, agent, receipts, commands, exec, current>>
  BY <1>1 DEF CreateRun, CallAt
<1> HIDE DEF y
<1>4. CASE \E r \in Run : runs[r].state = "boundary" /\ runs' = [runs EXCEPT ![r] = OpenTurn(runs[r], m, calls[m].pin)]
  BY <1>1, <1>2, <1>3, <1>4, OpenTurnInductive
<1>5. CASE \E r \in Run : runs[r].state = "asking" /\ runs' = [runs EXCEPT ![r] = Reply(r, m)]
  BY <1>1, <1>2, <1>3, <1>5, ReplyInductive
<1>6. CASE runs' = [runs EXCEPT ![m] = NewRun(m)]
  <2> DEFINE x == NewRun(m)
  <2>1. /\ m \in Run /\ runs[m].state = "none" /\ x \in RunRecord
        /\ x.state = "queued" /\ x.turn = m /\ x.under = NoConfig /\ x.pin = calls[m].pin
    BY <1>1, NewRunRecord DEF Run
  <2>2. runs' = [runs EXCEPT ![m] = x]
    BY <1>6
  <2> HIDE DEF x
  <2>3. calls[m].pin # NoToken => stored[calls[m].pin].snapshot /\ stored[calls[m].pin].identity \in current[m]
    BY DEF IInv, CallsAreSound
  <2>4. QED
    BY <1>1, <1>2, <1>3, <2>1, <2>2, <2>3, DeliverInductive
<1>7. QED
  BY <1>4, <1>5, <1>6 DEF CreateRun, Waiting, AtTurnBoundary

LEMMA RecordAnswerInductive ==
  ASSUME IInv, NEW m \in Message, RecordAnswer(m)
  PROVE  IInv'
<1> DEFINE y == [NoCall EXCEPT !.at = "done"]
<1>1. y \in Call /\ y.at = "done" /\ y.pin = NoToken
  BY Blank DEF NoCall, Call
<1>2. /\ calls[m].at = "answer"
      /\ UNCHANGED <<asked, stored, agent, receipts, commands, exec, current>>
  BY DEF RecordAnswer
<1>3. \/ CallFails(m) /\ UNCHANGED runs
      \/ /\ calls' = [calls EXCEPT ![m] = y]
         /\ \E r \in Run : /\ runs[r].state = "boundary"
                           /\ runs' = [runs EXCEPT ![r] = OpenTurn(runs[r], m, calls[m].pin)]
  BY DEF RecordAnswer, AtTurnBoundary
<1> HIDE DEF y
<1>4. CASE CallFails(m) /\ UNCHANGED runs
  BY <1>2, <1>4, NothingStored, CallGivesUp
<1>5. QED
  BY <1>1, <1>2, <1>3, <1>4, OpenTurnInductive

\* The steps of a Run's attempt leave the commands and the calls alone.
LEMMA AttemptStep ==
  ASSUME IInv, Grows, StoredIsSound',
         UNCHANGED <<asked, agent, receipts, commands, calls, current>>,
         runs' \in [Run -> RunRecord], exec' \in Exec,
         RunsAreSound', ExecIsSound'
  PROVE  IInv'
<1>1. TypeOK'
  BY DEF IInv, TypeOK, Grows
<1>2. Widens /\ CurrentIsSound'
  BY DEF IInv, Widens, CurrentIsSound
<1>3. QED
  BY <1>1, <1>2, CommandsKept, AgentKept, CallsKept, TurnsKept DEF IInv

LEMMA AttemptsKept ==
  ASSUME IInv, UNCHANGED <<calls, current>>
  PROVE  Widens /\ Delivered
  BY DEF Widens, Delivered

\* A Run moves on without another message: nothing but its state changes.
LEMMA RunMoves ==
  ASSUME IInv, NEW r \in Run, runs[r].state # "none",
         NEW s \in {"queued", "running", "boundary", "asking", "ended", "failed"},
         runs' = [runs EXCEPT ![r].state = s],
         Grows, UNCHANGED <<calls, current>>
  PROVE  runs' \in [Run -> RunRecord] /\ RunsAreSound'
<1> DEFINE x == [runs[r] EXCEPT !.state = s]
<1>1. runs[r] \in RunRecord /\ runs \in [Run -> RunRecord]
  BY DEF IInv, TypeOK
<1>2. x \in RunRecord
  BY <1>1 DEF RunRecord
<1>3. runs' = [runs EXCEPT ![r] = x]
  BY <1>1
<1>4. \A q \in Run : runs'[q] = IF q = r THEN x ELSE runs[q]
  BY <1>1, <1>3
<1>5. \A q \in Run : \/ runs'[q] = runs[q]
                     \/ runs[q].state # "none" /\ runs'[q] = [runs[q] EXCEPT !.state = s]
  BY <1>4
<1>6. QED
  BY <1>1, <1>2, <1>3, <1>5, AttemptsKept, RunKept DEF RunsAreSound

LEMMA AnswerQuestionInductive ==
  ASSUME IInv, NEW r \in Run, AnswerQuestion(r)
  PROVE  IInv'
<1>1. /\ runs[r].state = "asking" /\ runs' = [runs EXCEPT ![r].state = "queued"]
      /\ UNCHANGED <<asked, stored, agent, receipts, commands, calls, exec, current>>
  BY DEF AnswerQuestion, callVars
<1>2. Grows /\ StoredIsSound'
  BY <1>1, NothingStored
<1>3. runs' \in [Run -> RunRecord] /\ RunsAreSound'
  BY <1>1, <1>2, RunMoves
<1>4. exec # NoExec => runs'[exec.run] = runs[exec.run]
  BY <1>1 DEF IInv, TypeOK, ExecIsSound
<1>5. ExecIsSound' /\ exec' \in Exec
  BY <1>1, <1>2, <1>4, AttemptsKept, ExecKept DEF IInv, TypeOK
<1>6. QED
  BY <1>1, <1>2, <1>3, <1>5, AttemptStep

LEMMA AttemptEndsInductive ==
  ASSUME IInv, NEW r \in Run, AttemptEnds(r)
  PROVE  IInv'
<1>1. PICK s \in {"boundary", "asking", "ended"} : runs' = [runs EXCEPT ![r].state = s]
  BY DEF AttemptEnds
<1>2. /\ runs[r].state = "running"
      /\ UNCHANGED <<asked, stored, agent, receipts, commands, calls, exec, current>>
  BY DEF AttemptEnds, callVars
<1>3. Grows /\ StoredIsSound'
  BY <1>2, NothingStored
<1>4. runs' \in [Run -> RunRecord] /\ RunsAreSound'
  BY <1>1, <1>2, <1>3, RunMoves
<1>5. exec # NoExec => runs'[exec.run] = runs[exec.run]
  BY <1>1, <1>2 DEF IInv, TypeOK, ExecIsSound
<1>6. ExecIsSound' /\ exec' \in Exec
  BY <1>2, <1>3, <1>5, AttemptsKept, ExecKept DEF IInv, TypeOK
<1>7. QED
  BY <1>2, <1>3, <1>4, <1>6, AttemptStep

LEMMA ExecuteInductive ==
  ASSUME IInv, NEW r \in Run, Execute(r)
  PROVE  IInv'
<1> DEFINE t == IF runs[r].pin # NoToken THEN runs[r].pin ELSE agent.token
<1>1. /\ runs[r].state = "queued"
      /\ UNCHANGED <<asked, stored, agent, receipts, commands, calls, runs, current>>
      /\ exec' = [run |-> r, at |-> "resolving", config |-> NoConfig, token |-> t]
  BY DEF Execute, ExecOnly
<1>2. Grows /\ StoredIsSound'
  BY <1>1, NothingStored
<1>3. RunsAreSound' /\ runs' \in [Run -> RunRecord]
  BY <1>1, <1>2, AttemptsKept, RunsKept DEF IInv, TypeOK
<1>4. /\ runs[r] \in RunRecord /\ r \in Message /\ r \in 0 .. MaxMessages
      /\ runs[r].turn \in Message
      /\ calls[r].at = "done" /\ current[runs[r].turn] # {}
  BY <1>1, ConfigAssumption DEF IInv, TypeOK, RunsAreSound, Run, Message
<1>5. agent.activated
  BY <1>4 DEF IInv, CurrentIsSound
<1>6. /\ t \in Operation /\ stored[t] # NoConfig
      /\ runs[r].pin # NoToken => t = runs[r].pin
      /\ runs[r].turn = r => stored[t].identity \in current[r]
  <2>1. CASE runs[r].pin # NoToken
    BY <1>4, <2>1, Names DEF IInv, RunsAreSound, RunRecord, Token
  <2>2. CASE runs[r].pin = NoToken
    <3>1. runs[r].turn = r => agent.identity \in current[r]
      BY <1>4 DEF IInv, CurrentIsSound
    <3>2. QED
      BY <1>5, <2>2, <3>1, AgentsToken
  <2>3. QED
    BY <2>1, <2>2
<1> HIDE DEF t
<1>7. /\ exec' \in Exec /\ exec'.run = r /\ exec'.at = "resolving" /\ exec'.token = t
  BY <1>1, <1>4, <1>6, Names DEF Exec
<1>8. ExecIsSound'
  BY <1>1, <1>6, <1>7 DEF ExecIsSound
<1>9. QED
  BY <1>1, <1>2, <1>3, <1>7, <1>8, AttemptStep

\* execute() returns: with a Run that moved on, or with the Run as it was.
LEMMA ReturnsInductive ==
  ASSUME IInv, Grows, StoredIsSound',
         UNCHANGED <<asked, agent, receipts, commands, calls, current>>,
         Returns,
         \/ UNCHANGED runs
         \/ exec.at \in {"resolving", "ready"} /\ runs' = [runs EXCEPT ![exec.run].state = "failed"]
  PROVE  IInv'
<1>1. exec' \in Exec /\ ExecIsSound'
  BY Blank DEF Returns, ExecIsSound
<1>2. CASE UNCHANGED runs
  BY <1>1, <1>2, AttemptsKept, RunsKept, AttemptStep DEF IInv, TypeOK
<1>3. CASE exec.at \in {"resolving", "ready"} /\ runs' = [runs EXCEPT ![exec.run].state = "failed"]
  <2>1. exec # NoExec
    BY <1>3 DEF NoExec
  <2>2. exec.run \in Run /\ runs[exec.run].state # "none"
    BY <2>1 DEF IInv, ExecIsSound
  <2>3. runs' \in [Run -> RunRecord] /\ RunsAreSound'
    BY <1>3, <2>2, RunMoves
  <2>4. QED
    BY <1>1, <2>3, AttemptStep
<1>4. QED
  BY <1>2, <1>3

LEMMA UnavailableInductive ==
  ASSUME IInv, Unavailable \/ Deferred \/ AutoCompact
  PROVE  IInv'
<1>1. /\ UNCHANGED <<asked, stored, agent, receipts, commands, calls, current>> /\ Returns
      /\ \/ UNCHANGED runs
         \/ exec.at \in {"resolving", "ready"} /\ runs' = [runs EXCEPT ![exec.run].state = "failed"]
  BY DEF Unavailable, Deferred, AutoCompact, FailQueued, ExecOnly
<1>2. QED
  BY <1>1, NothingStored, ReturnsInductive

LEMMA ResolveConfigInductive ==
  ASSUME IInv, ResolveConfig
  PROVE  IInv'
<1> DEFINE c == Resolved(exec.token)
           o == <<"run", exec.run>>
           Ready(t) == exec' = [exec EXCEPT !.at = "ready", !.token = t, !.config = c]
<1>1. exec.at = "resolving" /\ exec # NoExec
  BY DEF ResolveConfig, NoExec
<1>2. /\ exec.run \in Run /\ exec.run \in Message /\ runs[exec.run].state = "queued"
      /\ exec.token \in Operation /\ stored[exec.token] # NoConfig
      /\ runs[exec.run].pin # NoToken => exec.token = runs[exec.run].pin
      /\ runs[exec.run].turn = exec.run => stored[exec.token].identity \in current[exec.run]
  BY <1>1 DEF IInv, ExecIsSound, Run
<1>3. c \in Config /\ c.snapshot /\ c.identity = stored[exec.token].identity
  BY <1>2, ResolvedConfig DEF IInv
<1>4. o \in Operation /\ o \in Token /\ o \notin Command
  BY <1>2, Names
<1>5. /\ UNCHANGED <<asked, agent, receipts, commands, calls, current>>
      /\ \/ /\ stored[exec.token].snapshot /\ UNCHANGED <<stored, runs>>
            /\ Ready(exec.token)
         \/ /\ ~stored[exec.token].snapshot /\ UNCHANGED runs
            /\ Put(o, c) /\ Ready(o)
         \/ PutFails(o, c) /\ FailQueued
  BY DEF ResolveConfig, ExecOnly
<1> HIDE DEF c, o
<1>6. Put(o, c) \/ PutFails(o, c) \/ UNCHANGED stored
  BY <1>5
<1>7. /\ Grows /\ StoredIsSound'
      /\ Put(o, c) => stored'[o] # NoConfig /\ stored'[o].identity = c.identity
  BY <1>3, <1>4, <1>5, <1>6, PutResult DEF IInv
<1>8. CASE PutFails(o, c) /\ FailQueued
  BY <1>1, <1>5, <1>7, <1>8, ReturnsInductive DEF FailQueued
<1>9. ASSUME NEW t \in Operation, UNCHANGED runs, Ready(t),
             stored'[t] # NoConfig, stored'[t].snapshot, stored'[t].identity = c.identity,
             runs[exec.run].pin # NoToken => t = runs[exec.run].pin
      PROVE  IInv'
  <2>1. exec \in Exec /\ t \in Token
    BY Names DEF IInv, TypeOK
  <2>2. /\ exec' \in Exec /\ exec'.run = exec.run /\ exec'.at = "ready"
        /\ exec'.token = t /\ exec'.config = c
    BY <1>3, <1>9, <2>1 DEF Exec
  <2>3. ExecIsSound'
    BY <1>2, <1>3, <1>5, <1>9, <2>2 DEF ExecIsSound
  <2>4. RunsAreSound' /\ runs' \in [Run -> RunRecord]
    BY <1>5, <1>7, <1>9, AttemptsKept, RunsKept DEF IInv, TypeOK
  <2>5. QED
    BY <1>5, <1>7, <2>2, <2>3, <2>4, AttemptStep
<1>10. CASE stored[exec.token].snapshot /\ UNCHANGED <<stored, runs>> /\ Ready(exec.token)
  BY <1>2, <1>3, <1>9, <1>10
<1>11. CASE ~stored[exec.token].snapshot /\ UNCHANGED runs /\ Put(o, c) /\ Ready(o)
  <2>1. runs[exec.run].pin = NoToken
    BY <1>2, <1>11 DEF IInv, RunsAreSound
  <2>2. stored'[o].snapshot
    BY <1>4, <1>7, <1>11 DEF StoredIsSound
  <2>3. QED
    BY <1>4, <1>7, <1>9, <1>11, <2>1, <2>2
<1>12. QED
  BY <1>5, <1>8, <1>10, <1>11

LEMMA ClaimRunInductive ==
  ASSUME IInv, ClaimRun
  PROVE  IInv'
<1> DEFINE r == exec.run
           x == [runs[r] EXCEPT !.state = "running", !.pin = exec.token, !.under = exec.config]
<1>1. /\ exec.at = "ready" /\ exec # NoExec /\ Returns
      /\ UNCHANGED <<asked, stored, agent, receipts, commands, calls, current>>
  BY DEF ClaimRun, ExecOnly, NoExec
<1>2. Grows /\ StoredIsSound'
  BY <1>1, NothingStored
<1>3. CASE UNCHANGED runs
  BY <1>1, <1>2, <1>3, ReturnsInductive
<1>4. CASE runs' = [runs EXCEPT ![exec.run].state = "running", ![exec.run].pin = exec.token,
                               ![exec.run].under = exec.config]
  <2>1. /\ r \in Run /\ runs[r] \in RunRecord /\ runs[r].state = "queued"
        /\ runs \in [Run -> RunRecord]
        /\ exec.token \in Operation /\ exec.token \in Token /\ exec.config \in Config \cup {NoConfig}
        /\ runs[r].turn = r => stored[exec.token].identity \in current[r]
        /\ stored[exec.token].snapshot /\ exec.config.identity = stored[exec.token].identity
    BY <1>1, Names DEF IInv, TypeOK, ExecIsSound, Exec
  <2>2. runs' = [runs EXCEPT ![r] = x]
    BY <1>4, <2>1
  <2>3. /\ x \in RunRecord /\ x.state = "running" /\ x.turn = runs[r].turn
        /\ x.pin = exec.token /\ x.under = exec.config
    BY <2>1 DEF RunRecord
  <2> HIDE DEF x, r
  <2>4. /\ runs' \in [Run -> RunRecord] /\ runs'[r] = x
        /\ \A q \in Run \ {r} : runs'[q] = runs[q]
    BY <2>1, <2>2, <2>3
  <2>5. RunsAreSound'
    <3> SUFFICES ASSUME NEW q \in Run
                 PROVE  /\ runs'[q].state = "none" => runs'[q] = NoRun
                        /\ runs'[q].state # "none" =>
                             /\ calls'[q].at = "done"
                             /\ runs'[q].turn \in Message /\ calls'[runs'[q].turn].at = "done"
                             /\ current'[runs'[q].turn] # {}
                        /\ runs'[q].pin # NoToken => stored'[runs'[q].pin].snapshot
                        /\ runs'[q].pin # NoToken /\ runs'[q].turn = q => stored'[runs'[q].pin].identity \in current'[q]
                        /\ runs'[q].under # NoConfig =>
                             runs'[q].pin # NoToken /\ runs'[q].under.identity = stored'[runs'[q].pin].identity
      BY DEF RunsAreSound
    <3>1. CASE q = r
      <4>1. /\ calls[r].at = "done" /\ runs[r].turn \in Message
            /\ calls[runs[r].turn].at = "done" /\ current[runs[r].turn] # {}
        BY <2>1 DEF IInv, RunsAreSound
      <4>2. exec.token # NoToken
        BY <2>1, Names
      <4>3. QED
        BY <1>1, <2>1, <2>3, <2>4, <3>1, <4>1, <4>2
    <3>2. CASE q # r
      <4>1. runs'[q] = runs[q]
        BY <2>4, <3>2
      <4>2. QED
        BY <1>1, <1>2, <4>1, AttemptsKept, RunKept
    <3>3. QED
      BY <3>1, <3>2
  <2>6. exec' \in Exec /\ ExecIsSound'
    BY <1>1, Blank DEF Returns, ExecIsSound
  <2>7. QED
    BY <1>1, <1>2, <2>4, <2>5, <2>6, AttemptStep
<1>5. QED
  BY <1>3, <1>4 DEF ClaimRun

LEMMA CrashInductive ==
  ASSUME IInv, Crash
  PROVE  IInv'
<1>1. /\ UNCHANGED <<asked, stored, agent, receipts, current>>
      /\ commands' = [c \in Command |-> "idle"] /\ exec' = NoExec
      /\ calls' = [m \in Message |-> IF calls[m].at = "done" THEN calls[m] ELSE NoCall]
      /\ runs' = [r \in Run |-> IF runs[r].state = "running" THEN [runs[r] EXCEPT !.state = "ended"]
                                ELSE runs[r]]
  BY DEF Crash
<1>2. Grows /\ StoredIsSound'
  BY <1>1, NothingStored
<1>3. \A m \in Message : calls'[m] = calls[m] \/ calls'[m] = NoCall
  BY <1>1
<1>4. Widens /\ Delivered /\ CurrentIsSound'
  BY <1>1 DEF IInv, Widens, Delivered, CurrentIsSound
<1>5. CallsAreSound'
  <2> SUFFICES ASSUME NEW m \in Message
               PROVE  /\ calls'[m].at \notin {"idle", "done"} =>
                           /\ current'[m] # {}
                           /\ calls'[m].token \in Operation /\ stored'[calls'[m].token] # NoConfig
                           /\ stored'[calls'[m].token].identity \in current'[m]
                      /\ calls'[m].pin # NoToken =>
                           /\ calls'[m].at \notin {"idle", "done"}
                           /\ stored'[calls'[m].pin].snapshot
                           /\ stored'[calls'[m].pin].identity \in current'[m]
    BY DEF CallsAreSound
  <2>1. CASE calls'[m] = calls[m]
    BY <1>2, <1>4, <2>1, CallKept
  <2>2. CASE calls'[m] = NoCall
    BY <2>2, Blank
  <2>3. QED
    BY <1>3, <2>1, <2>2
<1>6. TurnsAreSound'
  BY <1>3, Blank DEF IInv, TurnsAreSound
<1>7. \A r \in Run : \/ runs'[r] = runs[r]
                     \/ runs[r].state # "none" /\ runs'[r] = [runs[r] EXCEPT !.state = "ended"]
  BY <1>1
<1>8. RunsAreSound'
  BY <1>2, <1>4, <1>7, RunKept DEF RunsAreSound
<1>9. runs' \in [Run -> RunRecord]
  <2>1. \A r \in Run : [runs[r] EXCEPT !.state = "ended"] \in RunRecord /\ runs[r] \in RunRecord
    BY DEF IInv, TypeOK, RunRecord
  <2>2. QED
    BY <1>1, <2>1
<1>10. TypeOK' /\ CommandsAreSound' /\ ExecIsSound'
  <2>1. calls' \in [Message -> Call]
    BY <1>1, Blank DEF IInv, TypeOK
  <2>2. commands' \in [Command -> {"idle", "stored"}] /\ CommandsAreSound'
    BY <1>1 DEF CommandsAreSound
  <2>3. exec' \in Exec /\ ExecIsSound'
    BY <1>1, Blank DEF ExecIsSound
  <2>4. QED
    BY <1>1, <1>2, <1>9, <2>1, <2>2, <2>3 DEF IInv, TypeOK
<1>11. QED
  BY <1>1, <1>2, <1>4, <1>5, <1>6, <1>8, <1>10, AgentKept DEF IInv

LEMMA StutterInductive ==
  ASSUME IInv, UNCHANGED vars
  PROVE  IInv'
<1>1. UNCHANGED <<asked, stored, agent, receipts, commands, calls, runs, exec, current>>
  BY DEF vars, storeVars, callVars
<1>2. Grows /\ StoredIsSound'
  BY <1>1, NothingStored
<1>3. QED
  BY <1>1, <1>2, AttemptsKept, RunsKept, ExecKept, AttemptStep DEF IInv, TypeOK

LEMMA Inductive == Spec => []IInv
<1>1. ASSUME IInv, [Next]_vars
      PROVE  IInv'
  <2> USE <1>1
  <2>1. CASE Commands
    BY <2>1, ActivateAgentInductive, UpdateInductive, PutCommandInductive DEF Commands
  <2>2. CASE Messages
    BY <2>2, SendInductive, ResolvePayloadInductive, CheckBoundaryInductive, CreateRunInductive,
       ResolveAnswerInductive, RecordAnswerInductive, AnswerInductive, AnswerQuestionInductive
       DEF Messages
  <2>3. CASE Attempts
    BY <2>3, ExecuteInductive, AttemptEndsInductive, UnavailableInductive, ResolveConfigInductive,
       ClaimRunInductive DEF Attempts
  <2>4. CASE Crash
    BY <2>4, CrashInductive
  <2>5. CASE UNCHANGED vars
    BY <2>5, StutterInductive
  <2>6. QED
    BY <2>1, <2>2, <2>3, <2>4, <2>5 DEF Next
<1>2. QED
  BY <1>1, InitInductive, PTL DEF Spec

-----------------------------------------------------------------------------
(* The theorems *)

\* Every variable keeps its type: a Run's pin and an Agent's token are tokens
\* the Provider was asked for, and there are no more Runs than messages.
THEOREM TypeCorrect == Spec => []TypeOK
<1>1. IInv => TypeOK
  BY DEF IInv
<1>2. QED
  BY <1>1, Inductive, PTL

\* A token in the Store always stands for something at the Provider, whatever
\* the Provider does and wherever the process dies in createAgent,
\* updateAgentConfig, start, respondInteraction or execute.
THEOREM NothingDangles == Spec => []TokensAreKept
<1>1. IInv => TokensAreKept
  BY DEF IInv, AgentIsSound, RunsAreSound, TokensAreKept
<1>2. QED
  BY <1>1, Inductive, PTL

\* updateAgentConfigToken replays a receipt without touching the Agent: an old
\* update that is called again does not undo a newer one.
THEOREM NothingUndone == Spec => UpdatesAreNotUndone
<1>1. ASSUME [Next]_vars, NEW u \in receipts, agent.token # <<"update", u>>, IInv
      PROVE  agent'.token # <<"update", u>>
  <2>1. CASE UNCHANGED agent
    BY <1>1, <2>1
  <2>2. ASSUME NEW c, NEW i, Becomes(c, i), c # <<"update", u>>
        PROVE  agent'.token # <<"update", u>>
    BY <1>1, <2>2 DEF Becomes, IInv, TypeOK
  <2>3. CASE ActivateAgent
    BY <2>2, <2>3 DEF ActivateAgent, CreateToken
  <2>4. ASSUME NEW v \in Update, UpdateAgentConfigToken(v)
        PROVE  agent'.token # <<"update", u>>
    <3>1. CASE v \in receipts
      BY <2>1, <2>4, <3>1 DEF UpdateAgentConfigToken, Repeated
    <3>2. CASE v \notin receipts
      BY <2>2, <2>4, <3>2 DEF UpdateAgentConfigToken, Repeated
    <3>3. QED
      BY <3>1, <3>2
  <2>5. CASE \E c \in Command : PutCommand(c)
    BY <2>1, <2>5 DEF PutCommand, storeVars
  <2>6. CASE Messages
    BY <2>1, <2>6 DEF Messages, Send, ResolvePayload, CheckBoundary, CreateRun, ResolveAnswer,
       RecordAnswer, Answer, AnswerQuestion, CallOnly, storeVars
  <2>7. CASE Attempts \/ Crash \/ UNCHANGED vars
    BY <2>1, <2>7 DEF Attempts, Execute, AttemptEnds, Unavailable, Deferred, ResolveConfig,
       AutoCompact, ClaimRun, ExecOnly, Crash, vars, storeVars
  <2>8. QED
    BY <1>1, <2>3, <2>4, <2>5, <2>6, <2>7 DEF Next, Commands
<1>2. IInv /\ [Next]_vars =>
        (\A u \in receipts : agent.token # <<"update", u>> => agent'.token # <<"update", u>>)
  BY <1>1
<1>3. QED
  BY <1>2, Inductive, PTL DEF Spec, UpdatesAreNotUndone

\* A Run never executes under a Configuration that was replaced before the
\* message that created it was sent, wherever its token comes from: start's
\* boundary check, the phasePayload's pin, or execute's own reading.
THEOREM NewRunsUpToDate == Spec => []NewRunsSeeUpdates
<1>1. IInv => NewRunsSeeUpdates
  BY DEF IInv, RunsAreSound, NewRunsSeeUpdates
<1>2. QED
  BY <1>1, Inductive, PTL

\* What the attempts of a Run execute under changes only with a message that
\* opens the next Turn.
LEMMA UnderKept ==
  ASSUME IInv, IInv', [Next]_vars, NEW r \in Run,
         runs[r].under # NoConfig, runs'[r].under # NoConfig, runs'[r].turn = runs[r].turn
  PROVE  runs'[r].under.identity = runs[r].under.identity
<1>1. runs \in [Run -> RunRecord]
  BY DEF IInv, TypeOK
<1>2. CASE runs'[r] = runs[r]
  BY <1>2
<1>3. ASSUME NEW q \in Run, NEW s, runs' = [runs EXCEPT ![q].state = s]
      PROVE  runs'[r].under.identity = runs[r].under.identity
  BY <1>1, <1>3 DEF RunRecord
<1>4. ASSUME NEW q \in Run, NEW x, runs' = [runs EXCEPT ![q] = x],
             x.under = NoConfig \/ x.under = runs[q].under
      PROVE  runs'[r].under.identity = runs[r].under.identity
  BY <1>1, <1>4
<1>5. ASSUME NEW m \in Message, CreateRun(m)
      PROVE  runs'[r].under.identity = runs[r].under.identity
  <2>1. CASE \E q \in Run : runs' = [runs EXCEPT ![q] = OpenTurn(runs[q], m, calls[m].pin)]
    <3>1. PICK q \in Run : runs' = [runs EXCEPT ![q] = OpenTurn(runs[q], m, calls[m].pin)]
      BY <2>1
    <3>2. runs[q] \in RunRecord
      BY <1>1
    <3>3. OpenTurn(runs[q], m, calls[m].pin).under = NoConfig
      BY <3>2 DEF OpenTurn, RunRecord
    <3>4. QED
      BY <1>4, <3>1, <3>3
  <2>2. CASE \E q \in Run : runs' = [runs EXCEPT ![q] = Reply(q, m)]
    <3>1. PICK q \in Run : runs' = [runs EXCEPT ![q] = Reply(q, m)]
      BY <2>2
    <3>2. runs[q] \in RunRecord
      BY <1>1
    <3>3. Reply(q, m).under = runs[q].under
      BY <3>2 DEF Reply, RunRecord
    <3>4. QED
      BY <1>4, <3>1, <3>3
  <2>3. CASE runs' = [runs EXCEPT ![m] = NewRun(m)]
    <3>1. NewRun(m).under = NoConfig
      BY <1>5, NewRunRecord DEF CreateRun
    <3>2. QED
      BY <1>4, <2>3, <3>1 DEF Run
  <2>4. ASSUME NEW q \in Waiting,
               runs' = [runs EXCEPT ![q] = IF AtTurnBoundary(q) THEN OpenTurn(runs[q], m, calls[m].pin)
                                           ELSE Reply(q, m)]
        PROVE  runs'[r].under.identity = runs[r].under.identity
    <3>1. q \in Run
      BY DEF Waiting
    <3>2. CASE AtTurnBoundary(q)
      BY <2>1, <2>4, <3>1, <3>2
    <3>3. CASE ~AtTurnBoundary(q)
      BY <2>2, <2>4, <3>1, <3>3
    <3>4. QED
      BY <3>2, <3>3
  <2>5. QED
    BY <1>5, <2>3, <2>4 DEF CreateRun
<1>6. ASSUME NEW m \in Message, RecordAnswer(m)
      PROVE  runs'[r].under.identity = runs[r].under.identity
  <2>1. CASE UNCHANGED runs
    BY <1>2, <2>1
  <2>2. CASE \E q \in Run : runs' = [runs EXCEPT ![q] = OpenTurn(runs[q], m, calls[m].pin)]
    <3>1. PICK q \in Run : runs' = [runs EXCEPT ![q] = OpenTurn(runs[q], m, calls[m].pin)]
      BY <2>2
    <3>2. runs[q] \in RunRecord
      BY <1>1
    <3>3. OpenTurn(runs[q], m, calls[m].pin).under = NoConfig
      BY <3>2 DEF OpenTurn, RunRecord
    <3>4. QED
      BY <1>4, <3>1, <3>3
  <2>3. QED
    BY <1>6, <2>1, <2>2 DEF RecordAnswer
<1>7. CASE Messages
  <2>1. CASE \E q \in Run : AnswerQuestion(q)
    BY <1>3, <2>1 DEF AnswerQuestion
  <2>2. CASE UNCHANGED runs
    BY <1>2, <2>2
  <2>3. QED
    BY <1>5, <1>6, <1>7, <2>1, <2>2 DEF Messages, Send, ResolvePayload, CheckBoundary, ResolveAnswer,
       Answer, CallOnly, storeVars
<1>8. CASE ClaimRun
  <2>1. CASE UNCHANGED runs
    BY <1>2, <2>1
  <2>2. CASE /\ runs[exec.run].pin \in {NoToken, exec.token}
             /\ runs' = [runs EXCEPT ![exec.run].state = "running", ![exec.run].pin = exec.token,
                                     ![exec.run].under = exec.config]
    <3>1. exec.at = "ready" /\ exec # NoExec
      BY <1>8 DEF ClaimRun, NoExec
    <3>2. exec.run \in Run /\ exec.config.identity = stored[exec.token].identity
      BY <3>1 DEF IInv, ExecIsSound
    <3>3. CASE r = exec.run
      <4>1. runs[r] \in RunRecord /\ runs'[r].under = exec.config
        BY <1>1, <2>2, <3>3 DEF RunRecord
      <4>2. runs[r].pin = exec.token /\ runs[r].under.identity = stored[runs[r].pin].identity
        BY <2>2, <3>3 DEF IInv, RunsAreSound
      <4>3. QED
        BY <3>2, <4>1, <4>2
    <3>4. CASE r # exec.run
      BY <1>1, <1>2, <2>2, <3>2, <3>4
    <3>5. QED
      BY <3>3, <3>4
  <2>3. QED
    BY <1>8, <2>1, <2>2 DEF ClaimRun
<1>9. CASE Attempts
  <2>1. CASE \E q \in Run : AttemptEnds(q)
    BY <1>3, <2>1 DEF AttemptEnds
  <2>2. CASE UNCHANGED runs
    BY <1>2, <2>2
  <2>3. CASE FailQueued /\ exec.at = "resolving"
    <3>1. exec # NoExec
      BY <2>3 DEF NoExec
    <3>2. exec.run \in Run
      BY <3>1 DEF IInv, ExecIsSound
    <3>3. QED
      BY <1>3, <2>3, <3>2 DEF FailQueued
  <2>4. QED
    BY <1>8, <1>9, <2>1, <2>2, <2>3 DEF Attempts, Execute, Unavailable, Deferred, ResolveConfig, AutoCompact
<1>10. CASE Crash
  <2>1. runs'[r] = IF runs[r].state = "running" THEN [runs[r] EXCEPT !.state = "ended"] ELSE runs[r]
    BY <1>10 DEF Crash
  <2>2. runs'[r].under = runs[r].under
    BY <1>1, <2>1 DEF RunRecord
  <2>3. QED
    BY <2>2
<1>11. CASE Commands \/ UNCHANGED vars
  BY <1>2, <1>11 DEF Commands, ActivateAgent, UpdateAgentConfigToken, PutCommand, vars, storeVars
<1>12. QED
  BY <1>7, <1>9, <1>10, <1>11 DEF Next

\* Everything in a Turn runs under one Configuration: claimRun takes the pin as
\* it is or sets it once, and only a message that opens a Turn replaces it.
THEOREM TurnsKeepConfiguration == Spec => TurnKeepsItsConfiguration
<1>1. ASSUME IInv, IInv', [Next]_vars
      PROVE  \A r \in Run :
               /\ runs[r].under # NoConfig /\ runs'[r].under # NoConfig
               /\ runs'[r].turn = runs[r].turn
               => runs'[r].under.identity = runs[r].under.identity
  BY <1>1, UnderKept
<1>2. QED
  BY <1>1, Inductive, PTL DEF Spec, TurnKeepsItsConfiguration
=============================================================================
