------------------------------ MODULE Wizards ------------------------------
(***************************************************************************)
(* The three conversational wizards (/agents create, /skills create and    *)
(* /schedule) of handlers/agents_wizard.py, skills_wizard.py and           *)
(* schedule_wizard.py, as handlers/agent_handler.py drives them.           *)
(*                                                                         *)
(* A wizard's state is one object kept on the WebSocket connection, while  *)
(* turns run per conversation: two conversations of a connection answer    *)
(* the same wizard, and one of them can reply while the other one's        *)
(* confirmation waits for the database.  The code runs on one event loop,  *)
(* so what lies between two awaits is one action.                          *)
(*                                                                         *)
(* A reply is one of the classes the step distinguishes.  Replies that a   *)
(* step refuses ("Try again") change nothing and are left out.             *)
(***************************************************************************)
EXTENDS Integers, Sequences, FiniteSets

CONSTANTS
  Cids,       \* conversations of the connection, each with at most one turn
  Names,      \* kebab-case names the user gives
  Labels,     \* names the user gives to schedules
  Existing,   \* names whose files are there from the start
  Texts,      \* free text, lists and model ids the user gives
  Kinds,      \* kinds of schedule the user asks for (bound)
  Explored,   \* keys of the steps answered in every way the step allows;
              \* any other step gets one fixed answer (bound of the inputs)
  Together,   \* pairs of wizards whose commands may wait at the same time (bound)
  MaxWizards, \* wizards started on the connection (bound)
  MaxSchedules, \* schedules confirmed under a free name (bound)
  None

ASSUME WizardAssumption ==
  /\ Existing \subseteq Names /\ None \notin Names
  /\ Names # {} /\ Texts # {} /\ Kinds # {}
  /\ Kinds \subseteq {"agent", "skill", "freeform"}
  /\ MaxWizards \in Nat /\ MaxSchedules \in Nat

VARIABLES
  heap,       \* the state objects created so far, Gone once nothing refers to one
  active,     \* wizard -> index in heap of the object on the connection, or 0
  turn,       \* cid -> what its turn is waiting for
  agentFile,  \* agents/<name>/AGENT.md
  agentRow,   \* the user's AgentDefinition rows
  skillFile,  \* skills/<name>/SKILL.md
  registry,   \* the skill registry
  schedules,  \* the rows the schedule wizard created
  said        \* the last outcome a wizard reported

wizardVars == <<heap, active, turn, agentFile, agentRow, skillFile, registry, schedules, said>>

Wizard == {"agents", "skills", "schedule"}
Idle == [at |-> "idle"]

(* ----------------------------- the steps ----------------------------- *)
\* takes: replies that are stored; leaves: replies that advance and store
\* nothing.

Step(key, takes, leaves) == [key |-> key, takes |-> takes, leaves |-> leaves]
Required(key) == Step(key, Texts, {})
Optional(key) == Step(key, Texts, {"skip"})
OptionalList(key) == Step(key, Texts, {"skip", ","})

AgentName == Step("name", Names, {})
AgentDescription == Required("description")
AgentModel == Optional("model")
AgentTools == Optional("tools")
AgentDisallowedTools == OptionalList("disallowedTools")
AgentSkills == OptionalList("skills")
AgentMcpServers == OptionalList("mcpServers")
AgentPermissionMode ==
  Step("permissionMode", {"default", "acceptEdits", "plan", "bypassPermissions"}, {"skip"})
AgentIsolation == Step("isolation", {"worktree"}, {"skip"})
AgentBackground == Step("background", {"yes"}, {"no", "skip"})
AgentInitialPrompt == Optional("initialPrompt")
AgentColor == Optional("color")
AgentSystemPrompt == Required("system_prompt")

SkillName == Step("name", Names, {})
SkillDescription == Required("description")
SkillArgumentHint == Optional("argument_hint")
SkillTools == Optional("tools")
SkillUserInvocable == Step("user_invocable", {"no"}, {"yes", "skip"})
SkillDisableModelInvocation == Step("disable_model_invocation", {"yes"}, {"no", "skip"})
SkillContext == Step("context", {"fork"}, {"skip"})
SkillPrompt == Required("prompt")

ScheduleKind == Step("kind", Kinds, {})
ScheduleTarget == Step("target", Names, {})
SchedulePrompt == Step("prompt", Texts, {})
ScheduleWhen == Step("cron", Texts, {})
ScheduleTimezone == Step("timezone", {"UTC", "skip"}, {})
ScheduleName == Step("name", Labels \cup {"skip"}, {})

Review == Step("review", {}, {})

AgentSteps == <<AgentName, AgentDescription, AgentModel, AgentTools, AgentDisallowedTools,
                AgentSkills, AgentMcpServers, AgentPermissionMode, AgentIsolation,
                AgentBackground, AgentInitialPrompt, AgentColor, AgentSystemPrompt, Review>>
SkillSteps == <<SkillName, SkillDescription, SkillArgumentHint, SkillTools, SkillUserInvocable,
                SkillDisableModelInvocation, SkillContext, SkillPrompt, Review>>
ScheduleSteps == <<ScheduleKind, ScheduleTarget, SchedulePrompt, ScheduleWhen,
                   ScheduleTimezone, ScheduleName, Review>>
Steps(w) == CASE w = "agents" -> AgentSteps [] w = "skills" -> SkillSteps
              [] w = "schedule" -> ScheduleSteps

(* -------------------------- state objects --------------------------- *)
\* shown, asked and skipped are history: whether the answers are those the
\* review step last listed, the name the pending overwrite question is about,
\* and whether a rename jumped past a prompt step the user had gone back to.

NewWizard(w) == [wizard |-> w, step |-> 1, data |-> <<>>, overwrite |-> FALSE,
                 shown |-> FALSE, asked |-> None, skipped |-> FALSE]
Gone == NewWizard(None)
With(f, k, v) == [x \in DOMAIN f \cup {k} |-> IF x = k THEN v ELSE f[x]]
Without(f, k) == [x \in DOMAIN f \ {k} |-> f[x]]
Current(o) == Steps(o.wizard)[o.step]

\* the name step of the schedule wizard proposes a name the first time it asks
DefaultName(data) == IF "target" \in DOMAIN data THEN data.target ELSE data.prompt.body

\* what asking the current step does to the object
Asked(o) ==
  CASE Current(o).key = "review" -> [o EXCEPT !.shown = TRUE]
    [] o.wizard = "schedule" /\ Current(o).key = "name" ->
         [o EXCEPT !.data = IF "_default_name" \in DOMAIN @ THEN @
                            ELSE With(@, "_default_name", DefaultName(o.data))]
    [] OTHER -> o

\* mutant: a prompt given before is kept
PromptFor_M_kept(data, body) ==
  IF "prompt" \in DOMAIN data THEN data.prompt
  ELSE [by |-> data.kind, target |-> IF data.kind = "freeform" THEN None ELSE data.target,
        body |-> body]

\* the dispatch token is prefixed to the body for agents and skills
PromptFor(data, body) ==
  [by |-> data.kind, target |-> IF data.kind = "freeform" THEN None ELSE data.target,
   body |-> body]

\* the value a reply leaves under the step's key
Kept(o, r) ==
  LET key == Current(o).key IN
  CASE o.wizard = "schedule" /\ key = "prompt" -> PromptFor(o.data, r)
    [] key = "timezone" /\ r = "skip" -> "Europe/London"
    [] o.wizard = "schedule" /\ key = "name" /\ r = "skip" -> o.data["_default_name"]
    [] OTHER -> r

\* a freeform schedule skips the target step, forwards and backwards
NextStep(o, r) == IF o.wizard = "schedule" /\ r = "freeform" /\ o.step = 1
                  THEN o.step + 2 ELSE o.step + 1
PreviousStep(o) ==
  IF o.wizard = "schedule" /\ o.step = 3 /\ o.data.kind = "freeform" THEN 1 ELSE o.step - 1

Consume(o, r) ==
  LET data == IF r \in Current(o).takes THEN With(o.data, Current(o).key, Kept(o, r))
              ELSE o.data
  IN Asked([o EXCEPT !.step = NextStep(o, r), !.data = data, !.shown = @ /\ data = o.data,
                     !.skipped = @ /\ ~(o.wizard = "schedule" /\ o.step = 3)])

\* mutant: back leaves the overwrite question pending
StepBack_M_still_asking(o) == Asked([o EXCEPT !.step = PreviousStep(o), !.asked = None])

\* from the overwrite question the review is listed again, whatever the step
StepBack(o) ==
  IF o.overwrite THEN [o EXCEPT !.overwrite = FALSE, !.asked = None, !.shown = TRUE]
  ELSE Asked([o EXCEPT !.step = PreviousStep(o)])

\* "yes" to a taken schedule name goes back to the name step
Rename(o) ==
  Asked([o EXCEPT !.overwrite = FALSE, !.asked = None, !.shown = FALSE, !.step = 6,
                  !.data = Without(@, "name"), !.skipped = @ \/ o.step <= 3])

AskOverwrite(o) == [o EXCEPT !.overwrite = TRUE, !.asked = o.data.name]

\* a prompt without its target is a KeyError (the rename jumped past the target)
Raises(o) ==
  o.wizard = "schedule" /\ o.step = 3 /\ o.data.kind # "freeform" /\ "target" \notin DOMAIN o.data

Replies(o) ==
  LET s == Current(o)
  IN IF s.key \in Explored THEN s.takes \cup s.leaves
     ELSE {CHOOSE r \in (IF s.leaves # {} THEN s.leaves ELSE s.takes) : TRUE}

(* ------------------------------ files ------------------------------- *)
ByHand == [name |-> "written by hand"]
RowFields == {"name", "description", "system_prompt", "model", "tools", "skills"}
ScheduleFields == {"name", "cron", "prompt", "timezone", "kind", "target"}
ScheduleOf(o) ==
  With([k \in DOMAIN o.data \cap ScheduleFields |-> o.data[k]], "skipped", o.skipped)
RowOf(data) == [k \in DOMAIN data \cap RowFields |-> data[k]]

\* an object lives while the connection or a waiting turn refers to it
Live(h) ==
  [i \in DOMAIN h |->
     IF \/ \E w \in Wizard : active'[w] = i
        \/ \E c \in Cids : turn'[c].at = "create" /\ turn'[c].of = i
     THEN h[i] ELSE Gone]

Say(what, name) == said' = [what |-> what, name |-> name]
\* mutant: every wizard is kept under the first one's key
Save_M_one_key(w, i) == active' = [active EXCEPT !["agents"] = i]
Save(w, i) == active' = [active EXCEPT ![w] = i]
Clear(w) == active' = [active EXCEPT ![w] = 0]

\* a row the user owns is never overwritten by a sync, whatever its label
sync_agent_defs_to_db(data) ==
  agentRow' = IF agentRow[data.name] # None /\ agentRow[data.name].source = "user" THEN agentRow
              ELSE [agentRow EXCEPT ![data.name] = [source |-> "user", def |-> RowOf(data)]]

\* refused by a file that is there unless overwriting, as is write_skill_def
write_agent_def(data) == agentFile' = [agentFile EXCEPT ![data.name] = data]
\* mutant: a registered skill is not replaced
register_skill_M_first_wins(data) ==
  registry' = IF registry[data.name] # None THEN registry ELSE [registry EXCEPT ![data.name] = data]
write_skill_def(data) == skillFile' = [skillFile EXCEPT ![data.name] = data]
register_skill(data) == registry' = [registry EXCEPT ![data.name] = data]

(* --------------------------- one message ---------------------------- *)
\* handle_user_message offers a message to the agents wizard first
Interceptor ==
  IF active["agents"] # 0 THEN "agents" ELSE IF active["skills"] # 0 THEN "skills"
  ELSE "schedule"
Intercepted(c) == turn[c] = Idle /\ active[Interceptor] # 0
Object == heap[active[Interceptor]]
Put(o) == heap' = [heap EXCEPT ![active[Interceptor]] = o]

NoFileChange == UNCHANGED <<agentFile, agentRow, skillFile, registry, schedules>>

\* a slash command passed the intercept and awaits hooks, memory and config
Command(c, w, hint) ==
  /\ turn[c] = Idle /\ \A v \in Wizard : active[v] = 0
  /\ w = "schedule" => hint = None
  /\ Len(heap) < MaxWizards
  /\ \A d \in Cids : turn[d].at = "command" => <<turn[d].wizard, w>> \in Together
  /\ turn' = [turn EXCEPT ![c] = [at |-> "command", wizard |-> w, hint |-> hint]]
  /\ NoFileChange /\ UNCHANGED <<heap, active, said>>

start_wizard(c) ==
  LET w == turn[c].wizard
      hint == turn[c].hint
      o == IF hint = None THEN NewWizard(w)
           ELSE [NewWizard(w) EXCEPT !.step = 2, !.data = With(<<>>, "name", hint)]
  IN
  /\ turn[c].at = "command"
  /\ Save(w, Len(heap) + 1)
  /\ turn' = [turn EXCEPT ![c] = Idle]
  /\ heap' = Live(Append(heap, o))
  /\ NoFileChange /\ UNCHANGED said

CancelWizard(c) ==
  /\ Intercepted(c)
  /\ Clear(Interceptor) /\ Say("cancelled", Interceptor)
  /\ NoFileChange /\ UNCHANGED turn
  /\ heap' = Live(heap)

Back(c) ==
  /\ Intercepted(c) /\ (Object.overwrite \/ Object.step > 1)
  /\ Put(StepBack(Object))
  /\ NoFileChange /\ UNCHANGED <<active, turn, said>>

Answer(c) ==
  /\ Intercepted(c) /\ ~Object.overwrite
  /\ Current(Object).key # "review" /\ ~Raises(Object)
  /\ \E r \in Replies(Object) : Put(Consume(Object, r))
  /\ NoFileChange /\ UNCHANGED <<active, turn, said>>

\* "yes" to a taken schedule name
RenameSchedule(c) ==
  /\ Intercepted(c) /\ Interceptor = "schedule" /\ Object.overwrite
  /\ Put(Rename(Object))
  /\ NoFileChange /\ UNCHANGED <<active, turn, said>>

(* --------------------------- _finalize ------------------------------ *)
\* "confirm" at the review step, or "yes" to the overwrite question
Agreed(o, w) ==
  /\ o.wizard = w
  /\ o.overwrite \/ Current(o).key = "review"
Target(w, name) == IF w = "agents" THEN agentFile[name] ELSE skillFile[name]

AskBeforeOverwrite(c) ==
  /\ Intercepted(c) /\ Interceptor # "schedule"
  /\ Agreed(Object, Interceptor) /\ ~Object.overwrite
  /\ Target(Interceptor, Object.data.name) # None
  /\ Put(AskOverwrite(Object))
  /\ NoFileChange /\ UNCHANGED <<active, turn, said>>

MayWrite(w) == Agreed(Object, w) /\ (Object.overwrite \/ Target(w, Object.data.name) = None)

\* the file is written at once, the row after an await
ConfirmAgent(c) ==
  /\ Intercepted(c) /\ Interceptor = "agents" /\ MayWrite("agents")
  /\ \/ /\ write_agent_def(Object.data)
        /\ turn' = [turn EXCEPT ![c] = [at |-> "sync", data |-> Object.data]]
        /\ UNCHANGED <<active, said>>
     \/ /\ Clear("agents") /\ Say("failed to write", Object.data.name)
        /\ UNCHANGED <<agentFile, turn>>
  /\ UNCHANGED <<agentRow, skillFile, registry, schedules>>
  /\ heap' = Live(heap)

FinishAgent(c) ==
  /\ turn[c].at = "sync"
  /\ \/ sync_agent_defs_to_db(turn[c].data) /\ Say("agent created", turn[c].data.name)
     \/ UNCHANGED agentRow /\ Say("failed to register", turn[c].data.name)
  /\ Clear("agents")
  /\ turn' = [turn EXCEPT ![c] = Idle]
  /\ heap' = Live(heap)
  /\ UNCHANGED <<agentFile, skillFile, registry, schedules>>

\* written, read back and registered without an await
ConfirmSkill(c) ==
  /\ Intercepted(c) /\ Interceptor = "skills" /\ MayWrite("skills")
  /\ \/ write_skill_def(Object.data) /\ register_skill(Object.data)
          /\ Say("skill created", Object.data.name)
     \/ UNCHANGED <<skillFile, registry>> /\ Say("failed to write", Object.data.name)
     \/ write_skill_def(Object.data) /\ UNCHANGED registry
          /\ Say("failed to register", Object.data.name)
  /\ Clear("skills")
  /\ UNCHANGED <<turn, agentFile, agentRow, schedules>>
  /\ heap' = Live(heap)

ConfirmSchedule(c) ==
  /\ Intercepted(c) /\ Interceptor = "schedule"
  /\ Agreed(Object, "schedule") /\ ~Object.overwrite
  /\ Cardinality(schedules) < MaxSchedules \/ \E s \in schedules : s.name = Object.data.name
  /\ turn' = [turn EXCEPT ![c] = [at |-> "create", of |-> active["schedule"],
                                  data |-> ScheduleOf(Object)]]
  /\ NoFileChange /\ UNCHANGED <<heap, active, said>>

\* a taken name puts the object back on the connection, whatever is there now
FinishSchedule(c) ==
  LET data == turn[c].data
      taken == \E s \in schedules : s.name = data.name
      refused == [heap[turn[c].of] EXCEPT !.overwrite = TRUE, !.asked = data.name]
  IN
  /\ turn[c].at = "create"
  /\ turn' = [turn EXCEPT ![c] = Idle]
  /\ \/ /\ ~taken
        /\ schedules' = schedules \cup {data}
        /\ Clear("schedule") /\ Say("schedule created", data.name)
        /\ heap' = Live(heap)
     \/ /\ taken
        /\ Save("schedule", turn[c].of)
        /\ heap' = Live([heap EXCEPT ![turn[c].of] = refused])
        /\ UNCHANGED <<schedules, said>>
     \/ /\ Clear("schedule") /\ Say("failed to create", data.name)
        /\ heap' = Live(heap)
        /\ UNCHANGED schedules
  /\ UNCHANGED <<agentFile, agentRow, skillFile, registry>>

\* "no" to either question cancels
Decline(c) ==
  /\ Intercepted(c) /\ Object.overwrite
  /\ Clear(Interceptor) /\ Say("cancelled", Interceptor)
  /\ NoFileChange /\ UNCHANGED turn
  /\ heap' = Live(heap)

\* the user stops the turn while it awaits: CancelledError is no Exception,
\* so the wizard stays; the commit may have gone through
StopTurn(c) ==
  /\ turn[c] # Idle
  /\ turn' = [turn EXCEPT ![c] = Idle]
  /\ \/ UNCHANGED <<agentRow, schedules>>
     \/ turn[c].at = "sync" /\ sync_agent_defs_to_db(turn[c].data) /\ UNCHANGED schedules
     \/ /\ turn[c].at = "create" /\ ~\E s \in schedules : s.name = turn[c].data.name
        /\ schedules' = schedules \cup {turn[c].data} /\ UNCHANGED agentRow
  /\ UNCHANGED <<active, agentFile, skillFile, registry, said>>
  /\ heap' = Live(heap)

(* --------------------------- behaviours ----------------------------- *)
\* files written by hand have the rows of the start-up sync
WizardInit ==
  /\ heap = <<>> /\ active = [w \in Wizard |-> 0] /\ turn = [c \in Cids |-> Idle]
  /\ agentFile = [n \in Names |-> IF n \in Existing THEN ByHand ELSE None]
  /\ agentRow = [n \in Names |-> IF n \in Existing
                                THEN [source |-> "yaml", def |-> RowOf(ByHand)] ELSE None]
  /\ skillFile = agentFile /\ registry = agentFile
  /\ schedules = {} /\ said = [what |-> "nothing", name |-> None]

WizardNext ==
  \E c \in Cids :
    \/ \E w \in Wizard, hint \in Existing \cup {None} : Command(c, w, hint)
    \/ start_wizard(c) \/ CancelWizard(c) \/ Back(c) \/ Answer(c) \/ RenameSchedule(c)
    \/ AskBeforeOverwrite(c) \/ ConfirmAgent(c) \/ FinishAgent(c)
    \/ ConfirmSkill(c) \/ ConfirmSchedule(c) \/ FinishSchedule(c)
    \/ Decline(c) \/ StopTurn(c)

WizardSpec == WizardInit /\ [][WizardNext]_wizardVars

(* --------------------------- properties ----------------------------- *)
WizardTypeOK ==
  /\ \A i \in DOMAIN heap : heap[i] # Gone =>
       /\ heap[i].wizard \in Wizard /\ heap[i].step \in DOMAIN Steps(heap[i].wizard)
       /\ heap[i].overwrite \in BOOLEAN /\ heap[i].shown \in BOOLEAN
       /\ heap[i].skipped \in BOOLEAN
       /\ heap[i].asked \in Names \cup Labels \cup Texts \cup {None}
  /\ \A w \in Wizard : active[w] # 0 =>
       active[w] \in DOMAIN heap /\ heap[active[w]].wizard = w
  /\ \A c \in Cids : turn[c].at \in {"idle", "command", "sync", "create"}
  /\ \A n \in Names : agentRow[n] # None => agentRow[n].source \in {"user", "yaml"}

\* What a wizard writes or submits is what its review listed last, although
\* another conversation may have answered in between, and a file that was
\* there is replaced only by a yes to the question about that file.
Consented(w, n) ==
  \E i \in DOMAIN heap :
    /\ heap[i].wizard = w /\ heap[i].shown /\ heap[i].data.name = n
    /\ (Target(w, n) = None \/ heap[i].asked = n)
WrittenAsAgreed ==
  [][/\ \A n \in Names : /\ agentFile'[n] # agentFile[n] => Consented("agents", n)
                         /\ skillFile'[n] # skillFile[n] => Consented("skills", n)
     /\ \A c \in Cids : turn[c].at # "create" /\ turn'[c].at = "create"
                         => heap[turn'[c].of].shown]_wizardVars

\* What a wizard created runs as the user was told.  A schedule of an agent or
\* a skill starts with the dispatch token of that agent or skill, and a
\* freeform one with none, whatever kinds and targets the user went through
\* before (prompts are prefixed when they are given).  The one exception is a
\* rename that jumped to the name step from the prompt step or before it: it
\* keeps the prompt of the kind the user had gone back to change.  A skill
\* reported as created is the one registered, and an agent reported as created
\* has a row of the user's, which no later start-up sync replaces.
PromptMatches(s) ==
  /\ s.prompt.by = s.kind
  /\ s.prompt.target = (IF s.kind = "freeform" THEN None ELSE s.target)
CreatedRunsAsTold ==
  /\ \A s \in schedules : s.skipped \/ PromptMatches(s)
  /\ said.what = "skill created" => registry[said.name] = skillFile[said.name]
  /\ said.what = "agent created" => agentRow[said.name].source = "user"
=============================================================================
