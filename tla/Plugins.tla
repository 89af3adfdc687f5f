------------------------------ MODULE Plugins ------------------------------
(***************************************************************************)
(* Installing, loading, reloading and removing plugins                     *)
(* (core/plugin_manager.py, core/plugin_loader.py, routes/plugins.py, the  *)
(* /plugin command of handlers/commands.py), what a loaded plugin leaves   *)
(* in the process (MCP servers, namespaced skills) and in the database     *)
(* (one agent row for every user, core/agent_loader.py), the user's own    *)
(* operations on agent rows (core/agent_crud.py), the seeding of new users *)
(* (routes/auth.py) and the restart of the server (server.py lifespan).    *)
(*                                                                         *)
(* A step ends where the code awaits.  A directory holds nothing, a copy   *)
(* that is not complete, or a content <<plugin, version>>; what a content  *)
(* ships is Manifest.  Plugin names, directories and namespaced agent      *)
(* names that the code builds from one another are plugin p, directory p   *)
(* and the pair <<p, a>>.                                                  *)
(***************************************************************************)
EXTENDS Naturals, FiniteSets

CONSTANTS Plugins,     \* plugin names, and their directories under plugins/
          External,    \* [directory outside plugins/ -> the content it has]
          Manifest,    \* [<<plugin, version>> -> [servers, skills, agents]]
          Users,       \* everybody who may have an account
          FirstUsers,  \* who has one at the start
          Requests,    \* requests the server handles at a time
          MaxEvents,   \* bound: requests served, crashes and shutdowns in all
          Boot,        \* the startup, a job like a request
          None, Partial

Contents == DOMAIN Manifest
Servers == UNION {Manifest[c].servers : c \in Contents}
Skills == UNION {Manifest[c].skills : c \in Contents}
Agents == UNION {Manifest[c].agents : c \in Contents}
Dirs == Plugins \cup DOMAIN External
AgentNames == UNION {{<<c[1], a>> : a \in Manifest[c].agents} : c \in Contents}

PluginInfo(c, dir) == [plugin |-> c[1], dir |-> dir, servers |-> Manifest[c].servers,
                       skills |-> Manifest[c].skills, agents |-> Manifest[c].agents]
Infos == {PluginInfo(c, d) : c \in Contents, d \in Dirs}
Row == [source : {"plugin", "user"}, enabled : BOOLEAN]
Table == [AgentNames -> Row \cup {None}]

(* What a request is doing: the step, what it has left to do and the       *)
(* version it works on (a signup: with the agents the directory has now).  *)
Carried == [plugin : Plugins, dir : Dirs, servers : SUBSET Servers, skills : SUBSET Skills,
            agents : SUBSET Agents]
JobOn(S) == [op : {"install", "clone", "update", "reload", "uninstall", "signup", "boot"},
             plugin : Plugins \cup {None}, dir : Dirs \cup {None},
             pc : {"copy", "clean", "clone", "cloning", "cloned", "failed", "rename", "pull",
                   "unload", "closing", "delete", "rmtree", "load", "connect", "connecting",
                   "users", "sync", "commit", "list", "seed", "boot"},
             todo : SUBSET S, info : Carried \cup {None},
             user : Users \cup {None}, seen : Table \cup {None}]
Job == JobOn(Servers) \cup JobOn(Users) \cup JobOn(Infos) \cup JobOn(Plugins)

ASSUME PluginsAssumption ==
  /\ DOMAIN Manifest \subseteq Plugins \X Nat
  /\ External \in [DOMAIN External -> DOMAIN Manifest]
  /\ DOMAIN External \cap Plugins = {} /\ FirstUsers \subseteq Users
  /\ Boot \notin Requests /\ MaxEvents \in Nat
  /\ None \notin Plugins \cup Dirs \cup Contents \cup Users \cup Infos \cup Row
  /\ None \notin Carried /\ None \notin Table /\ None \notin Job
  /\ Partial \notin Contents \cup {None}

VARIABLES disk,     \* [directory -> None, Partial or a content]
          staging,  \* plugins/_installing: None, Partial or a content
          loaded,   \* PluginLoader._plugins: [plugin -> None or PluginInfo]
          servers,  \* MCPManager._servers: names of connected servers
          registry, \* the namespaced part of _SKILLS: [plugin -> skills]
          users,    \* rows of users
          rows,     \* agent_definitions: [user -> [name -> None or row]]
          jobs,     \* [request or Boot -> None or what it is doing]
          served, stops,  \* counters of the bounds
          tainted,  \* history: plugins with overlapping or failed operations
          missed    \* history: plugins an agent row of which was dropped

memory == <<loaded, servers, registry>>
vars == <<disk, staging, loaded, servers, registry, users, rows, jobs,
          served, stops, tainted, missed>>

NewJob(op, p, dir, pc) == [op |-> op, plugin |-> p, dir |-> dir, pc |-> pc, todo |-> {},
                           info |-> None, user |-> None, seen |-> None]

At(j, pc) == IF jobs[j] = None THEN FALSE ELSE jobs[j].pc = pc
Goto(j, pc) == jobs' = [jobs EXCEPT ![j].pc = pc]
Done(j) == jobs' = [jobs EXCEPT ![j] = None]
----------------------------------------------------------------------------
(* History: a plugin is tainted once two jobs worked on it at a time (the  *)
(* startup and a signup work on all), or a step of its own raised or was   *)
(* cancelled: what it leaves then is what that step left.                  *)
Concerns(job, p) ==
  IF job = None THEN FALSE
  ELSE job.op \in {"boot", "signup"} \/ job.plugin = p \/ job.dir = p
       \/ (job.info # None /\ job.info.plugin = p)
Busy(p) == \E j \in DOMAIN jobs : Concerns(jobs[j], p)
Overlapping(js, p) == \E i, j \in DOMAIN js : i # j /\ Concerns(js[i], p) /\ Concerns(js[j], p)
Taint(failed) == tainted' = tainted \cup failed \cup {p \in Plugins : Overlapping(jobs', p)}

(* A request arrives: the server has started, and a slot is free. *)
Serve(j) == /\ jobs[j] = None /\ jobs[Boot] = None
            /\ served + stops < MaxEvents /\ served' = served + 1
            /\ UNCHANGED stops
Continue == UNCHANGED <<served, stops>>

Init == /\ disk = [d \in Dirs |-> IF d \in Plugins THEN None ELSE External[d]]
        /\ staging = None
        /\ loaded = [p \in Plugins |-> None]
        /\ servers = {}
        /\ registry = [p \in Plugins |-> {}]
        /\ users = FirstUsers
        /\ rows = [u \in Users |-> [n \in AgentNames |-> None]]
        /\ jobs = [j \in Requests \cup {Boot} |-> None]
        /\ served = 0 /\ stops = 0 /\ tainted = {} /\ missed = {}
----------------------------------------------------------------------------
(* core/plugin_manager.py *)

(* Install a directory of the host: it is copied in a thread. *)
InstallFromPath(j, p) ==
  /\ Serve(j) /\ disk[p] = None
  /\ disk' = [disk EXCEPT ![p] = Partial]
  /\ jobs' = [jobs EXCEPT ![j] = NewJob("install", p, p, "copy")]
  /\ Taint({})
  /\ UNCHANGED <<staging, memory, users, rows, missed>>

Copied(j, c) ==
  /\ At(j, "copy") /\ c[1] = jobs[j].dir
  /\ disk' = [disk EXCEPT ![jobs[j].dir] = IF @ = Partial THEN c ELSE @]
  /\ Goto(j, "load") /\ Taint({}) /\ Continue
  /\ UNCHANGED <<staging, memory, users, rows, missed>>

(* Install from git: what an earlier clone left is removed, ... *)
InstallFromGit(j, p) ==
  /\ Serve(j)
  /\ jobs' = [jobs EXCEPT ![j] = NewJob("clone", p, None, IF staging = None THEN "clone" ELSE "clean")]
  /\ Taint({})
  /\ UNCHANGED <<disk, staging, memory, users, rows, missed>>

CleanStaging(j) ==
  /\ At(j, "clean") /\ staging' = None
  /\ Goto(j, "clone") /\ Taint({}) /\ Continue
  /\ UNCHANGED <<disk, memory, users, rows, missed>>

(* ... git fills the directory, and fails if another clone already has, ... *)
StartClone(j) ==
  /\ At(j, "clone")
  /\ IF staging = None THEN staging' = Partial /\ Goto(j, "cloning")
                       ELSE UNCHANGED staging /\ Goto(j, "failed")
  /\ Taint({}) /\ Continue
  /\ UNCHANGED <<disk, memory, users, rows, missed>>

EndClone(j, c) ==
  /\ At(j, "cloning") /\ c[1] = jobs[j].plugin
  /\ IF staging = Partial THEN staging' = c /\ Goto(j, "cloned")
                          ELSE UNCHANGED staging /\ Goto(j, "failed")
  /\ Taint({}) /\ Continue
  /\ UNCHANGED <<disk, memory, users, rows, missed>>

CloneFails(j) == /\ At(j, "cloning") /\ Goto(j, "failed") /\ Taint({}) /\ Continue
                 /\ UNCHANGED <<disk, staging, memory, users, rows, missed>>

(* ... a clone that cannot be used is removed, whoever made it, ... *)
GiveUp(j) ==
  /\ At(j, "failed") /\ staging' = None
  /\ Done(j) /\ Taint({}) /\ Continue
  /\ UNCHANGED <<disk, memory, users, rows, missed>>

(* ... else the manifest found there names the directory it gets ... *)
Validate(j) ==
  /\ At(j, "cloned")
  /\ jobs' = IF staging \notin Contents THEN [jobs EXCEPT ![j].pc = "failed"]
             ELSE IF disk[staging[1]] # None THEN [jobs EXCEPT ![j].pc = "failed"]
             ELSE [jobs EXCEPT ![j].dir = staging[1], ![j].pc = "rename"]
  /\ Taint({}) /\ Continue
  /\ UNCHANGED <<disk, staging, memory, users, rows, missed>>

(* ... and whatever is there by then is moved (nothing to move, or a       *)
(* target that exists by now, is an error outside the handler's reach).    *)
Rename(j) ==
  /\ At(j, "rename")
  /\ LET dir == jobs[j].dir IN
       IF staging = None \/ disk[dir] # None
       THEN Done(j) /\ Taint({}) /\ UNCHANGED <<disk, staging>>
       ELSE /\ disk' = [disk EXCEPT ![dir] = staging] /\ staging' = None
            /\ Goto(j, "load")
            /\ Taint(IF staging \notin Contents THEN {}
                     ELSE IF staging[1] = dir THEN {} ELSE {dir, staging[1]})
  /\ Continue /\ UNCHANGED <<memory, users, rows, missed>>

(* Update: git pull brings a version that is not older; the plugin is      *)
(* unloaded and loaded again whatever the pull changed.                    *)
Update(j, p) ==
  /\ Serve(j) /\ disk[p] # None
  /\ jobs' = [jobs EXCEPT ![j] = NewJob("update", p, p, "pull")]
  /\ Taint({})
  /\ UNCHANGED <<disk, staging, memory, users, rows, missed>>

Newer(old, c) == c[1] = old[1] /\ c[2] >= old[2]

Pull(j) ==
  /\ At(j, "pull")
  /\ LET dir == jobs[j].dir IN
       \/ /\ disk[dir] \in Contents
          /\ \E c \in Contents : Newer(disk[dir], c) /\ disk' = [disk EXCEPT ![dir] = c]
          /\ Goto(j, "unload")
       \/ Done(j) /\ UNCHANGED disk                       \* git pull failed
  /\ Taint({}) /\ Continue
  /\ UNCHANGED <<staging, memory, users, rows, missed>>

Reload(j, p) ==
  /\ Serve(j) /\ disk[p] # None
  /\ jobs' = [jobs EXCEPT ![j] = NewJob("reload", p, p, "unload")]
  /\ Taint({})
  /\ UNCHANGED <<disk, staging, memory, users, rows, missed>>

(* /plugin update and uninstall name a plugin that is loaded, and work on   *)
(* the directory it was loaded from; the API on the one of that name.      *)
ChatUpdate(j, p) ==
  /\ Serve(j) /\ loaded[p] # None
  /\ jobs' = [jobs EXCEPT ![j] = NewJob("update", p, loaded[p].dir, "pull")]
  /\ Taint({})
  /\ UNCHANGED <<disk, staging, memory, users, rows, missed>>

Uninstall(j, p) ==
  /\ Serve(j)
  /\ jobs' = [jobs EXCEPT ![j] = NewJob("uninstall", p, p, "unload")]
  /\ Taint({})
  /\ UNCHANGED <<disk, staging, memory, users, rows, missed>>

ChatUninstall(j, p) ==
  /\ Serve(j) /\ loaded[p] # None
  /\ jobs' = [jobs EXCEPT ![j] = NewJob("uninstall", p, loaded[p].dir, "unload")]
  /\ Taint({})
  /\ UNCHANGED <<disk, staging, memory, users, rows, missed>>

RemoveFiles(j) ==
  /\ At(j, "rmtree")
  /\ disk' = [d \in Dirs |-> IF d = jobs[j].dir /\ d \in Plugins THEN None ELSE disk[d]]
  /\ Done(j) /\ Taint({}) /\ Continue
  /\ UNCHANGED <<staging, memory, users, rows, missed>>

(* The /plugin install command blocks the process while git clones or      *)
(* pulls; a directory of the host is loaded where it is.  Either way the   *)
(* plugin is loaded without unloading the version it replaces.             *)
ChatInstall(j, dir) ==
  /\ Serve(j) /\ disk[dir] # Partial
  /\ \E c \in Contents :
       /\ IF disk[dir] = None THEN c[1] = dir
          ELSE IF dir \in Plugins THEN Newer(disk[dir], c) ELSE c = disk[dir]
       /\ disk' = [disk EXCEPT ![dir] = c]
       /\ jobs' = [jobs EXCEPT ![j] = NewJob("install", c[1], dir, "load")]
  /\ Taint({})
  /\ UNCHANGED <<staging, memory, users, rows, missed>>
----------------------------------------------------------------------------
(* core/plugin_loader.py: load_plugin *)

(* The commands and skills replace those of the same name; the agents are  *)
(* synced for the users there are.                                         *)
Register(j, info) ==
  /\ registry' = [registry EXCEPT ![info.plugin] = @ \cup info.skills]
  /\ IF info.agents = {}
     THEN /\ loaded' = [loaded EXCEPT ![info.plugin] = info]
          /\ Done(j)
     ELSE /\ UNCHANGED loaded
          /\ jobs' = [jobs EXCEPT ![j].info = info, ![j].pc = "users"]

(* A version loaded over another one leaves skills the list never removes. *)
Replaced(info) == IF loaded[info.plugin] \in {None, info} THEN {} ELSE {info.plugin}

(* The manifest is read; a directory without one ends the request. *)
Load(j) ==
  /\ At(j, "load")
  /\ LET dir == jobs[j].dir IN
     IF disk[dir] \notin Contents
     THEN Done(j) /\ Taint({}) /\ UNCHANGED <<memory, missed>>
     ELSE LET info == PluginInfo(disk[dir], dir) IN
          /\ missed' = missed \ {info.plugin}
          /\ IF info.servers = {}
             THEN Register(j, info) /\ UNCHANGED servers
             ELSE /\ jobs' = [jobs EXCEPT ![j].info = info, ![j].todo = info.servers,
                                          ![j].pc = "connect"]
                  /\ UNCHANGED memory
          /\ Taint(Replaced(info))
  /\ Continue /\ UNCHANGED <<disk, staging, users, rows>>

(* core/mcp_client.py: a server that is connected under that name, by      *)
(* whatever plugin, is disconnected first; one that cannot be reached or   *)
(* is not on the allow list is skipped.                                    *)
Connect(j, s) ==
  /\ At(j, "connect") /\ s \in jobs[j].todo
  /\ servers' = servers \ {s}
  /\ jobs' = [jobs EXCEPT ![j].todo = @ \ {s}, ![j].pc = "connecting"]
  /\ Taint({}) /\ Continue
  /\ UNCHANGED <<disk, staging, loaded, registry, users, rows, missed>>

Connected(j) ==
  /\ At(j, "connecting")
  /\ LET job == jobs[j] IN
     /\ \E s \in job.info.servers \ job.todo : servers' \in {servers, servers \cup {s}}
     /\ IF job.todo # {} THEN Goto(j, "connect") /\ UNCHANGED <<loaded, registry>>
                         ELSE Register(j, job.info)
  /\ Taint({}) /\ Continue
  /\ UNCHANGED <<disk, staging, users, rows, missed>>

(* A definition that does not parse, or a database that does not answer,   *)
(* ends the load with the skills registered and the plugin not listed.     *)
LoadFails(j) ==
  /\ At(j, "users")
  /\ Done(j) /\ Taint({jobs[j].info.plugin}) /\ Continue
  /\ UNCHANGED <<disk, staging, memory, users, rows, missed>>

SelectUsers_M_cached(j) ==
  /\ At(j, "users")
  /\ jobs' = [jobs EXCEPT ![j].todo = FirstUsers, ![j].pc = "sync"]
  /\ Taint({}) /\ Continue
  /\ UNCHANGED <<disk, staging, memory, users, rows, missed>>
SelectUsers(j) ==
  /\ At(j, "users")
  /\ jobs' = [jobs EXCEPT ![j].todo = users, ![j].pc = "sync"]
  /\ Taint({}) /\ Continue
  /\ UNCHANGED <<disk, staging, memory, users, rows, missed>>

Loaded(j) ==
  /\ At(j, "sync") /\ jobs[j].op # "signup" /\ jobs[j].todo = {}
  /\ loaded' = [loaded EXCEPT ![jobs[j].info.plugin] = jobs[j].info]
  /\ Done(j) /\ Taint({}) /\ Continue
  /\ UNCHANGED <<disk, staging, servers, registry, users, rows, missed>>
----------------------------------------------------------------------------
(* core/agent_loader.py: sync_agent_defs_to_db, one transaction per user.  *)
(* The rows are read, rows the user owns are left out, and the others are  *)
(* written at the commit: an insert fails when the name exists by then, an *)
(* update when the row is gone, and either takes the whole user with it.   *)
SyncRead(j, u) ==
  /\ At(j, "sync") /\ jobs[j].op # "signup" /\ u \in jobs[j].todo
  /\ jobs' = [jobs EXCEPT ![j].todo = @ \ {u}, ![j].user = u, ![j].seen = rows[u], ![j].pc = "commit"]
  /\ Taint({}) /\ Continue
  /\ UNCHANGED <<disk, staging, memory, users, rows, missed>>

Namespaced(info) == {<<info.plugin, a>> : a \in info.agents}
Owned(row) == IF row = None THEN FALSE ELSE row.source = "user"
Targets_M_all(info, seen) == Namespaced(info)
Targets(info, seen) == {n \in Namespaced(info) : ~Owned(seen[n])}

(* Only fields that differ from what was read are written: of these only   *)
(* the flag is modelled, and it is switched on.                            *)
Written(seen, row) ==
  IF seen = None THEN [source |-> "plugin", enabled |-> TRUE]
  ELSE IF seen.enabled \/ row = None THEN row ELSE [row EXCEPT !.enabled = TRUE]
Conflict(seen, row) ==
  IF seen = None THEN row # None
  ELSE ~seen.enabled /\ (IF row = None THEN TRUE ELSE row.source # seen.source)

sync_agent_defs_to_db(u, info, seen) ==
  [n \in AgentNames |-> IF n \in Targets(info, seen) THEN Written(seen[n], rows[u][n])
                                                     ELSE rows[u][n]]

AfterSync(job) ==
  [job EXCEPT !.pc = IF job.op = "signup" THEN "seed" ELSE "sync", !.seen = None,
              !.user = IF job.op = "signup" THEN job.user ELSE None]

SyncCommit(j) ==
  /\ At(j, "commit")
  /\ LET job == jobs[j]  u == jobs[j].user IN
     /\ \A n \in Targets(job.info, job.seen) : ~Conflict(job.seen[n], rows[u][n])
     /\ rows' = [rows EXCEPT ![u] = sync_agent_defs_to_db(u, job.info, job.seen)]
     /\ jobs' = [jobs EXCEPT ![j] = AfterSync(jobs[j])]
  /\ Taint({}) /\ Continue
  /\ UNCHANGED <<disk, staging, memory, users, missed>>

(* The loader goes on with the next user, a signup gives up. *)
SyncFails(j) ==
  /\ At(j, "commit")
  /\ missed' = missed \cup {jobs[j].info.plugin}
               \cup (IF jobs[j].op = "signup" THEN {i.plugin : i \in jobs[j].todo} ELSE {})
  /\ jobs' = [jobs EXCEPT ![j] = IF jobs[j].op = "signup" THEN None ELSE AfterSync(jobs[j])]
  /\ Taint({}) /\ Continue
  /\ UNCHANGED <<disk, staging, memory, users, rows>>
----------------------------------------------------------------------------
(* core/plugin_loader.py: unload_plugin *)

AfterUnload(job) ==
  [job EXCEPT !.pc = IF job.op = "uninstall" THEN "rmtree" ELSE "load", !.info = None]
Unregister(j, info) ==
  /\ registry' = [registry EXCEPT ![info.plugin] = @ \ info.skills]
  /\ jobs' = [jobs EXCEPT ![j] = IF info.agents = {} THEN AfterUnload(jobs[j])
                                 ELSE [jobs[j] EXCEPT !.info = info, !.pc = "delete"]]

(* The entry is taken out at once, servers are closed one by one, ... *)
Unload(j) ==
  /\ At(j, "unload")
  /\ LET p == jobs[j].plugin  info == loaded[jobs[j].plugin] IN
     IF info = None
     THEN jobs' = [jobs EXCEPT ![j] = AfterUnload(jobs[j])] /\ UNCHANGED memory
     ELSE /\ loaded' = [loaded EXCEPT ![p] = None]
          /\ IF info.servers = {} THEN Unregister(j, info) /\ UNCHANGED servers
             ELSE \E s \in info.servers :
                    /\ servers' = servers \ {s} /\ UNCHANGED registry
                    /\ jobs' = [jobs EXCEPT ![j].info = info, ![j].pc = "closing",
                                            ![j].todo = info.servers \ {s}]
  /\ Taint({}) /\ Continue
  /\ UNCHANGED <<disk, staging, users, rows, missed>>

(* ... the skills go with the last one ... *)
Closed(j) ==
  /\ At(j, "closing")
  /\ LET job == jobs[j] IN
     \/ /\ job.todo = {} /\ Unregister(j, job.info) /\ UNCHANGED servers
     \/ \E s \in job.todo : /\ servers' = servers \ {s} /\ UNCHANGED registry
                            /\ jobs' = [jobs EXCEPT ![j].todo = @ \ {s}]
  /\ Taint({}) /\ Continue
  /\ UNCHANGED <<disk, staging, loaded, users, rows, missed>>

(* ... and the rows that carry the plugin's label. *)
WithoutPlugin_M_enabled(p) ==
  [u \in Users |-> [n \in AgentNames |->
     IF n[1] = p /\ rows[u][n] # None /\ ~Owned(rows[u][n]) /\ rows[u][n].enabled
     THEN None ELSE rows[u][n]]]
WithoutPlugin(p) ==
  [u \in Users |-> [n \in AgentNames |-> IF n[1] = p /\ ~Owned(rows[u][n]) THEN None ELSE rows[u][n]]]
DeleteRows(j) ==
  /\ At(j, "delete")
  /\ LET p == jobs[j].info.plugin IN
     \/ rows' = WithoutPlugin(p) /\ jobs' = [jobs EXCEPT ![j] = AfterUnload(jobs[j])] /\ Taint({})
     \/ UNCHANGED rows /\ jobs' = [jobs EXCEPT ![j] = AfterUnload(jobs[j])] /\ Taint({p})
  /\ Continue /\ UNCHANGED <<disk, staging, memory, users, missed>>

(* core/mcp_client.py disconnect: closing a connection may raise, and      *)
(* nothing on the way out catches it.  The entry is out of the list, so    *)
(* the skills, the rows and the servers that are left stay, and no later   *)
(* unload finds them.                                                      *)
UnloadFails(j) ==
  /\ At(j, "closing")
  /\ Done(j) /\ Taint({jobs[j].info.plugin}) /\ Continue
  /\ UNCHANGED <<disk, staging, memory, users, rows, missed>>

(* handlers/ws_router.py _handle_cancel: a chat command is a turn, and a   *)
(* stop ends it at whatever it awaits (no handler on the way catches a     *)
(* cancellation); a transaction may have been committed by then.           *)
Stopped(j) ==
  /\ \E pc \in {"connecting", "users", "sync", "commit", "closing", "delete"} : At(j, pc)
  /\ jobs[j].op \in {"install", "update", "uninstall"}
  /\ \/ UNCHANGED rows
     \/ At(j, "delete") /\ rows' = WithoutPlugin(jobs[j].info.plugin)
  /\ Done(j) /\ Taint({jobs[j].info.plugin}) /\ Continue
  /\ UNCHANGED <<disk, staging, memory, users, missed>>
----------------------------------------------------------------------------
(* routes/auth.py: register.  The account is committed, then the agents of *)
(* the plugins listed by then are read from their directories and seeded.  *)
SignUp(j, u) ==
  /\ Serve(j) /\ u \in Users \ users
  /\ users' = users \cup {u}
  /\ jobs' = [jobs EXCEPT ![j] = [NewJob("signup", None, None, "list") EXCEPT !.user = u]]
  /\ Taint({})
  /\ UNCHANGED <<disk, staging, memory, rows, missed>>

list_plugins_M_none == {loaded[p] : p \in Plugins}
list_plugins == {loaded[p] : p \in Plugins} \ {None}

ListPlugins(j) ==
  /\ At(j, "list")
  /\ jobs' = [jobs EXCEPT ![j].pc = "seed", ![j].todo = list_plugins]
  /\ Taint({}) /\ Continue
  /\ UNCHANGED <<disk, staging, memory, users, rows, missed>>

(* The agents that a listed plugin's directory has now.  (When another     *)
(* plugin's files were moved there, only names that some manifest ships.)  *)
Found(i) == IF disk[i.dir] \in Contents
            THEN {a \in Manifest[disk[i.dir]].agents : <<i.plugin, a>> \in AgentNames} ELSE {}

Seed(j) ==
  /\ At(j, "seed")
  /\ \/ jobs[j].todo = {} /\ Done(j)
     \/ \E i \in jobs[j].todo :
          LET job == [jobs[j] EXCEPT !.todo = jobs[j].todo \ {i}]
          IN jobs' = [jobs EXCEPT ![j] =
               IF Found(i) = {} THEN job
               ELSE [job EXCEPT !.info = [i EXCEPT !.agents = Found(i)],
                                !.seen = rows[jobs[j].user], !.pc = "commit"]]
  /\ Taint({}) /\ Continue
  /\ UNCHANGED <<disk, staging, memory, users, rows, missed>>
----------------------------------------------------------------------------
(* core/agent_crud.py, each one transaction.  A name is any string: a user *)
(* may take a plugin's.                                                    *)
Ready == jobs[Boot] = None
SetRow(u, n, row) == /\ rows' = [rows EXCEPT ![u][n] = row]
                     /\ UNCHANGED <<disk, staging, memory, users, jobs, served, stops, tainted>>
create_agent(u, n) == /\ Ready /\ u \in users /\ rows[u][n] = None
                      /\ SetRow(u, n, [source |-> "user", enabled |-> TRUE]) /\ UNCHANGED missed
enable_agent(u, n) == /\ Ready /\ rows[u][n] # None
                      /\ SetRow(u, n, [rows[u][n] EXCEPT !.enabled = TRUE]) /\ UNCHANGED missed
disable_agent(u, n) == /\ Ready /\ rows[u][n] # None
                       /\ SetRow(u, n, [rows[u][n] EXCEPT !.enabled = FALSE]) /\ UNCHANGED missed
(* /agents enable and disable of a row that is found by its name. *)
handle_agents_command(u, n) == enable_agent(u, n) \/ disable_agent(u, n)
delete_agent(u, n) == /\ Ready /\ rows[u][n] # None
                      /\ SetRow(u, n, None) /\ missed' = missed \cup {n[1]}
----------------------------------------------------------------------------
(* server.py: the process ends, and the next one loads every directory     *)
(* that has a manifest before it serves a request.                         *)
Started == [NewJob("boot", None, None, "boot") EXCEPT !.todo = {d \in Plugins : disk[d] \in Contents}]

Restart ==
  /\ served + stops < MaxEvents /\ stops' = stops + 1 /\ UNCHANGED served
  /\ loaded' = [p \in Plugins |-> None] /\ servers' = {} /\ registry' = [p \in Plugins |-> {}]
  /\ jobs' = [j \in DOMAIN jobs |-> IF j = Boot THEN Started ELSE None]
  /\ UNCHANGED <<disk, staging, users>>

(* Rows stay, also those of a plugin that the startup does not load again. *)
Crash ==
  /\ Restart
  /\ tainted' = tainted \cup {p \in Plugins :
       Busy(p) \/ (IF loaded[p] = None THEN FALSE ELSE loaded[p].dir \notin Plugins)}
  /\ missed' = missed \cup {p \in Plugins : Busy(p)}
  /\ UNCHANGED rows

(* A shutdown unloads every plugin, which deletes the rows of its agents,  *)
(* up to the first disconnect that raises; a delete that fails is skipped. *)
Unloaded == {p \in Plugins : IF loaded[p] = None THEN FALSE ELSE loaded[p].agents # {}}
Shutdown ==
  /\ \A j \in DOMAIN jobs : jobs[j] = None
  /\ Restart
  /\ \E gone \in SUBSET Unloaded :
       /\ rows' = [u \in Users |-> [n \in AgentNames |->
                     IF n[1] \in gone /\ ~Owned(rows[u][n]) THEN None ELSE rows[u][n]]]
       /\ tainted' = tainted \cup {p \in Unloaded \ gone : loaded[p].dir \notin Plugins}
  /\ UNCHANGED missed

BootNext ==
  /\ At(Boot, "boot")
  /\ \/ \E d \in jobs[Boot].todo :
          LET info == PluginInfo(disk[d], d) IN
          /\ \E up \in SUBSET info.servers : servers' = servers \cup up
          /\ registry' = [registry EXCEPT ![info.plugin] = @ \cup info.skills]
          /\ rows' = [u \in Users |-> IF u \in users THEN sync_agent_defs_to_db(u, info, rows[u])
                                                     ELSE rows[u]]
          /\ loaded' = [loaded EXCEPT ![info.plugin] = info]
          /\ jobs' = [jobs EXCEPT ![Boot].todo = @ \ {d}]
          /\ missed' = missed \ {info.plugin}
     \/ jobs[Boot].todo = {} /\ Done(Boot) /\ UNCHANGED <<memory, rows, missed>>
  /\ Taint({}) /\ Continue /\ UNCHANGED <<disk, staging, users>>
----------------------------------------------------------------------------
Request(j) == \/ \E p \in Plugins : \/ InstallFromPath(j, p) \/ InstallFromGit(j, p) \/ Update(j, p)
                                    \/ Reload(j, p) \/ Uninstall(j, p) \/ ChatUpdate(j, p) \/ ChatUninstall(j, p)
              \/ \E d \in Dirs : ChatInstall(j, d)
              \/ \E u \in Users : SignUp(j, u)
Work(j) == \/ \E c \in Contents : Copied(j, c) \/ EndClone(j, c)
           \/ CleanStaging(j) \/ StartClone(j) \/ CloneFails(j) \/ GiveUp(j) \/ Validate(j) \/ Rename(j)
           \/ Pull(j) \/ RemoveFiles(j) \/ Unload(j) \/ Closed(j) \/ UnloadFails(j)
           \/ DeleteRows(j) \/ Stopped(j)
           \/ Load(j) \/ Connected(j) \/ LoadFails(j) \/ SelectUsers(j) \/ Loaded(j)
           \/ SyncCommit(j) \/ SyncFails(j) \/ ListPlugins(j) \/ Seed(j)
           \/ \E s \in Servers : Connect(j, s)
           \/ \E u \in Users : SyncRead(j, u)
UserStep == \E u \in Users, n \in AgentNames :
              create_agent(u, n) \/ handle_agents_command(u, n) \/ delete_agent(u, n)

Next == \/ \E j \in Requests : Request(j) \/ Work(j)
        \/ UserStep \/ Crash \/ Shutdown \/ BootNext

Spec == Init /\ [][Next]_vars
----------------------------------------------------------------------------
TodoOf(job) == IF job.op = "signup" THEN Infos
               ELSE IF job.op = "boot" THEN Plugins
               ELSE IF job.pc \in {"sync", "commit"} THEN Users ELSE Servers
TypeOK == /\ disk \in [Dirs -> Contents \cup {None, Partial}]
          /\ staging \in Contents \cup {None, Partial}
          /\ loaded \in [Plugins -> Infos \cup {None}]
          /\ servers \subseteq UNION {i.servers : i \in Infos}
          /\ registry \in [Plugins -> SUBSET UNION {i.skills : i \in Infos}]
          /\ users \subseteq Users /\ rows \in [Users -> Table]
          /\ \A j \in DOMAIN jobs : jobs[j] # None =>
               /\ jobs[j].op \in {"install", "clone", "update", "reload", "uninstall", "signup", "boot"}
               /\ jobs[j].plugin \in Plugins \cup {None} /\ jobs[j].dir \in Dirs \cup {None}
               /\ jobs[j].todo \subseteq TodoOf(jobs[j])
               /\ jobs[j].user \in Users \cup {None} /\ jobs[j].seen \in Table \cup {None}
          /\ served + stops \in 0..MaxEvents
          /\ tainted \subseteq Plugins /\ missed \subseteq Plugins

(* What a plugin leaves in the process and in the database is what the     *)
(* list of plugins says it brought: while nothing works on it, the skills  *)
(* registered in its name are those of the version that is loaded, and a   *)
(* row that carries its label is one of its agents.  So nothing remains of *)
(* a plugin that was uninstalled or of a version that was updated, after   *)
(* any number of requests about other plugins, users and restarts.  A      *)
(* tainted plugin is left out: one that two requests worked on at a time,  *)
(* or an operation on which failed, raised in a disconnect or was stopped  *)
(* (then skills and rows do stay); its remains never reach another plugin. *)
(* (plugin_loader.py unload_plugin against load_plugin, server.py boot)    *)
NothingOutlivesItsPlugin ==
  \A p \in Plugins \ tainted : ~Busy(p) =>
    LET info == loaded[p] IN
    /\ registry[p] = IF info = None THEN {} ELSE info.skills
    /\ \A u \in Users, n \in AgentNames :
         rows[u][n] # None /\ ~Owned(rows[u][n]) /\ n[1] = p =>
           IF info = None THEN FALSE ELSE n[2] \in info.agents

(* Every user has the agents of a loaded plugin, or a row of their own by  *)
(* that name, whoever came first: the loader serves the users there are,   *)
(* a signup the plugins there are.  (plugin_loader.py _sync_plugin_agents, *)
(* routes/auth.py register)                                                *)
AgentsReachEveryUser ==
  \A p \in Plugins \ (tainted \cup missed) : ~Busy(p) /\ loaded[p] # None =>
    \A u \in users, a \in loaded[p].agents : rows[u][<<p, a>>] # None

(* The definitions a user owns are changed and deleted by the user only,   *)
(* whatever is installed, reloaded, removed or restarted meanwhile.        *)
(* (agent_loader.py:181, plugin_loader.py:167)                             *)
UserRowsAreKept ==
  [][\A u \in Users, n \in AgentNames :
       Owned(rows[u][n]) /\ rows[u][n]' # rows[u][n] => UNCHANGED <<jobs, stops>>]_vars
=============================================================================
