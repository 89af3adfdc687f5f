-------------------------- MODULE Plugins_proofs ---------------------------
(***************************************************************************)
(* Proofs about Plugins: rows that a user owns are the user's alone,       *)
(* nothing is left of a plugin that is not loaded, and the agents of one   *)
(* that is loaded reach every user.                                        *)
(***************************************************************************)
EXTENDS Plugins, TLAPS

(* The steps of a request, by what they know. *)
Clones == {"clean", "clone", "cloning", "cloned", "failed"}
Places == {"copy", "rename", "pull", "unload", "rmtree", "load"}
Loads == {"connect", "connecting", "users", "sync", "commit"}
Unloads == {"closing", "delete"}

FlowOK(job) ==
  /\ job.plugin \in Plugins
  /\ job.pc \in Clones \cup Places \cup Loads \cup Unloads
  /\ job.pc \in Clones \cup {"rename"} => job.op = "clone"
  /\ job.pc \in Places \cup Loads \cup Unloads => job.dir \in Dirs
  /\ job.pc \in {"copy", "rename"} => job.dir \in Plugins
  /\ job.pc \in Unloads \cup {"unload", "rmtree", "pull"} => job.op \in {"update", "reload", "uninstall"}
  /\ job.pc \in Clones \cup Places => job.info = None
  /\ job.pc \in Loads \cup Unloads => job.info \in Infos
  /\ job.pc \in Loads => job.info.dir = job.dir
  /\ job.pc \in Unloads => job.info.plugin = job.plugin
  /\ job.pc = "commit" => job.user \in Users /\ job.seen \in Table
  /\ job.todo \subseteq (CASE job.pc \in {"connect", "connecting", "closing"} -> Servers
                           [] job.pc \in {"sync", "commit"} -> Users
                           [] OTHER -> {})
SignupOK(job) ==
  /\ job.pc \in {"list", "seed", "commit"}
  /\ job.plugin = None /\ job.dir = None
  /\ job.user \in Users /\ job.todo \subseteq Infos
  /\ job.pc = "commit" => job.info \in Carried /\ job.seen \in Table
BootOK(job) ==
  /\ job.pc = "boot" /\ job.info = None
  /\ job.todo \subseteq {d \in Plugins : disk[d] \in Contents}
JobOK(job) ==
  CASE job.op = "boot"   -> BootOK(job)
    [] job.op = "signup" -> SignupOK(job)
    [] OTHER             -> FlowOK(job)

DiskOK ==
  /\ disk \in [Dirs -> Contents \cup {None, Partial}] /\ staging \in Contents \cup {None, Partial}
  /\ \A d \in DOMAIN External : disk[d] \in Contents /\ disk[d][1] = External[d][1]
MemoryOK ==
  /\ loaded \in [Plugins -> Infos \cup {None}]
  /\ \A p \in Plugins : loaded[p] # None => loaded[p].plugin = p
  /\ servers \subseteq Servers /\ registry \in [Plugins -> SUBSET Skills]
RowsOK == users \subseteq Users /\ rows \in [Users -> Table]
JobsOK ==
  /\ jobs \in [Requests \cup {Boot} -> Job \cup {None}]
  /\ \A j \in Requests \cup {Boot} : jobs[j] # None => JobOK(jobs[j]) /\ (jobs[j].op = "boot" <=> j = Boot)
  /\ jobs[Boot] # None => \A j \in Requests : jobs[j] = None
BoundsOK ==
  /\ served \in Nat /\ stops \in Nat /\ served + stops <= MaxEvents
  /\ tainted \subseteq Plugins /\ missed \subseteq Plugins

TypeInv == DiskOK /\ MemoryOK /\ RowsOK /\ JobsOK /\ BoundsOK

----------------------------------------------------------------------------
(* A directory that does not hold the plugin of its name is one that two   *)
(* installations wrote.                                                    *)
Proper(p, dir) ==
  \/ p = dir
  \/ dir \in DOMAIN External /\ External[dir][1] = p
  \/ {p, dir} \subseteq tainted
DiskProper == \A d \in Dirs : disk[d] \in Contents => Proper(disk[d][1], d)
LoadedProper == \A p \in Plugins : loaded[p] # None => Proper(p, loaded[p].dir)
JobProper(job) ==
  /\ job.op \in {"install", "update", "reload", "uninstall"} => Proper(job.plugin, job.dir)
  /\ job.op = "clone" => job.dir \in Plugins \cup {None}
  /\ job.op # "signup" /\ job.pc \in Loads => Proper(job.info.plugin, job.dir)
  /\ job.pc = "pull" => job.op = "update"
DirInv ==
  /\ DiskProper /\ LoadedProper
  /\ \A j \in Requests : jobs[j] # None => JobProper(jobs[j])

(* A plugin that is not tainted is worked on by one job at a time.         *)
Alone == \A p \in Plugins \ tainted : ~Overlapping(jobs, p)

(* What a plugin that nothing works on is like: the skills and rows are    *)
(* those of the version in the list, and that is the one in its directory. *)
SkillsOf(info) == IF info = None THEN {} ELSE info.skills
AgentsOf(info) == IF info = None THEN {} ELSE info.agents
Labels(p, S) == \A u \in Users, n \in AgentNames :
                  rows[u][n] # None /\ ~Owned(rows[u][n]) /\ n[1] = p => n[2] \in S
Clean(p) == registry[p] = SkillsOf(loaded[p]) /\ Labels(p, AgentsOf(loaded[p]))
InPlace(info) == disk[info.dir] \in Contents /\ info = PluginInfo(disk[info.dir], info.dir)
Fresh(p) == loaded[p] # None => InPlace(loaded[p])

(* What it is like for the job that works on it. *)
BootStage(job, p) ==
  IF p \in job.todo
  THEN loaded[p] = None /\ registry[p] = {} /\ Labels(p, Manifest[disk[p]].agents)
  ELSE Clean(p) /\ Fresh(p)
SignupStage(job, p) ==
  /\ Clean(p) /\ Fresh(p)
  /\ \A i \in job.todo : i.plugin = p => i = loaded[p]
  /\ job.pc = "commit" /\ job.info.plugin = p => loaded[p] # None /\ job.info.agents \subseteq loaded[p].agents
LoadStage(job, p) ==
  /\ loaded[p] \in {None, job.info} /\ InPlace(job.info)
  /\ IF job.pc \in {"connect", "connecting"} THEN Clean(p)
     ELSE registry[p] = job.info.skills /\ Labels(p, job.info.agents)
UnloadStage(job, p) ==
  /\ loaded[p] = None /\ Labels(p, job.info.agents)
  /\ registry[p] = IF job.pc = "closing" THEN job.info.skills ELSE {}
PlaceStage(job, p) ==
  /\ Clean(p)
  /\ CASE job.pc = "load" -> Fresh(p) \/ (Proper(p, job.dir) /\ disk[job.dir] \in Contents)
       [] job.pc = "unload" /\ job.op = "update" /\ job.plugin = p -> TRUE
       [] job.pc = "rmtree" /\ job.plugin = p -> loaded[p] = None
       [] OTHER -> Fresh(p)
Stage(job, p) ==
  CASE job.op = "boot"   -> BootStage(job, p)
    [] job.op = "signup" -> SignupStage(job, p)
    [] OTHER -> IF job.pc \in Loads /\ job.info.plugin = p THEN LoadStage(job, p)
                ELSE IF job.pc \in Unloads /\ job.info.plugin = p THEN UnloadStage(job, p)
                ELSE PlaceStage(job, p)

StagesOK ==
  \A p \in Plugins \ tainted :
    /\ ~Busy(p) => Clean(p) /\ Fresh(p)
    /\ \A j \in Requests \cup {Boot} : Concerns(jobs[j], p) => Stage(jobs[j], p)

PluginInv == DirInv /\ Alone /\ StagesOK

----------------------------------------------------------------------------
(* The constants *)

LEMMA Given ==
  /\ None \notin Plugins /\ None \notin Dirs /\ None \notin Contents /\ None \notin Users
  /\ None \notin Infos /\ None \notin Row /\ None \notin Carried /\ None \notin Table /\ None \notin Job
  /\ Partial \notin Contents /\ Partial # None
  /\ Boot \notin Requests /\ MaxEvents \in Nat /\ FirstUsers \subseteq Users
  /\ Plugins \cap DOMAIN External = {}
  BY PluginsAssumption

LEMMA ContentFacts ==
  ASSUME NEW c \in Contents
  PROVE  /\ c[1] \in Plugins /\ c[2] \in Nat
         /\ Manifest[c].servers \subseteq Servers /\ Manifest[c].skills \subseteq Skills
         /\ Manifest[c].agents \subseteq Agents
  <1>1. c \in Plugins \X Nat
    BY PluginsAssumption DEF Contents
  <1> QED
    BY <1>1 DEF Servers, Skills, Agents

LEMMA ExternalFacts ==
  ASSUME NEW d \in DOMAIN External
  PROVE  External[d] \in Contents /\ External[d][1] \in Plugins /\ d \in Dirs /\ d \notin Plugins
  <1>1. External[d] \in Contents /\ d \in Dirs /\ d \notin Plugins
    BY PluginsAssumption DEF Contents, Dirs
  <1> QED
    BY <1>1, ContentFacts

LEMMA InfoOf ==
  ASSUME NEW c \in Contents, NEW d \in Dirs
  PROVE  /\ PluginInfo(c, d) \in Infos
         /\ PluginInfo(c, d).plugin = c[1] /\ PluginInfo(c, d).dir = d
         /\ PluginInfo(c, d).servers = Manifest[c].servers
         /\ PluginInfo(c, d).skills = Manifest[c].skills
         /\ PluginInfo(c, d).agents = Manifest[c].agents
  BY DEF PluginInfo, Infos

LEMMA InfoFacts ==
  ASSUME NEW i \in Infos
  PROVE  /\ i \in Carried /\ i # None
         /\ i.plugin \in Plugins /\ i.dir \in Dirs /\ i.servers \subseteq Servers
         /\ i.skills \subseteq Skills /\ i.agents \subseteq Agents
  <1>1. PICK c \in Contents, d \in Dirs : i = PluginInfo(c, d)
    BY DEF Infos
  <1>2. /\ i.plugin \in Plugins /\ i.dir \in Dirs /\ i.servers \subseteq Servers
        /\ i.skills \subseteq Skills /\ i.agents \subseteq Agents
    BY <1>1, InfoOf, ContentFacts
  <1>3. i = [plugin |-> i.plugin, dir |-> i.dir, servers |-> i.servers, skills |-> i.skills, agents |-> i.agents]
    BY <1>1 DEF PluginInfo
  <1>4. i \in Carried
    BY <1>2, <1>3 DEF Carried
  <1> QED
    BY <1>2, <1>4, Given

(* The names of a plugin's agents are told apart by the plugin.            *)
LEMMA NameFacts ==
  ASSUME NEW n \in AgentNames
  PROVE  n[1] \in Plugins /\ n = <<n[1], n[2]>>
  <1>1. PICK c \in Contents : \E a \in Manifest[c].agents : n = <<c[1], a>>
    BY DEF AgentNames
  <1> QED
    BY <1>1, ContentFacts

LEMMA NamesOfInfo ==
  ASSUME NEW info, NEW n \in Namespaced(info)
  PROVE  n[1] = info.plugin /\ n[2] \in info.agents
  BY DEF Namespaced

LEMMA InfoNames ==
  ASSUME NEW i \in Infos
  PROVE  Namespaced(i) \subseteq AgentNames
  <1>1. PICK c \in Contents, d \in Dirs : i = PluginInfo(c, d)
    BY DEF Infos
  <1>2. i.plugin = c[1] /\ i.agents = Manifest[c].agents
    BY <1>1, InfoOf
  <1>3. ASSUME NEW a \in i.agents PROVE <<i.plugin, a>> \in AgentNames
    BY <1>2, <1>3 DEF AgentNames
  <1> QED
    BY <1>3 DEF Namespaced

----------------------------------------------------------------------------
(* The jobs *)

Steps == Clones \cup Places \cup Loads \cup Unloads \cup {"list", "seed", "boot"}
Ops == {"install", "clone", "update", "reload", "uninstall", "signup", "boot"}

LEMMA JobFields ==
  ASSUME NEW job \in Job
  PROVE  /\ job.op \in Ops /\ job.plugin \in Plugins \cup {None} /\ job.dir \in Dirs \cup {None}
         /\ job.pc \in Steps /\ job.info \in Carried \cup {None}
         /\ job.user \in Users \cup {None} /\ job.seen \in Table \cup {None}
         /\ job # None
  <1>1. PICK S \in {Servers, Users, Infos, Plugins} : job \in JobOn(S)
    BY DEF Job
  <1> QED
    BY <1>1, Given DEF JobOn, Steps, Ops, Clones, Places, Loads, Unloads

LEMMA JobMade ==
  ASSUME NEW op \in Ops, NEW p \in Plugins \cup {None}, NEW dir \in Dirs \cup {None}, NEW pc \in Steps,
         NEW todo, NEW S \in {Servers, Users, Infos, Plugins}, todo \subseteq S,
         NEW info \in Carried \cup {None}, NEW user \in Users \cup {None}, NEW seen \in Table \cup {None}
  PROVE  [op |-> op, plugin |-> p, dir |-> dir, pc |-> pc, todo |-> todo, info |-> info,
          user |-> user, seen |-> seen] \in Job
  <1> DEFINE job == [op |-> op, plugin |-> p, dir |-> dir, pc |-> pc, todo |-> todo, info |-> info,
                     user |-> user, seen |-> seen]
  <1>1. job \in JobOn(S)
    BY DEF JobOn, Steps, Ops, Clones, Places, Loads, Unloads
  <1> HIDE DEF job
  <1>2. job \in Job
    BY <1>1 DEF Job
  <1> QED
    BY <1>2 DEF job

LEMMA NewJobMade ==
  ASSUME NEW op \in Ops, NEW p \in Plugins \cup {None}, NEW dir \in Dirs \cup {None}, NEW pc \in Steps
  PROVE  /\ NewJob(op, p, dir, pc) \in Job
         /\ NewJob(op, p, dir, pc).op = op /\ NewJob(op, p, dir, pc).plugin = p
         /\ NewJob(op, p, dir, pc).dir = dir /\ NewJob(op, p, dir, pc).pc = pc
         /\ NewJob(op, p, dir, pc).todo = {} /\ NewJob(op, p, dir, pc).info = None
  <1>1. {} \subseteq Servers /\ None \in Carried \cup {None} /\ None \in Users \cup {None} /\ None \in Table \cup {None}
    OBVIOUS
  <1>2. NewJob(op, p, dir, pc) \in Job
    BY <1>1, JobMade DEF NewJob
  <1> QED
    BY <1>2 DEF NewJob

(* What a step of a request may leave of its job. *)
Fits(job) == /\ job \in Job /\ job.op # "boot"
             /\ IF job.op = "signup" THEN SignupOK(job) ELSE FlowOK(job)

LEMMA FitsOK == ASSUME NEW job, Fits(job) PROVE JobOK(job) /\ job.op # "boot" /\ job # None
  BY JobFields DEF Fits, JobOK

LEMMA JobFitsNow ==
  ASSUME JobsOK, NEW j \in Requests, jobs[j] # None
  PROVE  Fits(jobs[j]) /\ jobs[Boot] = None
  <1>1. jobs[j] \in Job /\ JobOK(jobs[j]) /\ jobs[j].op # "boot" /\ jobs[Boot] = None
    BY Given DEF JobsOK
  <1> QED
    BY <1>1 DEF Fits, JobOK

LEMMA JobChange ==
  ASSUME JobsOK, jobs[Boot] = None, NEW j \in Requests, NEW job, job = None \/ Fits(job),
         jobs' = [jobs EXCEPT ![j] = job]
  PROVE  /\ JobsOK' /\ jobs'[j] = job
         /\ \A k \in (Requests \cup {Boot}) \ {j} : jobs'[k] = jobs[k]
  <1>1. jobs \in [Requests \cup {Boot} -> Job \cup {None}] /\ j # Boot
    BY Given DEF JobsOK
  <1>2. job \in Job \cup {None}
    BY DEF Fits
  <1>3. jobs' \in [Requests \cup {Boot} -> Job \cup {None}] /\ jobs'[j] = job
        /\ \A k \in (Requests \cup {Boot}) \ {j} : jobs'[k] = jobs[k]
    BY <1>1, <1>2
  <1>4. ASSUME NEW k \in Requests, jobs'[k] # None PROVE Fits(jobs'[k])
    BY <1>3, <1>4, JobFitsNow
  <1>5. ASSUME NEW k \in Requests \cup {Boot}, jobs'[k] # None
        PROVE  (JobOK(jobs[k]))' /\ jobs'[k].op # "boot" /\ k # Boot
    <2>1. k \in Requests
      BY <1>1, <1>3, <1>5
    <2>2. Fits(jobs'[k]) /\ jobs'[k].op # "boot"
      BY <1>4, <1>5, <2>1 DEF Fits
    <2> QED
      BY <2>1, <2>2, Given DEF Fits, JobOK, SignupOK, FlowOK
  <1>6. jobs'[Boot] = None
    BY <1>1, <1>3
  <1> QED
    BY <1>3, <1>5, <1>6 DEF JobsOK

LEMMA JobEdited ==
  ASSUME NEW job \in Job, NEW dir \in Dirs \cup {None}, NEW pc \in Steps,
         NEW todo, NEW S \in {Servers, Users, Infos, Plugins}, todo \subseteq S,
         NEW info \in Carried \cup {None}, NEW user \in Users \cup {None}, NEW seen \in Table \cup {None},
         NEW new, new = [job EXCEPT !.dir = dir, !.pc = pc, !.todo = todo, !.info = info, !.user = user, !.seen = seen]
  PROVE  /\ new \in Job /\ new.op = job.op /\ new.plugin = job.plugin /\ new.dir = dir /\ new.pc = pc
         /\ new.todo = todo /\ new.info = info /\ new.user = user /\ new.seen = seen
  <1>1. PICK T \in {Servers, Users, Infos, Plugins} : job \in JobOn(T)
    BY DEF Job
  <1>2. new = [op |-> job.op, plugin |-> job.plugin, dir |-> dir, pc |-> pc, todo |-> todo, info |-> info,
               user |-> user, seen |-> seen]
    BY <1>1 DEF JobOn
  <1>3. job.op \in Ops /\ job.plugin \in Plugins \cup {None}
    BY JobFields
  <1>4. new \in JobOn(S)
    BY <1>2, <1>3 DEF JobOn, Ops, Steps, Clones, Places, Loads, Unloads
  <1>5. new \in Job
    BY <1>4 DEF Job
  <1> QED
    BY <1>2, <1>5

(* What an edit leaves out stays as it was. *)
LEMMA PcEdited ==
  ASSUME NEW job \in Job, NEW pc \in Steps, NEW new, new = [job EXCEPT !.pc = pc]
  PROVE  /\ new \in Job /\ new.op = job.op /\ new.plugin = job.plugin /\ new.dir = job.dir /\ new.pc = pc
         /\ new.todo = job.todo /\ new.info = job.info /\ new.user = job.user /\ new.seen = job.seen
  <1>1. PICK T \in {Servers, Users, Infos, Plugins} : job \in JobOn(T)
    BY DEF Job
  <1>2. new \in JobOn(T)
    BY <1>1 DEF JobOn, Steps, Clones, Places, Loads, Unloads
  <1> QED
    BY <1>1, <1>2 DEF Job, JobOn

LEMMA TodoEdited ==
  ASSUME NEW job \in Job, NEW pc \in Steps, NEW todo, NEW S \in {Servers, Users, Infos, Plugins}, todo \subseteq S,
         NEW new, new = [job EXCEPT !.todo = todo, !.pc = pc]
  PROVE  /\ new \in Job /\ new.op = job.op /\ new.plugin = job.plugin /\ new.dir = job.dir /\ new.pc = pc
         /\ new.todo = todo /\ new.info = job.info /\ new.user = job.user /\ new.seen = job.seen
  <1>1. PICK T \in {Servers, Users, Infos, Plugins} : job \in JobOn(T)
    BY DEF Job
  <1>2. new \in JobOn(S)
    BY <1>1 DEF JobOn, Steps, Clones, Places, Loads, Unloads
  <1> QED
    BY <1>1, <1>2 DEF Job, JobOn

LEMMA InfoEdited ==
  ASSUME NEW job \in Job, NEW pc \in Steps, NEW todo, NEW S \in {Servers, Users, Infos, Plugins}, todo \subseteq S,
         NEW info \in Carried \cup {None}, NEW new, new = [job EXCEPT !.info = info, !.todo = todo, !.pc = pc]
  PROVE  /\ new \in Job /\ new.op = job.op /\ new.plugin = job.plugin /\ new.dir = job.dir /\ new.pc = pc
         /\ new.todo = todo /\ new.info = info /\ new.user = job.user /\ new.seen = job.seen
  <1>1. PICK T \in {Servers, Users, Infos, Plugins} : job \in JobOn(T)
    BY DEF Job
  <1>2. new \in JobOn(S)
    BY <1>1 DEF JobOn, Steps, Clones, Places, Loads, Unloads
  <1> QED
    BY <1>1, <1>2 DEF Job, JobOn

LEMMA InfoOnlyEdited ==
  ASSUME NEW job \in Job, NEW pc \in Steps, NEW info \in Carried \cup {None},
         NEW new, new = [job EXCEPT !.info = info, !.pc = pc]
  PROVE  /\ new \in Job /\ new.op = job.op /\ new.plugin = job.plugin /\ new.dir = job.dir /\ new.pc = pc
         /\ new.todo = job.todo /\ new.info = info /\ new.user = job.user /\ new.seen = job.seen
  <1>1. PICK T \in {Servers, Users, Infos, Plugins} : job \in JobOn(T)
    BY DEF Job
  <1>2. new \in JobOn(T)
    BY <1>1 DEF JobOn, Steps, Clones, Places, Loads, Unloads
  <1> QED
    BY <1>1, <1>2 DEF Job, JobOn

----------------------------------------------------------------------------
(* The steps of a request, and the types *)

(* What a step leaves of the job it is of, and of the others. *)
Became(j, op, p, dir, pc) ==
  /\ jobs'[j] # None /\ jobs'[j].op = op /\ jobs'[j].plugin = p /\ jobs'[j].dir = dir /\ jobs'[j].pc = pc
  /\ jobs'[j].info = None
Others(j) == \A k \in (Requests \cup {Boot}) \ {j} : jobs'[k] = jobs[k]

LEMMA AtFits ==
  ASSUME TypeInv, NEW j \in Requests, NEW pc, At(j, pc)
  PROVE  /\ jobs[j] # None /\ jobs[j] \in Job /\ jobs[j].pc = pc /\ Fits(jobs[j]) /\ jobs[Boot] = None
         /\ JobsOK
  <1>1. jobs[j] # None /\ jobs[j].pc = pc
    BY DEF At
  <1>2. JobsOK
    BY DEF TypeInv
  <1> QED
    BY <1>1, <1>2, JobFitsNow DEF Fits

LEMMA FlowAt ==
  ASSUME TypeInv, NEW j \in Requests, NEW pc, pc \notin {"list", "seed", "commit"}, At(j, pc)
  PROVE  /\ jobs[j] # None /\ jobs[j] \in Job /\ jobs[j].pc = pc /\ jobs[Boot] = None
         /\ jobs[j].op \in Ops \ {"signup", "boot"} /\ FlowOK(jobs[j])
  <1>1. jobs[j] # None /\ jobs[j] \in Job /\ jobs[j].pc = pc /\ Fits(jobs[j]) /\ jobs[Boot] = None
    BY AtFits
  <1>2. jobs[j].op \in Ops
    BY <1>1, JobFields
  <1> QED
    BY <1>1, <1>2 DEF Fits, SignupOK

(* A step of a request, by what it leaves of the job.                      *)
LEMMA StepType ==
  ASSUME TypeInv, NEW j \in Requests, jobs[Boot] = None,
         NEW new, new = None \/ Fits(new), jobs' = [jobs EXCEPT ![j] = new],
         NEW F \in SUBSET Plugins, Taint(F), Continue \/ Serve(j), missed' \subseteq Plugins,
         DiskOK', MemoryOK', RowsOK'
  PROVE  TypeInv' /\ jobs'[j] = new /\ Others(j)
  <1>1. JobsOK /\ BoundsOK
    BY DEF TypeInv
  <1>2. JobsOK' /\ jobs'[j] = new /\ Others(j)
    BY <1>1, JobChange DEF Others
  <1>3. tainted' \subseteq Plugins
    BY <1>1 DEF Taint, BoundsOK
  <1>4. served' \in Nat /\ stops' \in Nat /\ served' + stops' <= MaxEvents
    BY <1>1, Given DEF BoundsOK, Continue, Serve
  <1>5. BoundsOK'
    BY <1>3, <1>4 DEF BoundsOK
  <1> QED
    BY <1>2, <1>5 DEF TypeInv

(* Most steps leave the directories, the memory or the rows alone.         *)
LEMMA Unmoved ==
  ASSUME TypeInv
  PROVE  /\ UNCHANGED <<disk, staging>> => DiskOK'
         /\ UNCHANGED memory => MemoryOK'
         /\ UNCHANGED <<users, rows>> => RowsOK'
         /\ UNCHANGED missed => missed' \subseteq Plugins
  BY DEF TypeInv, DiskOK, MemoryOK, RowsOK, BoundsOK, memory

(* A request arrives. *)
LEMMA NewFits ==
  ASSUME NEW op \in Ops \ {"signup", "boot"}, NEW p \in Plugins, NEW dir \in Dirs \cup {None},
         NEW pc \in Clones \cup Places,
         pc \in Clones \cup {"rename"} => op = "clone",
         pc \in Places => dir \in Dirs, pc \in {"copy", "rename"} => dir \in Plugins,
         pc \in {"unload", "rmtree", "pull"} => op \in {"update", "reload", "uninstall"}
  PROVE  Fits(NewJob(op, p, dir, pc))
  <1> DEFINE new == NewJob(op, p, dir, pc)
  <1>1. /\ new \in Job /\ new.op = op /\ new.plugin = p /\ new.dir = dir /\ new.pc = pc
        /\ new.todo = {} /\ new.info = None
    BY NewJobMade DEF Steps, Ops
  <1> HIDE DEF new
  <1>2. FlowOK(new)
    BY <1>1 DEF FlowOK, Clones, Places, Loads, Unloads
  <1>3. Fits(new)
    BY <1>1, <1>2 DEF Fits, Ops
  <1> QED
    BY <1>3 DEF new

LEMMA Arrives ==
  ASSUME TypeInv, NEW j \in Requests, Serve(j),
         NEW op \in Ops \ {"signup", "boot"}, NEW p \in Plugins, NEW dir \in Dirs \cup {None},
         NEW pc \in Clones \cup Places,
         pc \in Clones \cup {"rename"} => op = "clone",
         pc \in Places => dir \in Dirs, pc \in {"copy", "rename"} => dir \in Plugins,
         pc \in {"unload", "rmtree", "pull"} => op \in {"update", "reload", "uninstall"},
         jobs' = [jobs EXCEPT ![j] = NewJob(op, p, dir, pc)], Taint({}),
         UNCHANGED <<staging, memory, users, rows, missed>>, DiskOK'
  PROVE  TypeInv' /\ Others(j) /\ jobs[j] = None /\ Became(j, op, p, dir, pc)
  <1> DEFINE new == NewJob(op, p, dir, pc)
  <1>1. Fits(new)
    BY NewFits
  <1>2. /\ new # None /\ new.op = op /\ new.plugin = p /\ new.dir = dir /\ new.pc = pc /\ new.info = None
    BY NewJobMade, JobFields DEF Steps, Ops
  <1>3. jobs' = [jobs EXCEPT ![j] = new]
    OBVIOUS
  <1> HIDE DEF new
  <1>4. jobs[Boot] = None /\ jobs[j] = None
    BY DEF Serve
  <1>5. MemoryOK' /\ RowsOK' /\ missed' \subseteq Plugins
    BY Unmoved
  <1>6. TypeInv' /\ jobs'[j] = new /\ Others(j)
    BY <1>1, <1>3, <1>4, <1>5, StepType
  <1> QED
    BY <1>2, <1>4, <1>6 DEF Became

(* A request goes on to another step, with or without what it carries.     *)
LEMMA Moves ==
  ASSUME TypeInv, NEW j \in Requests, NEW old, At(j, old), NEW pc \in Clones \cup Places,
         old \in Clones \cup Places,
         pc \in Clones \cup {"rename"} => old \in Clones,
         pc \in Places => old \in Places, pc \in {"copy", "rename"} => old \in {"copy", "rename"},
         pc \in {"unload", "rmtree", "pull"} => old \in {"unload", "rmtree", "pull"},
         Goto(j, pc), NEW F \in SUBSET Plugins, Taint(F), Continue,
         UNCHANGED <<memory, users, rows, missed>>, DiskOK'
  PROVE  TypeInv' /\ Others(j) /\ Became(j, jobs[j].op, jobs[j].plugin, jobs[j].dir, pc)
  <1> DEFINE job == jobs[j]
  <1> DEFINE new == [job EXCEPT !.pc = pc]
  <1>1. job # None /\ job \in Job /\ job.pc = old /\ jobs[Boot] = None /\ FlowOK(job)
        /\ job.op \in Ops \ {"signup", "boot"} /\ JobsOK
    BY FlowAt DEF Clones, Places, TypeInv
  <1>2. jobs' = [jobs EXCEPT ![j] = new]
    BY DEF Goto
  <1> HIDE DEF job
  <1>3. /\ new \in Job /\ new.op = job.op /\ new.plugin = job.plugin /\ new.dir = job.dir /\ new.pc = pc
        /\ new.todo = job.todo /\ new.info = job.info
    BY <1>1, PcEdited DEF Steps
  <1> HIDE DEF new
  <1>4. FlowOK(new) /\ new.info = None
    BY <1>1, <1>3 DEF FlowOK, Clones, Places, Loads, Unloads
  <1>5. Fits(new)
    BY <1>1, <1>3, <1>4 DEF Fits, Ops
  <1>6. MemoryOK' /\ RowsOK' /\ missed' \subseteq Plugins
    BY Unmoved
  <1>7. TypeInv' /\ jobs'[j] = new /\ Others(j)
    BY <1>1, <1>2, <1>5, <1>6, StepType
  <1> QED
    BY <1>3, <1>4, <1>5, <1>7, FitsOK DEF job, Became

(* A request ends. *)
LEMMA Ends ==
  ASSUME TypeInv, NEW j \in Requests, NEW old, At(j, old), Done(j), NEW F \in SUBSET Plugins, Taint(F), Continue,
         missed' \subseteq Plugins, DiskOK', MemoryOK', RowsOK'
  PROVE  TypeInv' /\ Others(j) /\ jobs'[j] = None
  <1>1. jobs[Boot] = None
    BY AtFits
  <1> QED
    BY <1>1, StepType DEF Done
(* The requests that arrive. *)
LEMMA ArrivesAt ==
  ASSUME TypeInv, NEW j \in Requests, Serve(j),
         NEW op \in {"install", "update", "reload", "uninstall"}, NEW p \in Plugins, NEW dir \in Dirs,
         NEW pc \in {"copy", "pull", "unload", "load"},
         pc = "copy" => dir \in Plugins, pc \in {"pull", "unload"} => op # "install",
         jobs' = [jobs EXCEPT ![j] = NewJob(op, p, dir, pc)], Taint({}),
         UNCHANGED <<staging, memory, users, rows, missed>>, DiskOK'
  PROVE  TypeInv' /\ Others(j) /\ jobs[j] = None /\ Became(j, op, p, dir, pc)
  <1>1. /\ op \in Ops \ {"signup", "boot"} /\ pc \in Clones \cup Places
        /\ ~(pc \in Clones \cup {"rename"}) /\ (pc \in {"copy", "rename"} => dir \in Plugins)
        /\ (pc \in {"unload", "rmtree", "pull"} => op \in {"update", "reload", "uninstall"})
    BY DEF Ops, Clones, Places
  <1>2. dir \in Dirs \cup {None}
    OBVIOUS
  <1> QED
    BY <1>1, <1>2, Arrives

LEMMA InstallStep ==
  ASSUME TypeInv, NEW j \in Requests, NEW p \in Plugins, InstallFromPath(j, p)
  PROVE  TypeInv' /\ Others(j) /\ jobs[j] = None /\ Became(j, "install", p, p, "copy")
  <1>1. DiskOK'
    <2>1. p \in Dirs /\ p \notin DOMAIN External
      BY Given DEF Dirs
    <2> QED
      BY <2>1 DEF InstallFromPath, TypeInv, DiskOK
  <1>2. p \in Dirs
    BY DEF Dirs
  <1> QED
    BY <1>1, <1>2, ArrivesAt DEF InstallFromPath

LEMMA GitStep ==
  ASSUME TypeInv, NEW j \in Requests, NEW p \in Plugins, InstallFromGit(j, p)
  PROVE  /\ TypeInv' /\ Others(j) /\ jobs[j] = None
         /\ \E pc \in {"clone", "clean"} : Became(j, "clone", p, None, pc)
  <1>1. DiskOK'
    BY Unmoved DEF InstallFromGit
  <1>2. PICK pc \in {"clone", "clean"} : pc = IF staging = None THEN "clone" ELSE "clean"
    OBVIOUS
  <1>3. jobs' = [jobs EXCEPT ![j] = NewJob("clone", p, None, pc)]
    BY <1>2 DEF InstallFromGit
  <1>4. Serve(j) /\ Taint({}) /\ UNCHANGED <<staging, memory, users, rows, missed>>
    BY DEF InstallFromGit
  <1>5. "clone" \in Ops \ {"signup", "boot"} /\ pc \in Clones /\ pc \notin Places
    BY DEF Ops, Clones, Places
  <1>6. TypeInv' /\ Others(j) /\ jobs[j] = None /\ Became(j, "clone", p, None, pc)
    BY <1>1, <1>3, <1>4, <1>5, Arrives
  <1> QED
    BY <1>6

LEMMA UpdateStep ==
  ASSUME TypeInv, NEW j \in Requests, NEW p \in Plugins, Update(j, p)
  PROVE  TypeInv' /\ Others(j) /\ jobs[j] = None /\ Became(j, "update", p, p, "pull")
  <1>1. DiskOK' /\ p \in Dirs
    BY Unmoved DEF Update, Dirs
  <1> QED
    BY <1>1, ArrivesAt DEF Update

LEMMA ReloadStep ==
  ASSUME TypeInv, NEW j \in Requests, NEW p \in Plugins, Reload(j, p)
  PROVE  TypeInv' /\ Others(j) /\ jobs[j] = None /\ Became(j, "reload", p, p, "unload")
  <1>1. DiskOK' /\ p \in Dirs
    BY Unmoved DEF Reload, Dirs
  <1> QED
    BY <1>1, ArrivesAt DEF Reload

LEMMA UninstallStep ==
  ASSUME TypeInv, NEW j \in Requests, NEW p \in Plugins, Uninstall(j, p)
  PROVE  TypeInv' /\ Others(j) /\ jobs[j] = None /\ Became(j, "uninstall", p, p, "unload")
  <1>1. DiskOK' /\ p \in Dirs
    BY Unmoved DEF Uninstall, Dirs
  <1> QED
    BY <1>1, ArrivesAt DEF Uninstall

LEMMA LoadedInfo ==
  ASSUME TypeInv, NEW p \in Plugins, loaded[p] # None
  PROVE  loaded[p] \in Infos /\ loaded[p].plugin = p /\ loaded[p].dir \in Dirs
  <1>1. loaded[p] \in Infos /\ loaded[p].plugin = p
    BY DEF TypeInv, MemoryOK
  <1> QED
    BY <1>1, InfoFacts

LEMMA ChatUpdateStep ==
  ASSUME TypeInv, NEW j \in Requests, NEW p \in Plugins, ChatUpdate(j, p)
  PROVE  /\ TypeInv' /\ Others(j) /\ jobs[j] = None /\ loaded[p] # None
         /\ Became(j, "update", p, loaded[p].dir, "pull")
  <1>1. DiskOK' /\ loaded[p] # None /\ loaded[p].dir \in Dirs
    BY Unmoved, LoadedInfo DEF ChatUpdate
  <1> QED
    BY <1>1, ArrivesAt DEF ChatUpdate

LEMMA ChatUninstallStep ==
  ASSUME TypeInv, NEW j \in Requests, NEW p \in Plugins, ChatUninstall(j, p)
  PROVE  /\ TypeInv' /\ Others(j) /\ jobs[j] = None /\ loaded[p] # None
         /\ Became(j, "uninstall", p, loaded[p].dir, "unload")
  <1>1. DiskOK' /\ loaded[p] # None /\ loaded[p].dir \in Dirs
    BY Unmoved, LoadedInfo DEF ChatUninstall
  <1> QED
    BY <1>1, ArrivesAt DEF ChatUninstall

LEMMA DiskFacts ==
  ASSUME TypeInv, NEW d \in Dirs
  PROVE  /\ disk[d] \in Contents \cup {None, Partial}
         /\ d \in DOMAIN External => disk[d] \in Contents /\ disk[d][1] = External[d][1]
         /\ d \notin DOMAIN External => d \in Plugins
  BY DEF TypeInv, DiskOK, Dirs

LEMMA DiskSet ==
  ASSUME TypeInv, NEW d \in Dirs, NEW x \in Contents \cup {None, Partial},
         d \in DOMAIN External => x \in Contents /\ x[1] = External[d][1],
         disk' = [disk EXCEPT ![d] = x], staging' \in Contents \cup {None, Partial}
  PROVE  DiskOK' /\ disk'[d] = x /\ \A e \in Dirs \ {d} : disk'[e] = disk[e]
  <1>1. DOMAIN External \subseteq Dirs
    BY DEF Dirs
  <1> QED
    BY <1>1 DEF TypeInv, DiskOK

(* A directory of the host that is loaded where it is keeps its plugin.    *)
LEMMA ChatInstallStep ==
  ASSUME TypeInv, NEW j \in Requests, NEW dir \in Dirs, ChatInstall(j, dir)
  PROVE  \E c \in Contents :
           /\ disk[dir] \in Contents => c[1] = disk[dir][1]
           /\ disk[dir] \notin Contents => c[1] = dir
           /\ dir \in DOMAIN External => c = disk[dir]
           /\ disk[dir] # Partial /\ disk'[dir] = c /\ \A e \in Dirs \ {dir} : disk'[e] = disk[e]
           /\ TypeInv' /\ Others(j) /\ jobs[j] = None /\ Became(j, "install", c[1], dir, "load")
  <1>1. PICK c \in Contents :
          /\ IF disk[dir] = None THEN c[1] = dir
             ELSE IF dir \in Plugins THEN Newer(disk[dir], c) ELSE c = disk[dir]
          /\ disk' = [disk EXCEPT ![dir] = c]
          /\ jobs' = [jobs EXCEPT ![j] = NewJob("install", c[1], dir, "load")]
    BY DEF ChatInstall
  <1>2. disk[dir] # Partial /\ (dir \in DOMAIN External => dir \notin Plugins)
    BY Given DEF ChatInstall
  <1>3. /\ disk[dir] \in Contents => c[1] = disk[dir][1]
        /\ disk[dir] \notin Contents => c[1] = dir
        /\ dir \in DOMAIN External => c = disk[dir]
    BY <1>1, <1>2, DiskFacts, Given DEF Newer
  <1>4. staging' \in Contents \cup {None, Partial}
    BY DEF ChatInstall, TypeInv, DiskOK
  <1>5. DiskOK' /\ disk'[dir] = c /\ \A e \in Dirs \ {dir} : disk'[e] = disk[e]
    BY <1>1, <1>3, <1>4, DiskFacts, DiskSet
  <1>6. c[1] \in Plugins
    BY ContentFacts
  <1>7. TypeInv' /\ Others(j) /\ jobs[j] = None /\ Became(j, "install", c[1], dir, "load")
    BY <1>1, <1>5, <1>6, ArrivesAt DEF ChatInstall
  <1> QED
    BY <1>2, <1>3, <1>5, <1>7
(* The steps up to the load. *)
Goes(j, pc) == Became(j, jobs[j].op, jobs[j].plugin, jobs[j].dir, pc)
Ended(j) == jobs'[j] = None

LEMMA CopiedStep ==
  ASSUME TypeInv, NEW j \in Requests, NEW c \in Contents, Copied(j, c)
  PROVE  /\ TypeInv' /\ Others(j) /\ Goes(j, "load") /\ jobs[j].dir \in Plugins /\ c[1] = jobs[j].dir
         /\ disk'[jobs[j].dir] = (IF disk[jobs[j].dir] = Partial THEN c ELSE disk[jobs[j].dir])
         /\ \A e \in Dirs \ {jobs[j].dir} : disk'[e] = disk[e]
  <1>1. At(j, "copy") /\ Goto(j, "load") /\ Taint({}) /\ Continue /\ c[1] = jobs[j].dir
        /\ UNCHANGED <<memory, users, rows, missed>> /\ UNCHANGED staging
    BY DEF Copied
  <1>2. jobs[j].dir \in Plugins /\ jobs[j].dir \in Dirs
    BY <1>1, FlowAt DEF FlowOK, Places
  <1>3. PICK d \in Plugins : d = jobs[j].dir /\ d \in Dirs /\ d \notin DOMAIN External
    BY <1>2, Given
  <1>4. PICK x \in Contents \cup {None, Partial} : x = IF disk[d] = Partial THEN c ELSE disk[d]
    BY <1>3, DiskFacts
  <1>5. disk' = [disk EXCEPT ![d] = x]
    BY <1>3, <1>4 DEF Copied
  <1>6. staging' \in Contents \cup {None, Partial}
    BY <1>1 DEF TypeInv, DiskOK
  <1>7. DiskOK' /\ disk'[d] = x /\ \A e \in Dirs \ {d} : disk'[e] = disk[e]
    BY <1>3, <1>5, <1>6, DiskSet
  <1>8. TypeInv' /\ Others(j) /\ Goes(j, "load")
    BY <1>1, <1>7, Moves DEF Clones, Places, Goes
  <1> QED
    BY <1>1, <1>3, <1>4, <1>7, <1>8

LEMMA CleanStep ==
  ASSUME TypeInv, NEW j \in Requests, CleanStaging(j)
  PROVE  TypeInv' /\ Others(j) /\ Goes(j, "clone")
  <1>1. At(j, "clean") /\ Goto(j, "clone") /\ Taint({}) /\ Continue
        /\ UNCHANGED <<memory, users, rows, missed>> /\ UNCHANGED disk /\ staging' = None
    BY DEF CleanStaging
  <1>2. DiskOK'
    BY <1>1 DEF TypeInv, DiskOK
  <1> QED
    BY <1>1, <1>2, Moves DEF Clones, Places, Goes

LEMMA StartStep ==
  ASSUME TypeInv, NEW j \in Requests, StartClone(j)
  PROVE  TypeInv' /\ Others(j) /\ \E pc \in {"cloning", "failed"} : Goes(j, pc)
  <1>1. At(j, "clone") /\ Taint({}) /\ Continue /\ UNCHANGED <<memory, users, rows, missed>> /\ UNCHANGED disk
        /\ staging' \in {staging, Partial}
    BY DEF StartClone
  <1>2. DiskOK'
    BY <1>1 DEF TypeInv, DiskOK
  <1>3. PICK pc \in {"cloning", "failed"} : Goto(j, pc)
    BY DEF StartClone
  <1>4. TypeInv' /\ Others(j) /\ Goes(j, pc)
    BY <1>1, <1>2, <1>3, Moves DEF Clones, Places, Goes
  <1> QED
    BY <1>4

LEMMA EndStep ==
  ASSUME TypeInv, NEW j \in Requests, NEW c \in Contents, EndClone(j, c)
  PROVE  TypeInv' /\ Others(j) /\ \E pc \in {"cloned", "failed"} : Goes(j, pc)
  <1>1. At(j, "cloning") /\ Taint({}) /\ Continue /\ UNCHANGED <<memory, users, rows, missed>> /\ UNCHANGED disk
        /\ staging' \in {staging, c}
    BY DEF EndClone
  <1>2. DiskOK'
    BY <1>1 DEF TypeInv, DiskOK
  <1>3. PICK pc \in {"cloned", "failed"} : Goto(j, pc)
    BY DEF EndClone
  <1>4. TypeInv' /\ Others(j) /\ Goes(j, pc)
    BY <1>1, <1>2, <1>3, Moves DEF Clones, Places, Goes
  <1> QED
    BY <1>4

LEMMA CloneFailsStep ==
  ASSUME TypeInv, NEW j \in Requests, CloneFails(j)
  PROVE  TypeInv' /\ Others(j) /\ Goes(j, "failed")
  <1>1. At(j, "cloning") /\ Goto(j, "failed") /\ Taint({}) /\ Continue
        /\ UNCHANGED <<memory, users, rows, missed>> /\ UNCHANGED <<disk, staging>>
    BY DEF CloneFails
  <1>2. DiskOK'
    BY <1>1, Unmoved
  <1> QED
    BY <1>1, <1>2, Moves DEF Clones, Places, Goes

LEMMA GiveUpStep ==
  ASSUME TypeInv, NEW j \in Requests, GiveUp(j)
  PROVE  TypeInv' /\ Others(j) /\ Ended(j)
  <1>1. At(j, "failed") /\ Done(j) /\ Taint({}) /\ Continue
        /\ UNCHANGED memory /\ UNCHANGED <<users, rows>> /\ UNCHANGED missed /\ UNCHANGED disk /\ staging' = None
    BY DEF GiveUp
  <1>2. DiskOK'
    BY <1>1 DEF TypeInv, DiskOK
  <1>3. MemoryOK' /\ RowsOK' /\ missed' \subseteq Plugins
    BY <1>1, Unmoved
  <1> QED
    BY <1>1, <1>2, <1>3, Ends DEF Ended

LEMMA ValidateStep ==
  ASSUME TypeInv, NEW j \in Requests, Validate(j)
  PROVE  /\ TypeInv' /\ Others(j)
         /\ \/ Goes(j, "failed")
            \/ /\ staging \in Contents /\ disk[staging[1]] = None /\ staging[1] \in Plugins
               /\ Became(j, jobs[j].op, jobs[j].plugin, staging[1], "rename")
  <1>1. At(j, "cloned") /\ Taint({}) /\ Continue /\ UNCHANGED <<memory, users, rows, missed>>
        /\ UNCHANGED memory /\ UNCHANGED <<users, rows>> /\ UNCHANGED missed /\ UNCHANGED <<disk, staging>>
    BY DEF Validate
  <1>2. DiskOK'
    BY <1>1, Unmoved
  <1>3. CASE Goto(j, "failed")
    <2>1. TypeInv' /\ Others(j) /\ Goes(j, "failed")
      BY <1>1, <1>2, <1>3, Moves DEF Clones, Places, Goes
    <2> QED
      BY <2>1
  <1>4. CASE /\ staging \in Contents /\ disk[staging[1]] = None
             /\ jobs' = [jobs EXCEPT ![j].dir = staging[1], ![j].pc = "rename"]
    <2>1. PICK d \in Plugins : d = staging[1]
      BY <1>4, ContentFacts
    <2> DEFINE job == jobs[j]
    <2> DEFINE new == [job EXCEPT !.dir = d, !.pc = "rename"]
    <2>2. job # None /\ job \in Job /\ job.pc = "cloned" /\ jobs[Boot] = None /\ FlowOK(job)
          /\ job.op \in Ops \ {"signup", "boot"}
      BY <1>1, FlowAt
    <2>3. jobs' = [jobs EXCEPT ![j] = new]
      BY <1>4, <2>1
    <2> HIDE DEF job
    <2>4. job.op = "clone" /\ job.info = None /\ job.todo = {}
      BY <2>2 DEF FlowOK, Clones, Places
    <2>5. /\ new \in Job /\ new.op = job.op /\ new.plugin = job.plugin /\ new.dir = d /\ new.pc = "rename"
          /\ new.todo = job.todo /\ new.info = job.info
      <3>1. PICK T \in {Servers, Users, Infos, Plugins} : job \in JobOn(T)
        BY <2>2 DEF Job
      <3>2. new \in JobOn(T)
        BY <3>1 DEF JobOn, Dirs
      <3> QED
        BY <3>1, <3>2 DEF Job, JobOn
    <2> HIDE DEF new
    <2>6. FlowOK(new)
      BY <2>2, <2>4, <2>5 DEF FlowOK, Clones, Places, Loads, Unloads, Dirs
    <2>7. Fits(new)
      BY <2>2, <2>5, <2>6 DEF Fits, Ops
    <2>8. MemoryOK' /\ RowsOK' /\ missed' \subseteq Plugins
      BY <1>1, Unmoved
    <2>9. TypeInv' /\ jobs'[j] = new /\ Others(j)
      BY <1>1, <1>2, <2>2, <2>3, <2>7, <2>8, StepType
    <2> QED
      BY <1>4, <2>1, <2>4, <2>5, <2>7, <2>9, FitsOK DEF job, Became
  <1>5. QED
    BY <1>3, <1>4 DEF Validate, Goto

LEMMA RenameStep ==
  ASSUME TypeInv, NEW j \in Requests, Rename(j)
  PROVE  /\ TypeInv' /\ Others(j) /\ jobs[j].dir \in Plugins
         /\ \/ Ended(j) /\ UNCHANGED <<disk, staging>> /\ Taint({})
            \/ /\ staging # None /\ disk[jobs[j].dir] = None /\ Goes(j, "load")
               /\ disk'[jobs[j].dir] = staging /\ \A e \in Dirs \ {jobs[j].dir} : disk'[e] = disk[e]
               /\ Taint(IF staging \notin Contents THEN {}
                        ELSE IF staging[1] = jobs[j].dir THEN {} ELSE {jobs[j].dir, staging[1]})
  <1>1. At(j, "rename") /\ Continue /\ UNCHANGED <<memory, users, rows, missed>>
        /\ UNCHANGED memory /\ UNCHANGED <<users, rows>> /\ UNCHANGED missed
    BY DEF Rename
  <1>2. jobs[j].dir \in Plugins
    BY <1>1, FlowAt DEF FlowOK
  <1>3. PICK d \in Plugins : d = jobs[j].dir /\ d \in Dirs /\ d \notin DOMAIN External
    BY <1>2, Given DEF Dirs
  <1>4. CASE Done(j) /\ Taint({}) /\ UNCHANGED <<disk, staging>>
    <2>1. DiskOK' /\ MemoryOK' /\ RowsOK' /\ missed' \subseteq Plugins
      BY <1>1, <1>4, Unmoved
    <2>2. TypeInv' /\ Others(j) /\ Ended(j)
      BY <1>1, <1>4, <2>1, Ends DEF Ended
    <2> QED
      BY <1>2, <1>4, <2>2
  <1>5. CASE /\ staging # None /\ disk[d] = None
             /\ disk' = [disk EXCEPT ![d] = staging] /\ staging' = None /\ Goto(j, "load")
             /\ Taint(IF staging \notin Contents THEN {} ELSE IF staging[1] = d THEN {} ELSE {d, staging[1]})
    <2>1. PICK F \in SUBSET Plugins :
            F = IF staging \notin Contents THEN {} ELSE IF staging[1] = d THEN {} ELSE {d, staging[1]}
      BY ContentFacts
    <2>2. staging \in Contents \cup {None, Partial}
      BY DEF TypeInv, DiskOK
    <2>3. DiskOK' /\ disk'[d] = staging /\ \A e \in Dirs \ {d} : disk'[e] = disk[e]
      BY <1>3, <1>5, <2>2, DiskSet
    <2>4. Taint(F)
      BY <1>5, <2>1
    <2>5. TypeInv' /\ Others(j) /\ Goes(j, "load")
      BY <1>1, <1>5, <2>3, <2>4, Moves DEF Clones, Places, Goes
    <2> QED
      BY <1>3, <1>5, <2>3, <2>5
  <1>6. QED
    BY <1>3, <1>4, <1>5 DEF Rename

LEMMA PullStep ==
  ASSUME TypeInv, NEW j \in Requests, Pull(j)
  PROVE  /\ TypeInv' /\ Others(j) /\ jobs[j].dir \in Dirs
         /\ \/ Ended(j) /\ UNCHANGED disk
            \/ /\ Goes(j, "unload") /\ disk[jobs[j].dir] \in Contents /\ disk'[jobs[j].dir] \in Contents
               /\ disk'[jobs[j].dir][1] = disk[jobs[j].dir][1]
               /\ \A e \in Dirs \ {jobs[j].dir} : disk'[e] = disk[e]
  <1>1. At(j, "pull") /\ Continue /\ UNCHANGED <<memory, users, rows, missed>> /\ Taint({})
        /\ UNCHANGED memory /\ UNCHANGED <<users, rows>> /\ UNCHANGED missed /\ UNCHANGED staging
    BY DEF Pull
  <1>2. jobs[j].dir \in Dirs
    BY <1>1, FlowAt DEF FlowOK, Places
  <1>3. PICK d \in Dirs : d = jobs[j].dir
    BY <1>2
  <1>4. CASE Done(j) /\ UNCHANGED disk
    <2>1. DiskOK' /\ MemoryOK' /\ RowsOK' /\ missed' \subseteq Plugins
      BY <1>1, <1>4, Unmoved
    <2>2. TypeInv' /\ Others(j) /\ Ended(j)
      BY <1>1, <1>4, <2>1, Ends DEF Ended
    <2> QED
      BY <1>2, <1>4, <2>2
  <1>5. CASE /\ disk[d] \in Contents /\ Goto(j, "unload")
             /\ \E c \in Contents : Newer(disk[d], c) /\ disk' = [disk EXCEPT ![d] = c]
    <2>1. PICK c \in Contents : Newer(disk[d], c) /\ disk' = [disk EXCEPT ![d] = c]
      BY <1>5
    <2>2. staging' \in Contents \cup {None, Partial}
      BY <1>1 DEF TypeInv, DiskOK
    <2>3. c[1] = disk[d][1] /\ (d \in DOMAIN External => c[1] = External[d][1])
      BY <2>1, DiskFacts DEF Newer
    <2>4. DiskOK' /\ disk'[d] = c /\ \A e \in Dirs \ {d} : disk'[e] = disk[e]
      BY <1>3, <2>1, <2>2, <2>3, DiskSet
    <2>5. TypeInv' /\ Others(j) /\ Goes(j, "unload")
      BY <1>1, <1>5, <2>4, Moves DEF Clones, Places, Goes
    <2> QED
      BY <1>3, <1>5, <2>3, <2>4, <2>5
  <1>6. QED
    BY <1>3, <1>4, <1>5 DEF Pull

LEMMA RemoveStep ==
  ASSUME TypeInv, NEW j \in Requests, RemoveFiles(j)
  PROVE  /\ TypeInv' /\ Others(j) /\ Ended(j)
         /\ \A e \in Dirs : disk'[e] = IF e = jobs[j].dir /\ e \in Plugins THEN None ELSE disk[e]
  <1>1. At(j, "rmtree") /\ Done(j) /\ Continue /\ Taint({})
        /\ UNCHANGED memory /\ UNCHANGED <<users, rows>> /\ UNCHANGED missed /\ UNCHANGED staging
        /\ disk' = [d \in Dirs |-> IF d = jobs[j].dir /\ d \in Plugins THEN None ELSE disk[d]]
    BY DEF RemoveFiles
  <1>2. DiskOK'
    <2>1. \A d \in DOMAIN External : d \in Dirs /\ d \notin Plugins
      BY ExternalFacts
    <2> QED
      BY <1>1, <2>1 DEF TypeInv, DiskOK
  <1>3. MemoryOK' /\ RowsOK' /\ missed' \subseteq Plugins
    BY <1>1, Unmoved
  <1>4. TypeInv' /\ Others(j) /\ Ended(j)
    BY <1>1, <1>2, <1>3, Ends DEF Ended
  <1> QED
    BY <1>1, <1>4
(* The steps of a load. *)
Carries(j, pc, info) ==
  /\ jobs'[j] # None /\ jobs'[j].op = jobs[j].op /\ jobs'[j].plugin = jobs[j].plugin
  /\ jobs'[j].dir = jobs[j].dir /\ jobs'[j].pc = pc /\ jobs'[j].info = info

LEMMA RegisterStep ==
  ASSUME TypeInv, NEW j \in Requests, NEW pc \in {"load", "connecting"}, At(j, pc), jobs[j].todo = {},
         NEW info \in Infos, info.dir = jobs[j].dir, Register(j, info), servers' \subseteq Servers,
         NEW F \in SUBSET Plugins, Taint(F), Continue, UNCHANGED <<disk, staging>>, UNCHANGED <<users, rows>>,
         missed' \subseteq Plugins
  PROVE  /\ TypeInv' /\ Others(j)
         /\ \/ info.agents = {} /\ Ended(j)
               /\ loaded'[info.plugin] = info /\ \A p \in Plugins \ {info.plugin} : loaded'[p] = loaded[p]
            \/ info.agents # {} /\ Carries(j, "users", info) /\ UNCHANGED loaded
         /\ registry'[info.plugin] = registry[info.plugin] \cup info.skills
         /\ \A p \in Plugins \ {info.plugin} : registry'[p] = registry[p]
  <1>1. info.plugin \in Plugins /\ info \in Carried /\ info.skills \subseteq Skills /\ info.dir \in Dirs
    BY InfoFacts
  <1>2. /\ registry' \in [Plugins -> SUBSET Skills]
        /\ registry'[info.plugin] = registry[info.plugin] \cup info.skills
        /\ \A p \in Plugins \ {info.plugin} : registry'[p] = registry[p]
    BY <1>1 DEF Register, TypeInv, MemoryOK
  <1>3. DiskOK' /\ RowsOK'
    BY Unmoved
  <1>4. CASE info.agents = {} /\ loaded' = [loaded EXCEPT ![info.plugin] = info] /\ Done(j)
    <2>1. loaded'[info.plugin] = info /\ \A p \in Plugins \ {info.plugin} : loaded'[p] = loaded[p]
      BY <1>1, <1>4 DEF TypeInv, MemoryOK
    <2>2. loaded' \in [Plugins -> Infos \cup {None}]
      BY <1>1, <1>4 DEF TypeInv, MemoryOK
    <2>3. MemoryOK'
      BY <1>2, <2>1, <2>2 DEF TypeInv, MemoryOK
    <2>4. TypeInv' /\ Others(j) /\ Ended(j)
      BY <1>3, <1>4, <2>3, Ends DEF Ended
    <2> QED
      BY <1>2, <1>4, <2>1, <2>4
  <1>5. CASE /\ info.agents # {} /\ UNCHANGED loaded
             /\ jobs' = [jobs EXCEPT ![j].info = info, ![j].pc = "users"]
    <2> DEFINE job == jobs[j]
    <2> DEFINE new == [job EXCEPT !.info = info, !.pc = "users"]
    <2>1. job # None /\ job \in Job /\ jobs[Boot] = None /\ FlowOK(job) /\ job.op \in Ops \ {"signup", "boot"}
      BY FlowAt
    <2>2. jobs' = [jobs EXCEPT ![j] = new]
      BY <1>5
    <2>3. job.todo = {} /\ info.dir = job.dir /\ new = [job EXCEPT !.info = info, !.pc = "users"]
      OBVIOUS
    <2> HIDE DEF job, new
    <2>4. /\ new \in Job /\ new.op = job.op /\ new.plugin = job.plugin /\ new.dir = job.dir /\ new.pc = "users"
          /\ new.todo = job.todo /\ new.info = info
      <3>1. PICK T \in {Servers, Users, Infos, Plugins} : job \in JobOn(T)
        BY <2>1 DEF Job
      <3>2. new \in JobOn(T)
        BY <1>1, <2>3, <3>1 DEF JobOn
      <3> QED
        BY <2>3, <3>1, <3>2 DEF Job, JobOn
    <2>5. FlowOK(new)
      BY <1>1, <2>1, <2>3, <2>4 DEF FlowOK, Clones, Places, Loads, Unloads
    <2>6. Fits(new)
      BY <2>1, <2>4, <2>5 DEF Fits, Ops
    <2>7. MemoryOK'
      BY <1>2, <1>5 DEF TypeInv, MemoryOK
    <2>8. TypeInv' /\ jobs'[j] = new /\ Others(j)
      BY <1>3, <2>1, <2>2, <2>6, <2>7, StepType
    <2> QED
      BY <1>2, <1>5, <2>4, <2>6, <2>8, FitsOK DEF job, Carries
  <1>6. QED
    BY <1>4, <1>5 DEF Register

LEMMA LoadStep ==
  ASSUME TypeInv, NEW j \in Requests, Load(j)
  PROVE  /\ TypeInv' /\ Others(j) /\ jobs[j].dir \in Dirs /\ UNCHANGED <<disk, staging>> /\ UNCHANGED <<users, rows>>
         /\ \/ Ended(j) /\ disk[jobs[j].dir] \notin Contents /\ UNCHANGED <<loaded, registry, missed>> /\ Taint({})
            \/ \E info \in Infos :
                 /\ disk[jobs[j].dir] \in Contents
                 /\ info = PluginInfo(disk[jobs[j].dir], jobs[j].dir) /\ missed' = missed \ {info.plugin}
                 /\ Taint(Replaced(info))
                 /\ \/ Carries(j, "connect", info) /\ UNCHANGED <<loaded, registry>>
                    \/ /\ \/ info.agents = {} /\ Ended(j) /\ loaded'[info.plugin] = info
                             /\ \A p \in Plugins \ {info.plugin} : loaded'[p] = loaded[p]
                          \/ info.agents # {} /\ Carries(j, "users", info) /\ UNCHANGED loaded
                       /\ registry'[info.plugin] = registry[info.plugin] \cup info.skills
                       /\ \A p \in Plugins \ {info.plugin} : registry'[p] = registry[p]
  <1>1. /\ At(j, "load") /\ Continue /\ UNCHANGED <<disk, staging>> /\ UNCHANGED <<users, rows>>
    BY DEF Load
  <1> DEFINE job == jobs[j]
  <1>2. job # None /\ job \in Job /\ job.pc = "load" /\ jobs[Boot] = None /\ FlowOK(job)
        /\ job.op \in Ops \ {"signup", "boot"}
    BY <1>1, FlowAt
  <1>3. job.dir \in Dirs /\ job.todo = {}
    BY <1>2 DEF FlowOK, Clones, Places, Loads, Unloads
  <1>4. DiskOK' /\ RowsOK'
    BY <1>1, Unmoved
  <1>5. CASE disk[job.dir] \notin Contents
    <2>1. Done(j) /\ Taint({}) /\ UNCHANGED memory /\ UNCHANGED missed
      BY <1>5 DEF Load
    <2>2. MemoryOK' /\ missed' \subseteq Plugins
      BY <2>1, Unmoved
    <2>3. TypeInv' /\ Others(j) /\ Ended(j)
      BY <1>1, <1>4, <2>1, <2>2, Ends DEF Ended
    <2> QED
      BY <1>1, <1>3, <1>5, <2>1, <2>3 DEF memory
  <1>6. CASE disk[job.dir] \in Contents
    <2>1. PICK info \in Infos : info = PluginInfo(disk[job.dir], job.dir)
      BY <1>3, <1>6, InfoOf
    <2>2. info.dir = job.dir /\ info.plugin \in Plugins /\ info.servers \subseteq Servers /\ info \in Carried
      BY <1>3, <1>6, <2>1, InfoOf, InfoFacts
    <2>3. /\ missed' = missed \ {info.plugin} /\ Taint(Replaced(info))
          /\ \/ info.servers = {} /\ Register(j, info) /\ UNCHANGED servers
             \/ /\ jobs' = [jobs EXCEPT ![j].info = info, ![j].todo = info.servers, ![j].pc = "connect"]
                /\ UNCHANGED memory
      BY <1>6, <2>1 DEF Load
    <2>4. missed' \subseteq Plugins /\ Replaced(info) \in SUBSET Plugins
      BY <2>2, <2>3 DEF TypeInv, BoundsOK, Replaced
    <2>5. CASE Register(j, info) /\ UNCHANGED servers
      <3>1. servers' \subseteq Servers
        BY <2>5 DEF TypeInv, MemoryOK
      <3>2. /\ TypeInv' /\ Others(j)
            /\ \/ info.agents = {} /\ Ended(j)
                  /\ loaded'[info.plugin] = info /\ \A p \in Plugins \ {info.plugin} : loaded'[p] = loaded[p]
               \/ info.agents # {} /\ Carries(j, "users", info) /\ UNCHANGED loaded
            /\ registry'[info.plugin] = registry[info.plugin] \cup info.skills
            /\ \A p \in Plugins \ {info.plugin} : registry'[p] = registry[p]
        BY <1>1, <1>3, <2>2, <2>3, <2>4, <2>5, <3>1, RegisterStep
      <3> QED
        BY <1>1, <1>3, <1>6, <2>1, <2>3, <3>2
    <2>6. CASE /\ jobs' = [jobs EXCEPT ![j].info = info, ![j].todo = info.servers, ![j].pc = "connect"]
               /\ UNCHANGED memory
      <3> DEFINE new == [job EXCEPT !.info = info, !.todo = info.servers, !.pc = "connect"]
      <3>1. jobs' = [jobs EXCEPT ![j] = new] /\ new = [job EXCEPT !.info = info, !.todo = info.servers, !.pc = "connect"]
        BY <2>6
      <3> HIDE DEF job, new
      <3>2. /\ new \in Job /\ new.op = job.op /\ new.plugin = job.plugin /\ new.dir = job.dir /\ new.pc = "connect"
            /\ new.todo = info.servers /\ new.info = info
        <4>1. PICK T \in {Servers, Users, Infos, Plugins} : job \in JobOn(T)
          BY <1>2 DEF Job
        <4>2. new \in JobOn(Servers)
          BY <2>2, <3>1, <4>1 DEF JobOn
        <4> QED
          BY <3>1, <4>1, <4>2 DEF Job, JobOn
      <3>3. FlowOK(new)
        BY <1>2, <1>3, <2>2, <3>2 DEF FlowOK, Clones, Places, Loads, Unloads
      <3>4. Fits(new)
        BY <1>2, <3>2, <3>3 DEF Fits, Ops
      <3>5. MemoryOK'
        BY <2>6, Unmoved
      <3>6. TypeInv' /\ jobs'[j] = new /\ Others(j)
        BY <1>1, <1>2, <1>4, <2>3, <2>4, <3>1, <3>4, <3>5, StepType
      <3>7. Carries(j, "connect", info)
        BY <3>2, <3>4, <3>6, FitsOK DEF job, Carries
      <3>8. UNCHANGED <<loaded, registry>>
        BY <2>6 DEF memory
      <3> QED
        BY <1>1, <1>3, <1>6, <2>1, <2>3, <3>6, <3>7, <3>8 DEF job
    <2> QED
      BY <2>3, <2>5, <2>6
  <1> QED
    BY <1>5, <1>6

LEMMA ConnectStep ==
  ASSUME TypeInv, NEW j \in Requests, NEW s \in Servers, Connect(j, s)
  PROVE  /\ TypeInv' /\ Others(j) /\ Carries(j, "connecting", jobs[j].info)
         /\ UNCHANGED <<disk, staging, loaded, registry, users, rows, missed>>
  <1>1. /\ At(j, "connect") /\ s \in jobs[j].todo /\ servers' = servers \ {s} /\ Taint({}) /\ Continue
        /\ UNCHANGED <<disk, staging>> /\ UNCHANGED <<users, rows>> /\ UNCHANGED <<loaded, registry, missed>>
    BY DEF Connect
  <1> DEFINE job == jobs[j]
  <1> DEFINE new == [job EXCEPT !.todo = job.todo \ {s}, !.pc = "connecting"]
  <1>2. job # None /\ job \in Job /\ job.pc = "connect" /\ jobs[Boot] = None /\ FlowOK(job)
        /\ job.op \in Ops \ {"signup", "boot"}
    BY <1>1, FlowAt
  <1>3. jobs' = [jobs EXCEPT ![j] = new] /\ new = [job EXCEPT !.todo = job.todo \ {s}, !.pc = "connecting"]
    BY DEF Connect
  <1> HIDE DEF job, new
  <1>4. job.todo \ {s} \subseteq Servers
    BY <1>2 DEF FlowOK, Clones, Places, Loads, Unloads
  <1>5. /\ new \in Job /\ new.op = job.op /\ new.plugin = job.plugin /\ new.dir = job.dir /\ new.pc = "connecting"
        /\ new.todo = job.todo \ {s} /\ new.info = job.info
    <2>1. PICK T \in {Servers, Users, Infos, Plugins} : job \in JobOn(T)
      BY <1>2 DEF Job
    <2>2. new \in JobOn(Servers)
      BY <1>3, <1>4, <2>1 DEF JobOn
    <2> QED
      BY <1>3, <2>1, <2>2 DEF Job, JobOn
  <1>6. FlowOK(new)
    BY <1>2, <1>4, <1>5 DEF FlowOK, Clones, Places, Loads, Unloads
  <1>7. Fits(new)
    BY <1>2, <1>5, <1>6 DEF Fits, Ops
  <1>8. DiskOK' /\ RowsOK' /\ missed' \subseteq Plugins
    BY <1>1, Unmoved
  <1>9. MemoryOK'
    BY <1>1 DEF TypeInv, MemoryOK
  <1>10. TypeInv' /\ jobs'[j] = new /\ Others(j)
    BY <1>1, <1>2, <1>3, <1>7, <1>8, <1>9, StepType
  <1> QED
    BY <1>1, <1>5, <1>7, <1>10, FitsOK DEF job, Carries

LEMMA ConnectedStep ==
  ASSUME TypeInv, NEW j \in Requests, Connected(j)
  PROVE  /\ TypeInv' /\ Others(j) /\ UNCHANGED <<disk, staging, users, rows, missed>>
         /\ \/ Carries(j, "connect", jobs[j].info) /\ UNCHANGED <<loaded, registry>>
            \/ \E info \in Infos :
                 /\ info = jobs[j].info
                 /\ \/ info.agents = {} /\ Ended(j) /\ loaded'[info.plugin] = info
                       /\ \A p \in Plugins \ {info.plugin} : loaded'[p] = loaded[p]
                    \/ info.agents # {} /\ Carries(j, "users", info) /\ UNCHANGED loaded
                 /\ registry'[info.plugin] = registry[info.plugin] \cup info.skills
                 /\ \A p \in Plugins \ {info.plugin} : registry'[p] = registry[p]
  <1>1. /\ At(j, "connecting") /\ Taint({}) /\ Continue
        /\ UNCHANGED <<disk, staging>> /\ UNCHANGED <<users, rows>> /\ UNCHANGED missed
    BY DEF Connected
  <1> DEFINE job == jobs[j]
  <1>2. job # None /\ job \in Job /\ job.pc = "connecting" /\ jobs[Boot] = None /\ FlowOK(job)
        /\ job.op \in Ops \ {"signup", "boot"}
    BY <1>1, FlowAt
  <1>3. job.info \in Infos /\ job.info.dir = job.dir /\ job.todo \subseteq Servers
    BY <1>2 DEF FlowOK, Clones, Places, Loads, Unloads
  <1>4. PICK info \in Infos : info = job.info
    BY <1>3
  <1>5. servers' \subseteq Servers
    <2>1. \E s \in info.servers : servers' \in {servers, servers \cup {s}}
      BY <1>4 DEF Connected
    <2>2. info.servers \subseteq Servers
      BY InfoFacts
    <2> QED
      BY <2>1, <2>2 DEF TypeInv, MemoryOK
  <1>6. DiskOK' /\ RowsOK' /\ missed' \subseteq Plugins
    BY <1>1, Unmoved
  <1>7. CASE job.todo = {} /\ Register(j, info)
    <2>1. /\ TypeInv' /\ Others(j)
          /\ \/ info.agents = {} /\ Ended(j)
                /\ loaded'[info.plugin] = info /\ \A p \in Plugins \ {info.plugin} : loaded'[p] = loaded[p]
             \/ info.agents # {} /\ Carries(j, "users", info) /\ UNCHANGED loaded
          /\ registry'[info.plugin] = registry[info.plugin] \cup info.skills
          /\ \A p \in Plugins \ {info.plugin} : registry'[p] = registry[p]
      <3>1. info.dir = jobs[j].dir /\ jobs[j].todo = {}
        BY <1>3, <1>4, <1>7
      <3> QED
        BY <1>1, <1>5, <1>6, <1>7, <3>1, RegisterStep
    <2> QED
      BY <1>1, <1>4, <2>1
  <1>8. CASE Goto(j, "connect") /\ UNCHANGED <<loaded, registry>>
    <2> DEFINE new == [job EXCEPT !.pc = "connect"]
    <2>1. jobs' = [jobs EXCEPT ![j] = new]
      BY <1>8 DEF Goto
    <2> HIDE DEF job
    <2>2. /\ new \in Job /\ new.op = job.op /\ new.plugin = job.plugin /\ new.dir = job.dir /\ new.pc = "connect"
          /\ new.todo = job.todo /\ new.info = job.info
      BY <1>2, PcEdited DEF Steps, Loads
    <2> HIDE DEF new
    <2>3. FlowOK(new)
      BY <1>2, <1>3, <2>2 DEF FlowOK, Clones, Places, Loads, Unloads
    <2>4. Fits(new)
      BY <1>2, <2>2, <2>3 DEF Fits, Ops
    <2>5. MemoryOK'
      BY <1>5, <1>8 DEF TypeInv, MemoryOK
    <2>6. TypeInv' /\ jobs'[j] = new /\ Others(j)
      BY <1>1, <1>2, <1>6, <2>1, <2>4, <2>5, StepType
    <2>7. Carries(j, "connect", jobs[j].info)
      BY <2>2, <2>4, <2>6, FitsOK DEF job, Carries
    <2> QED
      BY <1>1, <1>8, <2>6, <2>7
  <1>9. QED
    BY <1>4, <1>7, <1>8 DEF Connected
LEMMA LoadFailsStep ==
  ASSUME TypeInv, NEW j \in Requests, LoadFails(j)
  PROVE  /\ TypeInv' /\ Others(j) /\ Ended(j) /\ jobs[j].info \in Infos /\ Taint({jobs[j].info.plugin})
         /\ UNCHANGED <<disk, staging>> /\ UNCHANGED memory /\ UNCHANGED <<users, rows>> /\ UNCHANGED missed
  <1>1. /\ At(j, "users") /\ Done(j) /\ Taint({jobs[j].info.plugin}) /\ Continue
        /\ UNCHANGED <<disk, staging>> /\ UNCHANGED memory /\ UNCHANGED <<users, rows>> /\ UNCHANGED missed
    BY DEF LoadFails
  <1>2. jobs[j].info \in Infos
    BY <1>1, FlowAt DEF FlowOK, Loads
  <1>3. PICK p \in Plugins : p = jobs[j].info.plugin
    BY <1>2, InfoFacts
  <1>4. DiskOK' /\ MemoryOK' /\ RowsOK' /\ missed' \subseteq Plugins
    BY <1>1, Unmoved
  <1>5. Taint({p}) /\ {p} \in SUBSET Plugins
    BY <1>1, <1>3
  <1>6. TypeInv' /\ Others(j) /\ Ended(j)
    BY <1>1, <1>4, <1>5, Ends DEF Ended
  <1> QED
    BY <1>1, <1>2, <1>6

LEMMA SelectStep ==
  ASSUME TypeInv, NEW j \in Requests, SelectUsers(j)
  PROVE  /\ TypeInv' /\ Others(j) /\ Carries(j, "sync", jobs[j].info) /\ jobs'[j].todo = users
         /\ UNCHANGED <<disk, staging>> /\ UNCHANGED memory /\ UNCHANGED <<users, rows>> /\ UNCHANGED missed
  <1>1. /\ At(j, "users") /\ Taint({}) /\ Continue
        /\ UNCHANGED <<disk, staging>> /\ UNCHANGED memory /\ UNCHANGED <<users, rows>> /\ UNCHANGED missed
    BY DEF SelectUsers
  <1> DEFINE job == jobs[j]
  <1> DEFINE new == [job EXCEPT !.todo = users, !.pc = "sync"]
  <1>2. job # None /\ job \in Job /\ job.pc = "users" /\ jobs[Boot] = None /\ FlowOK(job)
        /\ job.op \in Ops \ {"signup", "boot"}
    BY <1>1, FlowAt
  <1>3. jobs' = [jobs EXCEPT ![j] = new] /\ new = [job EXCEPT !.todo = users, !.pc = "sync"]
    BY DEF SelectUsers
  <1> HIDE DEF job, new
  <1>4. users \subseteq Users
    BY DEF TypeInv, RowsOK
  <1>5. /\ new \in Job /\ new.op = job.op /\ new.plugin = job.plugin /\ new.dir = job.dir /\ new.pc = "sync"
        /\ new.todo = users /\ new.info = job.info
    <2>1. PICK T \in {Servers, Users, Infos, Plugins} : job \in JobOn(T)
      BY <1>2 DEF Job
    <2>2. new \in JobOn(Users)
      BY <1>3, <1>4, <2>1 DEF JobOn
    <2> QED
      BY <1>3, <2>1, <2>2 DEF Job, JobOn
  <1>6. FlowOK(new)
    BY <1>2, <1>4, <1>5 DEF FlowOK, Clones, Places, Loads, Unloads
  <1>7. Fits(new)
    BY <1>2, <1>5, <1>6 DEF Fits, Ops
  <1>8. DiskOK' /\ MemoryOK' /\ RowsOK' /\ missed' \subseteq Plugins
    BY <1>1, Unmoved
  <1>9. TypeInv' /\ jobs'[j] = new /\ Others(j)
    BY <1>1, <1>2, <1>3, <1>7, <1>8, StepType
  <1> QED
    BY <1>1, <1>5, <1>7, <1>9, FitsOK DEF job, Carries

LEMMA LoadedStep ==
  ASSUME TypeInv, NEW j \in Requests, Loaded(j)
  PROVE  /\ TypeInv' /\ Others(j) /\ Ended(j)
         /\ UNCHANGED <<disk, staging, registry>> /\ UNCHANGED <<users, rows>> /\ UNCHANGED missed
         /\ \E info \in Infos :
              /\ info = jobs[j].info /\ info.plugin \in Plugins
              /\ loaded'[info.plugin] = info /\ \A p \in Plugins \ {info.plugin} : loaded'[p] = loaded[p]
  <1>1. /\ At(j, "sync") /\ jobs[j].op # "signup" /\ Done(j) /\ Taint({}) /\ Continue
        /\ UNCHANGED <<disk, staging>> /\ UNCHANGED <<servers, registry>> /\ UNCHANGED <<users, rows>> /\ UNCHANGED missed
        /\ loaded' = [loaded EXCEPT ![jobs[j].info.plugin] = jobs[j].info]
    BY DEF Loaded
  <1>2. jobs[j].info \in Infos
    BY <1>1, FlowAt DEF FlowOK, Loads
  <1>3. PICK info \in Infos : info = jobs[j].info
    BY <1>2
  <1>4. info.plugin \in Plugins
    BY InfoFacts
  <1>5. MemoryOK' /\ loaded'[info.plugin] = info /\ \A p \in Plugins \ {info.plugin} : loaded'[p] = loaded[p]
    BY <1>1, <1>3, <1>4 DEF TypeInv, MemoryOK
  <1>6. DiskOK' /\ RowsOK' /\ missed' \subseteq Plugins
    BY <1>1, Unmoved
  <1>7. TypeInv' /\ Others(j) /\ Ended(j)
    BY <1>1, <1>5, <1>6, Ends DEF Ended
  <1> QED
    BY <1>1, <1>3, <1>4, <1>5, <1>7

----------------------------------------------------------------------------
(* The agents of a user.  A row the user owns stays, and so does one that  *)
(* is not of the plugin; a row is missing only where one was read.         *)
LEMMA Synced ==
  ASSUME TypeInv, NEW u \in Users, NEW info, NEW seen \in Table,
         \A n \in Targets(info, seen) : ~Conflict(seen[n], rows[u][n])
  PROVE  /\ sync_agent_defs_to_db(u, info, seen) \in Table
         /\ \A n \in AgentNames : sync_agent_defs_to_db(u, info, seen)[n] # rows[u][n] =>
              n \in Namespaced(info) /\ ~Owned(rows[u][n])
         /\ \A n \in AgentNames \cap Namespaced(info) :
              sync_agent_defs_to_db(u, info, seen)[n] = None => seen[n] # None /\ rows[u][n] = None
  <1> DEFINE to == sync_agent_defs_to_db(u, info, seen)
  <1>1. rows[u] \in Table
    BY DEF TypeInv, RowsOK
  <1>2. ASSUME NEW n \in AgentNames
        PROVE  /\ to[n] \in Row \cup {None}
               /\ to[n] # rows[u][n] => n \in Namespaced(info) /\ ~Owned(rows[u][n])
               /\ n \in Namespaced(info) /\ to[n] = None => seen[n] # None /\ rows[u][n] = None
    <2>1. PICK old \in Row \cup {None}, row \in Row \cup {None} : old = seen[n] /\ row = rows[u][n]
      BY <1>1 DEF Table
    <2>2. None \notin Row
      BY Given
    <2>3. CASE n \in Targets(info, seen)
      <3>1. to[n] = Written(old, row) /\ ~Conflict(old, row) /\ n \in Namespaced(info) /\ ~Owned(old)
        BY <2>1, <2>3 DEF sync_agent_defs_to_db, Targets
      <3>2. CASE old = None
        <4>1. row = None /\ to[n] = [source |-> "plugin", enabled |-> TRUE]
          BY <3>1, <3>2 DEF Conflict, Written
        <4>2. to[n] \in Row /\ ~Owned(row)
          BY <4>1 DEF Row, Owned
        <4> QED
          BY <2>1, <2>2, <3>1, <4>2
      <3>3. CASE old # None /\ old.enabled
        BY <2>1, <3>1, <3>3 DEF Written
      <3>4. CASE old # None /\ ~old.enabled
        <4>1. row # None /\ row.source = old.source
          BY <3>1, <3>4 DEF Conflict
        <4>2. to[n] = [row EXCEPT !.enabled = TRUE]
          BY <3>1, <3>4, <4>1 DEF Written
        <4>3. to[n] \in Row /\ ~Owned(row)
          BY <2>1, <3>1, <3>4, <4>1, <4>2 DEF Row, Owned
        <4> QED
          BY <2>1, <2>2, <3>1, <4>3
      <3> QED
        BY <3>2, <3>3, <3>4
    <2>4. CASE n \notin Targets(info, seen)
      <3>1. to[n] = row
        BY <2>1, <2>4 DEF sync_agent_defs_to_db
      <3>2. n \in Namespaced(info) => Owned(old)
        BY <2>1, <2>4 DEF Targets
      <3> QED
        BY <2>1, <3>1, <3>2 DEF Owned
    <2> QED
      BY <2>3, <2>4
  <1>3. to \in Table
    BY <1>2 DEF sync_agent_defs_to_db, Table
  <1> QED
    BY <1>2, <1>3

(* After the transaction of a user.                                        *)
Resumes(j) == Carries(j, IF jobs[j].op = "signup" THEN "seed" ELSE "sync", jobs[j].info)
              /\ jobs'[j].todo = jobs[j].todo

LEMMA AfterSyncFits ==
  ASSUME TypeInv, NEW j \in Requests, At(j, "commit")
  PROVE  /\ Fits(AfterSync(jobs[j]))
         /\ AfterSync(jobs[j]).op = jobs[j].op /\ AfterSync(jobs[j]).plugin = jobs[j].plugin
         /\ AfterSync(jobs[j]).dir = jobs[j].dir /\ AfterSync(jobs[j]).info = jobs[j].info
         /\ AfterSync(jobs[j]).todo = jobs[j].todo
         /\ AfterSync(jobs[j]).pc = IF jobs[j].op = "signup" THEN "seed" ELSE "sync"
         /\ jobs[j].info \in Carried /\ jobs[j].user \in Users /\ jobs[j].seen \in Table
         /\ jobs[j].todo \subseteq (IF jobs[j].op = "signup" THEN Infos ELSE Users)
         /\ jobs[j].op = "signup" => AfterSync(jobs[j]).user = jobs[j].user
  <1> DEFINE job == jobs[j]
  <1> DEFINE new == AfterSync(job)
  <1>1. job \in Job /\ job.pc = "commit" /\ Fits(job) /\ JobsOK
    BY AtFits
  <1>2. IF job.op = "signup" THEN SignupOK(job) ELSE FlowOK(job)
    BY <1>1 DEF Fits
  <1>3. job.info \in Carried /\ job.user \in Users /\ job.seen \in Table
    BY <1>1, <1>2, InfoFacts DEF SignupOK, FlowOK, Loads
  <1>4. job.todo \subseteq (IF job.op = "signup" THEN Infos ELSE Users)
    BY <1>1, <1>2 DEF SignupOK, FlowOK
  <1> HIDE DEF job
  <1>5. /\ new \in Job /\ new.op = job.op /\ new.plugin = job.plugin /\ new.dir = job.dir /\ new.info = job.info
        /\ new.todo = job.todo /\ new.pc = IF job.op = "signup" THEN "seed" ELSE "sync"
        /\ job.op = "signup" => new.user = job.user
    <2>1. PICK T \in {Servers, Users, Infos, Plugins} : job \in JobOn(T)
      BY <1>1 DEF Job
    <2>2. CASE job.op = "signup"
      <3>1. new = [job EXCEPT !.pc = "seed", !.seen = None, !.user = job.user]
        BY <2>2 DEF AfterSync
      <3>2. new \in JobOn(T)
        BY <2>1, <3>1 DEF JobOn
      <3> QED
        BY <2>1, <2>2, <3>1, <3>2 DEF Job, JobOn
    <2>3. CASE job.op # "signup"
      <3>1. new = [job EXCEPT !.pc = "sync", !.seen = None, !.user = None]
        BY <2>3 DEF AfterSync
      <3>2. new \in JobOn(T)
        BY <2>1, <3>1 DEF JobOn
      <3> QED
        BY <2>1, <2>3, <3>1, <3>2 DEF Job, JobOn
    <2> QED
      BY <2>2, <2>3
  <1> HIDE DEF new
  <1>6. CASE job.op = "signup"
    <2>1. SignupOK(new)
      BY <1>2, <1>5, <1>6 DEF SignupOK
    <2>2. Fits(new)
      BY <1>5, <1>6, <2>1 DEF Fits
    <2> QED
      BY <1>3, <1>4, <1>5, <2>2 DEF job, new
  <1>7. CASE job.op # "signup"
    <2>1. FlowOK(new)
      BY <1>1, <1>2, <1>5, <1>7 DEF FlowOK, Clones, Places, Loads, Unloads
    <2>2. Fits(new)
      BY <1>1, <1>5, <1>7, <2>1 DEF Fits
    <2> QED
      BY <1>3, <1>4, <1>5, <2>2 DEF job, new
  <1> QED
    BY <1>6, <1>7

LEMMA CommitStep ==
  ASSUME TypeInv, NEW j \in Requests, SyncCommit(j)
  PROVE  /\ TypeInv' /\ Others(j) /\ Resumes(j) /\ At(j, "commit")
         /\ jobs[j].info \in Carried /\ jobs[j].user \in Users /\ jobs[j].seen \in Table
         /\ UNCHANGED <<disk, staging>> /\ UNCHANGED memory /\ UNCHANGED users /\ UNCHANGED missed
         /\ \A v \in Users, n \in AgentNames : rows'[v][n] # rows[v][n] =>
              v = jobs[j].user /\ n \in Namespaced(jobs[j].info) /\ ~Owned(rows[v][n])
         /\ \A n \in AgentNames \cap Namespaced(jobs[j].info) :
              rows'[jobs[j].user][n] = None => jobs[j].seen[n] # None /\ rows[jobs[j].user][n] = None
         /\ jobs[j].op = "signup" => jobs'[j].user = jobs[j].user
  <1>1. /\ At(j, "commit") /\ Taint({}) /\ Continue
        /\ UNCHANGED <<disk, staging>> /\ UNCHANGED memory /\ UNCHANGED users /\ UNCHANGED missed
        /\ \A n \in Targets(jobs[j].info, jobs[j].seen) : ~Conflict(jobs[j].seen[n], rows[jobs[j].user][n])
        /\ rows' = [rows EXCEPT ![jobs[j].user] = sync_agent_defs_to_db(jobs[j].user, jobs[j].info, jobs[j].seen)]
        /\ jobs' = [jobs EXCEPT ![j] = AfterSync(jobs[j])]
    BY DEF SyncCommit
  <1>2. jobs[Boot] = None
    BY <1>1, AtFits
  <1>3. /\ Fits(AfterSync(jobs[j]))
        /\ AfterSync(jobs[j]).op = jobs[j].op /\ AfterSync(jobs[j]).plugin = jobs[j].plugin
        /\ AfterSync(jobs[j]).dir = jobs[j].dir /\ AfterSync(jobs[j]).info = jobs[j].info
        /\ AfterSync(jobs[j]).todo = jobs[j].todo
        /\ AfterSync(jobs[j]).pc = IF jobs[j].op = "signup" THEN "seed" ELSE "sync"
        /\ jobs[j].info \in Carried /\ jobs[j].user \in Users /\ jobs[j].seen \in Table
        /\ jobs[j].op = "signup" => AfterSync(jobs[j]).user = jobs[j].user
    BY <1>1, AfterSyncFits
  <1>4. PICK u \in Users, seen \in Table : u = jobs[j].user /\ seen = jobs[j].seen
    BY <1>3
  <1> DEFINE to == sync_agent_defs_to_db(u, jobs[j].info, seen)
  <1>5. /\ to \in Table
        /\ \A n \in AgentNames : to[n] # rows[u][n] => n \in Namespaced(jobs[j].info) /\ ~Owned(rows[u][n])
        /\ \A n \in AgentNames \cap Namespaced(jobs[j].info) : to[n] = None => seen[n] # None /\ rows[u][n] = None
    BY <1>1, <1>4, Synced
  <1>6. rows' = [rows EXCEPT ![u] = to]
    BY <1>1, <1>4
  <1> HIDE DEF to
  <1>7. RowsOK' /\ rows'[u] = to /\ \A v \in Users \ {u} : rows'[v] = rows[v]
    BY <1>1, <1>5, <1>6 DEF TypeInv, RowsOK
  <1>8. DiskOK' /\ MemoryOK' /\ missed' \subseteq Plugins
    BY <1>1, Unmoved
  <1>9. TypeInv' /\ jobs'[j] = AfterSync(jobs[j]) /\ Others(j)
    BY <1>1, <1>2, <1>3, <1>7, <1>8, StepType
  <1>10. Resumes(j)
    BY <1>3, <1>9, FitsOK DEF Resumes, Carries
  <1>11. \A v \in Users, n \in AgentNames : rows'[v][n] # rows[v][n] =>
           v = jobs[j].user /\ n \in Namespaced(jobs[j].info) /\ ~Owned(rows[v][n])
    BY <1>4, <1>5, <1>7
  <1>12. \A n \in AgentNames \cap Namespaced(jobs[j].info) :
           rows'[jobs[j].user][n] = None => jobs[j].seen[n] # None /\ rows[jobs[j].user][n] = None
    BY <1>4, <1>5, <1>7
  <1> QED
    BY <1>1, <1>3, <1>9, <1>10, <1>11, <1>12

LEMMA SyncFailsStep ==
  ASSUME TypeInv, NEW j \in Requests, SyncFails(j)
  PROVE  /\ TypeInv' /\ Others(j) /\ At(j, "commit")
         /\ \/ jobs[j].op = "signup" /\ Ended(j)
            \/ jobs[j].op # "signup" /\ Resumes(j)
         /\ UNCHANGED <<disk, staging>> /\ UNCHANGED memory /\ UNCHANGED <<users, rows>>
         /\ missed' = missed \cup {jobs[j].info.plugin}
                      \cup (IF jobs[j].op = "signup" THEN {i.plugin : i \in jobs[j].todo} ELSE {})
  <1>1. /\ At(j, "commit") /\ Taint({}) /\ Continue
        /\ UNCHANGED <<disk, staging>> /\ UNCHANGED memory /\ UNCHANGED <<users, rows>>
        /\ missed' = missed \cup {jobs[j].info.plugin}
                     \cup (IF jobs[j].op = "signup" THEN {i.plugin : i \in jobs[j].todo} ELSE {})
        /\ jobs' = [jobs EXCEPT ![j] = IF jobs[j].op = "signup" THEN None ELSE AfterSync(jobs[j])]
    BY DEF SyncFails
  <1>2. jobs[Boot] = None
    BY <1>1, AtFits
  <1>3. /\ Fits(AfterSync(jobs[j]))
        /\ AfterSync(jobs[j]).op = jobs[j].op /\ AfterSync(jobs[j]).plugin = jobs[j].plugin
        /\ AfterSync(jobs[j]).dir = jobs[j].dir /\ AfterSync(jobs[j]).info = jobs[j].info
        /\ AfterSync(jobs[j]).todo = jobs[j].todo
        /\ AfterSync(jobs[j]).pc = IF jobs[j].op = "signup" THEN "seed" ELSE "sync"
        /\ jobs[j].info \in Carried
        /\ jobs[j].todo \subseteq (IF jobs[j].op = "signup" THEN Infos ELSE Users)
    BY <1>1, AfterSyncFits
  <1>4. missed' \subseteq Plugins
    <2>1. jobs[j].info.plugin \in Plugins
      BY <1>3 DEF Carried
    <2>2. jobs[j].op = "signup" => {i.plugin : i \in jobs[j].todo} \subseteq Plugins
      BY <1>3, InfoFacts
    <2> QED
      BY <1>1, <2>1, <2>2 DEF TypeInv, BoundsOK
  <1>5. DiskOK' /\ MemoryOK' /\ RowsOK'
    BY <1>1, Unmoved
  <1>6. CASE jobs[j].op = "signup"
    <2>1. jobs' = [jobs EXCEPT ![j] = None]
      BY <1>1, <1>6
    <2>2. TypeInv' /\ Others(j) /\ Ended(j)
      BY <1>1, <1>2, <1>4, <1>5, <2>1, StepType DEF Ended
    <2> QED
      BY <1>1, <1>6, <2>2
  <1>7. CASE jobs[j].op # "signup"
    <2>1. PICK new : new = AfterSync(jobs[j]) /\ Fits(new) /\ jobs' = [jobs EXCEPT ![j] = new]
      BY <1>1, <1>3, <1>7
    <2>2. TypeInv' /\ jobs'[j] = AfterSync(jobs[j]) /\ Others(j)
      BY <1>1, <1>2, <1>4, <1>5, <2>1, StepType
    <2>3. Resumes(j)
      BY <1>3, <2>2, FitsOK DEF Resumes, Carries
    <2> QED
      BY <1>1, <1>7, <2>2, <2>3
  <1> QED
    BY <1>6, <1>7

LEMMA ReadStep ==
  ASSUME TypeInv, NEW j \in Requests, NEW u \in Users, SyncRead(j, u)
  PROVE  /\ TypeInv' /\ Others(j) /\ Carries(j, "commit", jobs[j].info) /\ jobs[j].op # "signup"
         /\ u \in jobs[j].todo /\ jobs'[j].todo = jobs[j].todo \ {u} /\ jobs'[j].user = u /\ jobs'[j].seen = rows[u]
         /\ UNCHANGED <<disk, staging>> /\ UNCHANGED memory /\ UNCHANGED <<users, rows>> /\ UNCHANGED missed
  <1>1. /\ At(j, "sync") /\ jobs[j].op # "signup" /\ u \in jobs[j].todo /\ Taint({}) /\ Continue
        /\ UNCHANGED <<disk, staging>> /\ UNCHANGED memory /\ UNCHANGED <<users, rows>> /\ UNCHANGED missed
    BY DEF SyncRead
  <1> DEFINE job == jobs[j]
  <1> DEFINE new == [job EXCEPT !.todo = job.todo \ {u}, !.user = u, !.seen = rows[u], !.pc = "commit"]
  <1>2. job # None /\ job \in Job /\ job.pc = "sync" /\ jobs[Boot] = None /\ FlowOK(job)
        /\ job.op \in Ops \ {"signup", "boot"}
    BY <1>1, FlowAt
  <1>3. jobs' = [jobs EXCEPT ![j] = new]
        /\ new = [job EXCEPT !.todo = job.todo \ {u}, !.user = u, !.seen = rows[u], !.pc = "commit"]
    BY DEF SyncRead
  <1> HIDE DEF job, new
  <1>4. rows[u] \in Table /\ job.todo \subseteq Users
    BY <1>2 DEF TypeInv, RowsOK, FlowOK
  <1>5. /\ new \in Job /\ new.op = job.op /\ new.plugin = job.plugin /\ new.dir = job.dir /\ new.pc = "commit"
        /\ new.todo = job.todo \ {u} /\ new.info = job.info /\ new.user = u /\ new.seen = rows[u]
    <2>1. PICK T \in {Servers, Users, Infos, Plugins} : job \in JobOn(T)
      BY <1>2 DEF Job
    <2>2. new \in JobOn(Users)
      BY <1>3, <1>4, <2>1 DEF JobOn
    <2> QED
      BY <1>3, <2>1, <2>2 DEF Job, JobOn
  <1>6. FlowOK(new)
    BY <1>2, <1>4, <1>5 DEF FlowOK, Clones, Places, Loads, Unloads
  <1>7. Fits(new)
    BY <1>2, <1>5, <1>6 DEF Fits, Ops
  <1>8. DiskOK' /\ MemoryOK' /\ RowsOK' /\ missed' \subseteq Plugins
    BY <1>1, Unmoved
  <1>9. TypeInv' /\ jobs'[j] = new /\ Others(j)
    BY <1>1, <1>2, <1>3, <1>7, <1>8, StepType
  <1> QED
    BY <1>1, <1>5, <1>7, <1>9, FitsOK DEF job, Carries
----------------------------------------------------------------------------
(* The steps of an unload, and of a signup. *)
Gone(j) == Became(j, jobs[j].op, jobs[j].plugin, jobs[j].dir, IF jobs[j].op = "uninstall" THEN "rmtree" ELSE "load")

LEMMA AfterUnloadFits ==
  ASSUME TypeInv, NEW j \in Requests, NEW pc \in {"unload", "closing", "delete"}, At(j, pc),
         pc # "closing" \/ jobs[j].todo = {}
  PROVE  /\ Fits(AfterUnload(jobs[j]))
         /\ AfterUnload(jobs[j]).op = jobs[j].op /\ AfterUnload(jobs[j]).plugin = jobs[j].plugin
         /\ AfterUnload(jobs[j]).dir = jobs[j].dir /\ AfterUnload(jobs[j]).info = None
         /\ AfterUnload(jobs[j]).pc = IF jobs[j].op = "uninstall" THEN "rmtree" ELSE "load"
         /\ jobs[j].plugin \in Plugins /\ jobs[j].dir \in Dirs
         /\ pc # "unload" => jobs[j].info \in Infos /\ jobs[j].info.plugin = jobs[j].plugin
  <1> DEFINE job == jobs[j]
  <1> DEFINE new == AfterUnload(job)
  <1>1. job \in Job /\ job.pc = pc /\ FlowOK(job) /\ job.op \in Ops \ {"signup", "boot"}
    BY FlowAt
  <1>2. pc # "closing" \/ job.todo = {}
    OBVIOUS
  <1> HIDE DEF job
  <1>3. /\ job.plugin \in Plugins /\ job.dir \in Dirs /\ job.todo = {} /\ job.op \in {"update", "reload", "uninstall"}
        /\ pc # "unload" => job.info \in Infos /\ job.info.plugin = job.plugin
    BY <1>1, <1>2 DEF FlowOK, Clones, Places, Loads, Unloads
  <1>4. /\ new \in Job /\ new.op = job.op /\ new.plugin = job.plugin /\ new.dir = job.dir /\ new.info = None
        /\ new.todo = job.todo /\ new.pc = IF job.op = "uninstall" THEN "rmtree" ELSE "load"
    <2>1. PICK T \in {Servers, Users, Infos, Plugins} : job \in JobOn(T)
      BY <1>1 DEF Job
    <2>2. CASE job.op = "uninstall"
      <3>1. new = [job EXCEPT !.pc = "rmtree", !.info = None]
        BY <2>2 DEF AfterUnload
      <3>2. new \in JobOn(T)
        BY <2>1, <3>1 DEF JobOn
      <3> QED
        BY <2>1, <2>2, <3>1, <3>2 DEF Job, JobOn
    <2>3. CASE job.op # "uninstall"
      <3>1. new = [job EXCEPT !.pc = "load", !.info = None]
        BY <2>3 DEF AfterUnload
      <3>2. new \in JobOn(T)
        BY <2>1, <3>1 DEF JobOn
      <3> QED
        BY <2>1, <2>3, <3>1, <3>2 DEF Job, JobOn
    <2> QED
      BY <2>2, <2>3
  <1> HIDE DEF new
  <1>5. FlowOK(new)
    BY <1>3, <1>4 DEF FlowOK, Clones, Places, Loads, Unloads
  <1>6. Fits(new)
    BY <1>1, <1>4, <1>5 DEF Fits
  <1> QED
    BY <1>3, <1>4, <1>6 DEF job, new

LEMMA UnregisterStep ==
  ASSUME TypeInv, NEW j \in Requests, NEW pc \in {"unload", "closing"}, At(j, pc), jobs[j].todo = {},
         NEW info \in Infos, info.plugin = jobs[j].plugin, Unregister(j, info),
         servers' \subseteq Servers,
         loaded' \in [Plugins -> Infos \cup {None}], \A p \in Plugins : loaded'[p] # None => loaded'[p].plugin = p,
         Taint({}), Continue, UNCHANGED <<disk, staging>>, UNCHANGED <<users, rows>>, UNCHANGED missed
  PROVE  /\ TypeInv' /\ Others(j)
         /\ \/ info.agents = {} /\ Gone(j)
            \/ info.agents # {} /\ Carries(j, "delete", info)
         /\ registry'[info.plugin] = registry[info.plugin] \ info.skills
         /\ \A p \in Plugins \ {info.plugin} : registry'[p] = registry[p]
  <1>1. info.plugin \in Plugins /\ info \in Carried
    BY InfoFacts
  <1>2. /\ registry' \in [Plugins -> SUBSET Skills]
        /\ registry'[info.plugin] = registry[info.plugin] \ info.skills
        /\ \A p \in Plugins \ {info.plugin} : registry'[p] = registry[p]
    BY <1>1 DEF Unregister, TypeInv, MemoryOK
  <1>3. DiskOK' /\ RowsOK' /\ missed' \subseteq Plugins
    BY Unmoved
  <1>4. MemoryOK'
    BY <1>2 DEF MemoryOK
  <1> DEFINE job == jobs[j]
  <1>5. job # None /\ job \in Job /\ jobs[Boot] = None /\ FlowOK(job) /\ job.op \in Ops \ {"signup", "boot"} /\ job.pc = pc
    BY FlowAt
  <1>6. CASE info.agents = {}
    <2>1. PICK new : new = AfterUnload(jobs[j])
      OBVIOUS
    <2>2. /\ Fits(new) /\ new.op = jobs[j].op /\ new.plugin = jobs[j].plugin /\ new.dir = jobs[j].dir
          /\ new.info = None /\ new.pc = IF jobs[j].op = "uninstall" THEN "rmtree" ELSE "load"
      BY <2>1, AfterUnloadFits
    <2>3. jobs' = [jobs EXCEPT ![j] = new]
      BY <1>6, <2>1 DEF Unregister
    <2>4. TypeInv' /\ jobs'[j] = new /\ Others(j)
      BY <1>3, <1>4, <1>5, <2>2, <2>3, StepType
    <2>5. Gone(j)
      BY <2>2, <2>4, FitsOK DEF Gone, Became
    <2> QED
      BY <1>2, <1>6, <2>4, <2>5
  <1>7. CASE info.agents # {}
    <2> DEFINE new == [job EXCEPT !.info = info, !.pc = "delete"]
    <2>1. /\ jobs' = [jobs EXCEPT ![j] = new] /\ new = [job EXCEPT !.info = info, !.pc = "delete"]
          /\ job.todo = {} /\ info.plugin = job.plugin
      BY <1>7 DEF Unregister
    <2> HIDE DEF job, new
    <2>2. /\ new \in Job /\ new.op = job.op /\ new.plugin = job.plugin /\ new.dir = job.dir /\ new.pc = "delete"
          /\ new.todo = job.todo /\ new.info = info
      <3>1. PICK T \in {Servers, Users, Infos, Plugins} : job \in JobOn(T)
        BY <1>5 DEF Job
      <3>2. new \in JobOn(T)
        BY <1>1, <2>1, <3>1 DEF JobOn
      <3> QED
        BY <2>1, <3>1, <3>2 DEF Job, JobOn
    <2>3. FlowOK(new)
      BY <1>5, <2>1, <2>2 DEF FlowOK, Clones, Places, Loads, Unloads
    <2>4. Fits(new)
      BY <1>5, <2>2, <2>3 DEF Fits
    <2>5. TypeInv' /\ jobs'[j] = new /\ Others(j)
      BY <1>3, <1>4, <1>5, <2>1, <2>4, StepType
    <2> QED
      BY <1>2, <1>7, <2>2, <2>4, <2>5, FitsOK DEF job, Carries
  <1> QED
    BY <1>6, <1>7

LEMMA UnloadStep ==
  ASSUME TypeInv, NEW j \in Requests, Unload(j)
  PROVE  /\ TypeInv' /\ Others(j) /\ UNCHANGED <<disk, staging>> /\ UNCHANGED <<users, rows>> /\ UNCHANGED missed
         /\ jobs[j].plugin \in Plugins
         /\ \/ loaded[jobs[j].plugin] = None /\ Gone(j) /\ UNCHANGED <<loaded, registry>>
            \/ \E info \in Infos :
                 /\ info = loaded[jobs[j].plugin] /\ info.plugin = jobs[j].plugin
                 /\ loaded'[info.plugin] = None /\ \A p \in Plugins \ {info.plugin} : loaded'[p] = loaded[p]
                 /\ \/ Carries(j, "closing", info) /\ UNCHANGED registry
                    \/ /\ \/ info.agents = {} /\ Gone(j)
                          \/ info.agents # {} /\ Carries(j, "delete", info)
                       /\ registry'[info.plugin] = registry[info.plugin] \ info.skills
                       /\ \A p \in Plugins \ {info.plugin} : registry'[p] = registry[p]
  <1>1. /\ At(j, "unload") /\ Taint({}) /\ Continue
        /\ UNCHANGED <<disk, staging>> /\ UNCHANGED <<users, rows>> /\ UNCHANGED missed
    BY DEF Unload
  <1> DEFINE job == jobs[j]
  <1>2. job # None /\ job \in Job /\ job.pc = "unload" /\ jobs[Boot] = None /\ FlowOK(job)
        /\ job.op \in Ops \ {"signup", "boot"}
    BY <1>1, FlowAt
  <1>3. job.plugin \in Plugins /\ job.todo = {} /\ job.dir \in Dirs /\ job.op \in {"update", "reload", "uninstall"}
    BY <1>2 DEF FlowOK, Clones, Places, Loads, Unloads
  <1>4. DiskOK' /\ RowsOK' /\ missed' \subseteq Plugins
    BY <1>1, Unmoved
  <1>5. CASE loaded[job.plugin] = None
    <2>1. PICK new : new = AfterUnload(jobs[j])
      OBVIOUS
    <2>2. /\ Fits(new) /\ new.op = jobs[j].op /\ new.plugin = jobs[j].plugin /\ new.dir = jobs[j].dir
          /\ new.info = None /\ new.pc = IF jobs[j].op = "uninstall" THEN "rmtree" ELSE "load"
      BY <1>1, <2>1, AfterUnloadFits
    <2>3. jobs' = [jobs EXCEPT ![j] = new] /\ UNCHANGED memory
      BY <1>5, <2>1 DEF Unload
    <2>4. MemoryOK'
      BY <2>3, Unmoved
    <2>5. TypeInv' /\ jobs'[j] = new /\ Others(j)
      BY <1>1, <1>2, <1>4, <2>2, <2>3, <2>4, StepType
    <2>6. Gone(j) /\ UNCHANGED <<loaded, registry>>
      BY <2>2, <2>3, <2>5, FitsOK DEF Gone, Became, memory
    <2> QED
      BY <1>1, <1>3, <1>5, <2>5, <2>6
  <1>6. CASE loaded[job.plugin] # None
    <2>1. PICK info \in Infos : info = loaded[job.plugin] /\ info.plugin = job.plugin /\ info # None
      BY <1>3, <1>6, LoadedInfo
    <2>2. /\ loaded' = [loaded EXCEPT ![job.plugin] = None]
          /\ \/ Unregister(j, info) /\ UNCHANGED servers
             \/ \E s \in info.servers :
                  /\ servers' = servers \ {s} /\ UNCHANGED registry
                  /\ jobs' = [jobs EXCEPT ![j].info = info, ![j].pc = "closing", ![j].todo = info.servers \ {s}]
      BY <2>1 DEF Unload
    <2>3. /\ loaded' \in [Plugins -> Infos \cup {None}] /\ \A p \in Plugins : loaded'[p] # None => loaded'[p].plugin = p
          /\ loaded'[info.plugin] = None /\ \A p \in Plugins \ {info.plugin} : loaded'[p] = loaded[p]
      BY <1>3, <2>1, <2>2 DEF TypeInv, MemoryOK
    <2>4. servers' \subseteq Servers
      BY <2>2 DEF TypeInv, MemoryOK
    <2>5. CASE Unregister(j, info)
      <3>1. jobs[j].todo = {} /\ info.plugin = jobs[j].plugin
        BY <1>3, <2>1
      <3>2. /\ TypeInv' /\ Others(j)
            /\ \/ info.agents = {} /\ Gone(j)
               \/ info.agents # {} /\ Carries(j, "delete", info)
            /\ registry'[info.plugin] = registry[info.plugin] \ info.skills
            /\ \A p \in Plugins \ {info.plugin} : registry'[p] = registry[p]
        BY <1>1, <2>3, <2>4, <2>5, <3>1, UnregisterStep
      <3> QED
        BY <1>1, <1>3, <2>1, <2>3, <3>2
    <2>6. CASE \E s \in info.servers :
                 /\ servers' = servers \ {s} /\ UNCHANGED registry
                 /\ jobs' = [jobs EXCEPT ![j].info = info, ![j].pc = "closing", ![j].todo = info.servers \ {s}]
      <3>1. PICK s \in info.servers :
              /\ UNCHANGED registry
              /\ jobs' = [jobs EXCEPT ![j].info = info, ![j].pc = "closing", ![j].todo = info.servers \ {s}]
        BY <2>6
      <3> DEFINE new == [job EXCEPT !.info = info, !.pc = "closing", !.todo = info.servers \ {s}]
      <3>2. jobs' = [jobs EXCEPT ![j] = new] /\ new = [job EXCEPT !.info = info, !.pc = "closing", !.todo = info.servers \ {s}]
        BY <3>1
      <3> HIDE DEF job, new
      <3>3. info.servers \ {s} \subseteq Servers /\ info \in Carried
        BY InfoFacts
      <3>4. /\ new \in Job /\ new.op = job.op /\ new.plugin = job.plugin /\ new.dir = job.dir /\ new.pc = "closing"
            /\ new.todo = info.servers \ {s} /\ new.info = info
        <4>1. PICK T \in {Servers, Users, Infos, Plugins} : job \in JobOn(T)
          BY <1>2 DEF Job
        <4>2. new \in JobOn(Servers)
          BY <3>2, <3>3, <4>1 DEF JobOn
        <4> QED
          BY <3>2, <4>1, <4>2 DEF Job, JobOn
      <3>5. FlowOK(new)
        BY <1>2, <1>3, <2>1, <3>3, <3>4 DEF FlowOK, Clones, Places, Loads, Unloads
      <3>6. Fits(new)
        BY <1>2, <3>4, <3>5 DEF Fits
      <3>7. MemoryOK'
        BY <2>3, <2>4, <3>1 DEF TypeInv, MemoryOK
      <3>8. TypeInv' /\ jobs'[j] = new /\ Others(j)
        BY <1>1, <1>2, <1>4, <3>2, <3>6, <3>7, StepType
      <3>9. Carries(j, "closing", info)
        BY <3>4, <3>6, <3>8, FitsOK DEF job, Carries
      <3> QED
        BY <1>1, <1>3, <2>1, <2>3, <3>1, <3>8, <3>9 DEF job
    <2> QED
      BY <2>2, <2>5, <2>6
  <1> QED
    BY <1>5, <1>6

LEMMA ClosedStep ==
  ASSUME TypeInv, NEW j \in Requests, Closed(j)
  PROVE  /\ TypeInv' /\ Others(j) /\ UNCHANGED <<disk, staging, loaded>> /\ UNCHANGED <<users, rows>> /\ UNCHANGED missed
         /\ At(j, "closing")
         /\ \E info \in Infos :
              /\ info = jobs[j].info /\ info.plugin = jobs[j].plugin /\ info.plugin \in Plugins
              /\ \/ Carries(j, "closing", info) /\ UNCHANGED registry
                 \/ /\ \/ info.agents = {} /\ Gone(j)
                       \/ info.agents # {} /\ Carries(j, "delete", info)
                    /\ registry'[info.plugin] = registry[info.plugin] \ info.skills
                    /\ \A p \in Plugins \ {info.plugin} : registry'[p] = registry[p]
  <1>1. /\ At(j, "closing") /\ Taint({}) /\ Continue
        /\ UNCHANGED <<disk, staging, loaded>> /\ UNCHANGED <<disk, staging>> /\ UNCHANGED <<users, rows>> /\ UNCHANGED missed
    BY DEF Closed
  <1> DEFINE job == jobs[j]
  <1>2. job # None /\ job \in Job /\ job.pc = "closing" /\ jobs[Boot] = None /\ FlowOK(job)
        /\ job.op \in Ops \ {"signup", "boot"}
    BY <1>1, FlowAt
  <1>3. job.info \in Infos /\ job.info.plugin = job.plugin /\ job.plugin \in Plugins /\ job.todo \subseteq Servers
    BY <1>2 DEF FlowOK, Clones, Places, Loads, Unloads
  <1>4. PICK info \in Infos : info = job.info
    BY <1>3
  <1>5. DiskOK' /\ RowsOK' /\ missed' \subseteq Plugins
    BY <1>1, Unmoved
  <1>6. CASE job.todo = {} /\ Unregister(j, info) /\ UNCHANGED servers
    <2>1. jobs[j].todo = {} /\ info.plugin = jobs[j].plugin
      BY <1>3, <1>4, <1>6
    <2>2. /\ loaded' \in [Plugins -> Infos \cup {None}] /\ \A p \in Plugins : loaded'[p] # None => loaded'[p].plugin = p
          /\ servers' \subseteq Servers
      BY <1>1, <1>6 DEF TypeInv, MemoryOK
    <2>3. /\ TypeInv' /\ Others(j)
          /\ \/ info.agents = {} /\ Gone(j)
             \/ info.agents # {} /\ Carries(j, "delete", info)
          /\ registry'[info.plugin] = registry[info.plugin] \ info.skills
          /\ \A p \in Plugins \ {info.plugin} : registry'[p] = registry[p]
      BY <1>1, <1>6, <2>1, <2>2, UnregisterStep
    <2> QED
      BY <1>1, <1>3, <1>4, <2>3
  <1>7. CASE \E s \in job.todo : /\ servers' = servers \ {s} /\ UNCHANGED registry
                                 /\ jobs' = [jobs EXCEPT ![j].todo = @ \ {s}]
    <2>1. PICK s \in job.todo : /\ servers' = servers \ {s} /\ UNCHANGED registry
                                /\ jobs' = [jobs EXCEPT ![j].todo = @ \ {s}]
      BY <1>7
    <2> DEFINE new == [job EXCEPT !.todo = job.todo \ {s}]
    <2>2. jobs' = [jobs EXCEPT ![j] = new] /\ new = [job EXCEPT !.todo = job.todo \ {s}]
      BY <2>1
    <2> HIDE DEF job, new
    <2>3. /\ new \in Job /\ new.op = job.op /\ new.plugin = job.plugin /\ new.dir = job.dir /\ new.pc = job.pc
          /\ new.todo = job.todo \ {s} /\ new.info = job.info
      <3>1. PICK T \in {Servers, Users, Infos, Plugins} : job \in JobOn(T)
        BY <1>2 DEF Job
      <3>2. new \in JobOn(Servers)
        BY <1>3, <2>2, <3>1 DEF JobOn
      <3> QED
        BY <2>2, <3>1, <3>2 DEF Job, JobOn
    <2>4. FlowOK(new)
      BY <1>2, <1>3, <2>3 DEF FlowOK, Clones, Places, Loads, Unloads
    <2>5. Fits(new)
      BY <1>2, <2>3, <2>4 DEF Fits
    <2>6. MemoryOK'
      BY <1>1, <2>1 DEF TypeInv, MemoryOK
    <2>7. TypeInv' /\ jobs'[j] = new /\ Others(j)
      BY <1>1, <1>2, <1>5, <2>2, <2>5, <2>6, StepType
    <2>8. Carries(j, "closing", info)
      BY <1>2, <1>4, <2>3, <2>5, <2>7, FitsOK DEF job, Carries
    <2> QED
      BY <1>1, <1>3, <1>4, <2>1, <2>7, <2>8 DEF job
  <1>8. QED
    BY <1>4, <1>6, <1>7 DEF Closed

LEMMA DeleteStep ==
  ASSUME TypeInv, NEW j \in Requests, DeleteRows(j)
  PROVE  /\ TypeInv' /\ Others(j) /\ Gone(j) /\ At(j, "delete")
         /\ UNCHANGED <<disk, staging>> /\ UNCHANGED memory /\ UNCHANGED users /\ UNCHANGED missed
         /\ \E info \in Infos :
              /\ info = jobs[j].info /\ info.plugin = jobs[j].plugin /\ info.plugin \in Plugins
              /\ \A u \in Users, n \in AgentNames :
                   \/ rows'[u][n] = rows[u][n]
                   \/ rows'[u][n] = None /\ n[1] = info.plugin /\ ~Owned(rows[u][n])
              /\ info.plugin \in tainted' \/
                 \A u \in Users, n \in AgentNames : n[1] = info.plugin => rows'[u][n] = None \/ Owned(rows'[u][n])
  <1>1. /\ At(j, "delete") /\ Continue
        /\ UNCHANGED <<disk, staging>> /\ UNCHANGED memory /\ UNCHANGED users /\ UNCHANGED missed
        /\ jobs' = [jobs EXCEPT ![j] = AfterUnload(jobs[j])]
    BY DEF DeleteRows
  <1>2. PICK new : new = AfterUnload(jobs[j])
    OBVIOUS
  <1>3. /\ Fits(new) /\ new.op = jobs[j].op /\ new.plugin = jobs[j].plugin /\ new.dir = jobs[j].dir
        /\ new.info = None /\ new.pc = IF jobs[j].op = "uninstall" THEN "rmtree" ELSE "load"
        /\ jobs[j].info \in Infos /\ jobs[j].info.plugin = jobs[j].plugin /\ jobs[j].plugin \in Plugins
    BY <1>1, <1>2, AfterUnloadFits
  <1>4. PICK info \in Infos : info = jobs[j].info
    BY <1>3
  <1>5. jobs[Boot] = None /\ jobs' = [jobs EXCEPT ![j] = new]
    BY <1>1, <1>2, AtFits
  <1>6. DiskOK' /\ MemoryOK' /\ missed' \subseteq Plugins
    BY <1>1, Unmoved
  <1>7. PICK p \in Plugins : p = info.plugin
    BY <1>3, <1>4
  <1>8. \/ rows' = WithoutPlugin(p) /\ Taint({})
        \/ UNCHANGED rows /\ Taint({p})
    BY <1>4, <1>7 DEF DeleteRows
  <1>9. PICK F \in SUBSET Plugins : Taint(F)
    BY <1>8
  <1>10. CASE rows' = WithoutPlugin(p)
    <2>1. ASSUME NEW u \in Users, NEW n \in AgentNames
          PROVE  rows'[u][n] = IF n[1] = p /\ ~Owned(rows[u][n]) THEN None ELSE rows[u][n]
      BY <1>10 DEF WithoutPlugin
    <2>2. rows \in [Users -> Table] /\ users \subseteq Users
      BY DEF TypeInv, RowsOK
    <2>3. RowsOK'
      BY <1>1, <1>10, <2>2 DEF RowsOK, WithoutPlugin, Table
    <2>4. TypeInv' /\ jobs'[j] = new /\ Others(j)
      BY <1>1, <1>3, <1>5, <1>6, <1>9, <2>3, StepType
    <2>5. Gone(j)
      BY <1>3, <2>4, FitsOK DEF Gone, Became
    <2>6. /\ \A u \in Users, n \in AgentNames :
               \/ rows'[u][n] = rows[u][n]
               \/ rows'[u][n] = None /\ n[1] = info.plugin /\ ~Owned(rows[u][n])
          /\ \A u \in Users, n \in AgentNames : n[1] = info.plugin => rows'[u][n] = None \/ Owned(rows'[u][n])
      BY <1>7, <2>1
    <2> QED
      BY <1>1, <1>3, <1>4, <2>4, <2>5, <2>6
  <1>11. CASE UNCHANGED rows /\ Taint({p})
    <2>1. RowsOK'
      BY <1>1, <1>11, Unmoved
    <2>2. TypeInv' /\ jobs'[j] = new /\ Others(j)
      BY <1>1, <1>3, <1>5, <1>6, <1>9, <2>1, StepType
    <2>3. Gone(j)
      BY <1>3, <2>2, FitsOK DEF Gone, Became
    <2>4. info.plugin \in tainted'
      BY <1>7, <1>11 DEF Taint
    <2> QED
      BY <1>1, <1>3, <1>4, <1>11, <2>2, <2>3, <2>4
  <1> QED
    BY <1>8, <1>10, <1>11

(* A request that raises or is cancelled leaves what it worked on as it is.*)
LEMMA StoppedStep ==
  ASSUME TypeInv, NEW j \in Requests, UnloadFails(j) \/ Stopped(j)
  PROVE  /\ TypeInv' /\ Others(j) /\ Ended(j)
         /\ jobs[j] # None /\ jobs[j].op \notin {"boot", "signup"} /\ jobs[j].pc \in Loads \cup Unloads
         /\ UNCHANGED <<disk, staging>> /\ UNCHANGED memory /\ UNCHANGED users /\ UNCHANGED missed
         /\ \E info \in Infos :
              /\ info = jobs[j].info /\ info.plugin \in Plugins /\ Taint({info.plugin})
              /\ \A u \in Users, n \in AgentNames :
                   \/ rows'[u][n] = rows[u][n]
                   \/ rows'[u][n] = None /\ n[1] = info.plugin /\ ~Owned(rows[u][n])
  <1>1. /\ Done(j) /\ Taint({jobs[j].info.plugin}) /\ Continue
        /\ UNCHANGED <<disk, staging>> /\ UNCHANGED memory /\ UNCHANGED users /\ UNCHANGED missed
        /\ rows' = rows \/ rows' = WithoutPlugin(jobs[j].info.plugin)
    BY DEF UnloadFails, Stopped
  <1>2. PICK pc \in Loads \cup Unloads : At(j, pc)
    BY DEF UnloadFails, Stopped, Loads, Unloads
  <1>3. jobs[j] # None /\ jobs[j].pc = pc /\ Fits(jobs[j]) /\ jobs[j].op # "boot"
    BY <1>2, AtFits DEF Fits
  <1>4. jobs[j].op # "signup" /\ FlowOK(jobs[j])
    <2>1. CASE UnloadFails(j)
      BY <2>1, FlowAt DEF UnloadFails
    <2>2. CASE Stopped(j)
      BY <1>3, <2>2 DEF Stopped, Fits
    <2> QED
      BY <2>1, <2>2
  <1>5. PICK info \in Infos : info = jobs[j].info
    BY <1>3, <1>4 DEF FlowOK
  <1>6. PICK p \in Plugins : p = info.plugin
    BY InfoFacts
  <1>7. Taint({p}) /\ {p} \in SUBSET Plugins
    BY <1>1, <1>5, <1>6
  <1>8. RowsOK' /\ \A u \in Users, n \in AgentNames :
                     \/ rows'[u][n] = rows[u][n]
                     \/ rows'[u][n] = None /\ n[1] = p /\ ~Owned(rows[u][n])
    <2>1. CASE rows' = rows
      BY <1>1, <2>1, Unmoved
    <2>2. CASE rows' = WithoutPlugin(p)
      <3>1. rows \in [Users -> Table] /\ users \subseteq Users
        BY DEF TypeInv, RowsOK
      <3>2. RowsOK'
        BY <1>1, <2>2, <3>1 DEF RowsOK, WithoutPlugin, Table
      <3>3. \A u \in Users, n \in AgentNames :
              rows'[u][n] = IF n[1] = p /\ ~Owned(rows[u][n]) THEN None ELSE rows[u][n]
        BY <2>2 DEF WithoutPlugin
      <3> QED
        BY <3>2, <3>3
    <2> QED
      BY <1>1, <1>5, <1>6, <2>1, <2>2
  <1>9. DiskOK' /\ MemoryOK' /\ missed' \subseteq Plugins
    BY <1>1, Unmoved
  <1>10. TypeInv' /\ Others(j) /\ Ended(j)
    BY <1>1, <1>2, <1>7, <1>8, <1>9, Ends DEF Ended
  <1> QED
    BY <1>1, <1>3, <1>4, <1>5, <1>6, <1>7, <1>8, <1>10

LEMMA SignUpStep ==
  ASSUME TypeInv, NEW j \in Requests, NEW u \in Users, SignUp(j, u)
  PROVE  /\ TypeInv' /\ Others(j) /\ jobs[j] = None /\ Became(j, "signup", None, None, "list") /\ jobs'[j].todo = {}
         /\ jobs'[j].user = u /\ u \notin users /\ users' = users \cup {u}
         /\ UNCHANGED <<disk, staging>> /\ UNCHANGED memory /\ UNCHANGED rows /\ UNCHANGED missed
  <1> DEFINE new == [NewJob("signup", None, None, "list") EXCEPT !.user = u]
  <1>1. /\ Serve(j) /\ u \notin users /\ users' = users \cup {u} /\ Taint({}) /\ jobs' = [jobs EXCEPT ![j] = new]
        /\ UNCHANGED <<disk, staging>> /\ UNCHANGED memory /\ UNCHANGED rows /\ UNCHANGED missed
    BY DEF SignUp
  <1>2. /\ new.op = "signup" /\ new.plugin = None /\ new.dir = None /\ new.pc = "list" /\ new.todo = {}
        /\ new.info = None /\ new.user = u /\ new \in JobOn(Users)
    BY DEF NewJob, JobOn
  <1> HIDE DEF new
  <1>3. new \in Job
    BY <1>2 DEF Job
  <1>4. Fits(new)
    BY <1>2, <1>3 DEF Fits, SignupOK
  <1>5. jobs[Boot] = None /\ jobs[j] = None
    BY <1>1 DEF Serve
  <1>6. DiskOK' /\ MemoryOK' /\ missed' \subseteq Plugins
    BY <1>1, Unmoved
  <1>7. RowsOK'
    BY <1>1 DEF TypeInv, RowsOK
  <1>8. TypeInv' /\ jobs'[j] = new /\ Others(j)
    BY <1>1, <1>4, <1>5, <1>6, <1>7, StepType
  <1> QED
    BY <1>1, <1>2, <1>4, <1>5, <1>8, FitsOK DEF Became

LEMMA SignupAt ==
  ASSUME TypeInv, NEW j \in Requests, NEW pc \in {"list", "seed"}, At(j, pc)
  PROVE  /\ jobs[j] # None /\ jobs[j] \in Job /\ jobs[j].pc = pc /\ jobs[j].op = "signup" /\ SignupOK(jobs[j])
         /\ jobs[Boot] = None
  <1>1. jobs[j] # None /\ jobs[j] \in Job /\ jobs[j].pc = pc /\ Fits(jobs[j]) /\ jobs[Boot] = None
    BY AtFits
  <1>2. jobs[j].op = "signup"
    BY <1>1 DEF Fits, FlowOK, Clones, Places, Loads, Unloads
  <1> QED
    BY <1>1, <1>2 DEF Fits

LEMMA ListStep ==
  ASSUME TypeInv, NEW j \in Requests, ListPlugins(j)
  PROVE  /\ TypeInv' /\ Others(j) /\ Carries(j, "seed", jobs[j].info) /\ jobs[j].op = "signup"
         /\ jobs'[j].todo = list_plugins /\ jobs'[j].user = jobs[j].user /\ jobs[j].pc = "list"
         /\ UNCHANGED <<disk, staging>> /\ UNCHANGED memory /\ UNCHANGED <<users, rows>> /\ UNCHANGED missed
  <1>1. /\ At(j, "list") /\ Taint({}) /\ Continue
        /\ UNCHANGED <<disk, staging>> /\ UNCHANGED memory /\ UNCHANGED <<users, rows>> /\ UNCHANGED missed
    BY DEF ListPlugins
  <1> DEFINE job == jobs[j]
  <1> DEFINE new == [job EXCEPT !.pc = "seed", !.todo = list_plugins]
  <1>2. /\ job # None /\ job \in Job /\ job.pc = "list" /\ job.op = "signup" /\ SignupOK(job) /\ jobs[Boot] = None
    BY <1>1, SignupAt
  <1>3. jobs' = [jobs EXCEPT ![j] = new] /\ new = [job EXCEPT !.pc = "seed", !.todo = list_plugins]
    BY DEF ListPlugins
  <1> HIDE DEF job, new
  <1>4. list_plugins \subseteq Infos
    BY DEF list_plugins, TypeInv, MemoryOK
  <1>5. /\ new \in Job /\ new.op = job.op /\ new.plugin = job.plugin /\ new.dir = job.dir /\ new.pc = "seed"
        /\ new.todo = list_plugins /\ new.info = job.info /\ new.user = job.user
    <2>1. PICK T \in {Servers, Users, Infos, Plugins} : job \in JobOn(T)
      BY <1>2 DEF Job
    <2>2. new \in JobOn(Infos)
      BY <1>3, <1>4, <2>1 DEF JobOn
    <2> QED
      BY <1>3, <2>1, <2>2 DEF Job, JobOn
  <1>6. Fits(new)
    BY <1>2, <1>4, <1>5 DEF Fits, SignupOK
  <1>7. DiskOK' /\ MemoryOK' /\ RowsOK' /\ missed' \subseteq Plugins
    BY <1>1, Unmoved
  <1>8. TypeInv' /\ jobs'[j] = new /\ Others(j)
    BY <1>1, <1>2, <1>3, <1>6, <1>7, StepType
  <1> QED
    BY <1>1, <1>2, <1>5, <1>6, <1>8, FitsOK DEF job, Carries

LEMMA SeedStep ==
  ASSUME TypeInv, NEW j \in Requests, Seed(j)
  PROVE  /\ TypeInv' /\ Others(j) /\ jobs[j].op = "signup" /\ jobs[j].pc = "seed"
         /\ UNCHANGED <<disk, staging>> /\ UNCHANGED memory /\ UNCHANGED <<users, rows>> /\ UNCHANGED missed
         /\ \/ Ended(j) /\ jobs[j].todo = {}
            \/ \E i \in jobs[j].todo :
                 /\ i \in Infos /\ jobs'[j].todo = jobs[j].todo \ {i} /\ jobs'[j].user = jobs[j].user
                 /\ \/ Found(i) = {} /\ Carries(j, "seed", jobs[j].info)
                    \/ \E info \in Carried : /\ info = [i EXCEPT !.agents = Found(i)]
                                             /\ info.plugin = i.plugin /\ info.agents = Found(i) /\ Found(i) # {}
                                             /\ Carries(j, "commit", info)
                                             /\ jobs'[j].seen = rows[jobs[j].user]
  <1>1. /\ At(j, "seed") /\ Taint({}) /\ Continue
        /\ UNCHANGED <<disk, staging>> /\ UNCHANGED memory /\ UNCHANGED <<users, rows>> /\ UNCHANGED missed
    BY DEF Seed
  <1> DEFINE job == jobs[j]
  <1>2. /\ job # None /\ job \in Job /\ job.pc = "seed" /\ job.op = "signup" /\ SignupOK(job) /\ jobs[Boot] = None
    BY <1>1, SignupAt
  <1>3. DiskOK' /\ MemoryOK' /\ RowsOK' /\ missed' \subseteq Plugins
    BY <1>1, Unmoved
  <1>4. job.todo \subseteq Infos /\ job.user \in Users /\ rows[job.user] \in Table
    BY <1>2 DEF SignupOK, TypeInv, RowsOK
  <1>5. CASE job.todo = {} /\ Done(j)
    <2>1. TypeInv' /\ Others(j) /\ Ended(j)
      BY <1>1, <1>3, <1>5, Ends DEF Ended
    <2> QED
      BY <1>1, <1>2, <1>5, <2>1
  <1>6. ASSUME NEW i \in job.todo,
               jobs' = [jobs EXCEPT ![j] = IF Found(i) = {} THEN [job EXCEPT !.todo = job.todo \ {i}]
                                           ELSE [[job EXCEPT !.todo = job.todo \ {i}] EXCEPT !.info = [i EXCEPT !.agents = Found(i)],
                                                   !.seen = rows[job.user], !.pc = "commit"]]
        PROVE  /\ TypeInv' /\ Others(j)
               /\ i \in Infos /\ jobs'[j].todo = jobs[j].todo \ {i} /\ jobs'[j].user = jobs[j].user
               /\ \/ Found(i) = {} /\ Carries(j, "seed", jobs[j].info)
                  \/ \E info \in Carried : /\ info = [i EXCEPT !.agents = Found(i)]
                                           /\ info.plugin = i.plugin /\ info.agents = Found(i) /\ Found(i) # {}
                                           /\ Carries(j, "commit", info)
                                           /\ jobs'[j].seen = rows[jobs[j].user]
    <2>1. i \in Infos /\ i \in Carried
      BY <1>4, <1>6, InfoFacts
    <2>2. CASE Found(i) = {}
      <3> DEFINE new == [job EXCEPT !.todo = job.todo \ {i}]
      <3>1. jobs' = [jobs EXCEPT ![j] = new] /\ new = [job EXCEPT !.todo = job.todo \ {i}]
        BY <1>6, <2>2
      <3> HIDE DEF job, new
      <3>2. /\ new \in Job /\ new.op = job.op /\ new.plugin = job.plugin /\ new.dir = job.dir /\ new.pc = "seed"
            /\ new.todo = job.todo \ {i} /\ new.info = job.info /\ new.user = job.user
        <4>1. PICK T \in {Servers, Users, Infos, Plugins} : job \in JobOn(T)
          BY <1>2 DEF Job
        <4>2. new \in JobOn(Infos)
          BY <1>4, <3>1, <4>1 DEF JobOn
        <4> QED
          BY <1>2, <3>1, <4>1, <4>2 DEF Job, JobOn
      <3>3. Fits(new)
        BY <1>2, <1>4, <3>2 DEF Fits, SignupOK
      <3>4. TypeInv' /\ jobs'[j] = new /\ Others(j)
        BY <1>1, <1>2, <1>3, <3>1, <3>3, StepType
      <3>5. Carries(j, "seed", jobs[j].info)
        BY <3>2, <3>3, <3>4, FitsOK DEF job, Carries
      <3> QED
        BY <2>1, <2>2, <3>2, <3>4, <3>5 DEF job
    <2>3. CASE Found(i) # {}
      <3>1. PICK info : info = [i EXCEPT !.agents = Found(i)]
        OBVIOUS
      <3>2. Found(i) \subseteq Agents
        BY ContentFacts DEF Found
      <3>3. info \in Carried /\ info.plugin = i.plugin /\ info.agents = Found(i)
        BY <2>1, <3>1, <3>2 DEF Carried
      <3> DEFINE new == [job EXCEPT !.todo = job.todo \ {i}, !.info = info, !.seen = rows[job.user], !.pc = "commit"]
      <3>4. jobs' = [jobs EXCEPT ![j] = new]
            /\ new = [job EXCEPT !.todo = job.todo \ {i}, !.info = info, !.seen = rows[job.user], !.pc = "commit"]
        <4>1. PICK T \in {Servers, Users, Infos, Plugins} : job \in JobOn(T)
          BY <1>2 DEF Job
        <4>2. jobs' = [jobs EXCEPT ![j] = [[job EXCEPT !.todo = job.todo \ {i}] EXCEPT !.info = info,
                                                   !.seen = rows[job.user], !.pc = "commit"]]
          BY <1>6, <2>3, <3>1
        <4> HIDE DEF job
        <4>3. [[job EXCEPT !.todo = job.todo \ {i}] EXCEPT !.info = info, !.seen = rows[job.user], !.pc = "commit"] = new
          BY <4>1 DEF JobOn
        <4> QED
          BY <4>2, <4>3
      <3> HIDE DEF job, new
      <3>5. /\ new \in Job /\ new.op = job.op /\ new.plugin = job.plugin /\ new.dir = job.dir /\ new.pc = "commit"
            /\ new.todo = job.todo \ {i} /\ new.info = info /\ new.user = job.user /\ new.seen = rows[job.user]
        <4>1. PICK T \in {Servers, Users, Infos, Plugins} : job \in JobOn(T)
          BY <1>2 DEF Job
        <4>2. new \in JobOn(Infos)
          BY <1>4, <3>3, <3>4, <4>1 DEF JobOn
        <4> QED
          BY <3>4, <4>1, <4>2 DEF Job, JobOn
      <3>6. Fits(new)
        BY <1>2, <1>4, <3>3, <3>5 DEF Fits, SignupOK
      <3>7. TypeInv' /\ jobs'[j] = new /\ Others(j)
        BY <1>1, <1>2, <1>3, <3>4, <3>6, StepType
      <3>8. Carries(j, "commit", info)
        BY <3>5, <3>6, <3>7, FitsOK DEF job, Carries
      <3> QED
        BY <2>1, <2>3, <3>1, <3>3, <3>5, <3>7, <3>8 DEF job
    <2> QED
      BY <2>2, <2>3
  <1>7. (job.todo = {} /\ Done(j)) \/
        \E i \in job.todo :
          jobs' = [jobs EXCEPT ![j] = IF Found(i) = {} THEN [job EXCEPT !.todo = job.todo \ {i}]
                                      ELSE [[job EXCEPT !.todo = job.todo \ {i}] EXCEPT !.info = [i EXCEPT !.agents = Found(i)],
                                              !.seen = rows[job.user], !.pc = "commit"]]
    BY DEF Seed
  <1> QED
    BY <1>1, <1>2, <1>5, <1>6, <1>7
----------------------------------------------------------------------------
(* The users, the restart and the startup *)

LEMMA UserRow ==
  ASSUME TypeInv, UserStep
  PROVE  /\ TypeInv'
         /\ UNCHANGED <<disk, staging>> /\ UNCHANGED memory /\ UNCHANGED users /\ UNCHANGED jobs
         /\ UNCHANGED <<served, stops, tainted>> /\ missed \subseteq missed'
         /\ \E u \in Users, n \in AgentNames, row \in Row \cup {None} :
              /\ rows'[u][n] = row
              /\ row # None => (rows[u][n] # None /\ (Owned(row) <=> Owned(rows[u][n]))) \/ Owned(row)
              /\ row = None => n[1] \in missed'
              /\ \A v \in Users, m \in AgentNames : v # u \/ m # n => rows'[v][m] = rows[v][m]
  <1>1. PICK u \in Users, n \in AgentNames : create_agent(u, n) \/ handle_agents_command(u, n) \/ delete_agent(u, n)
    BY DEF UserStep
  <1>2. rows \in [Users -> Table] /\ users \subseteq Users /\ missed \subseteq Plugins
    BY DEF TypeInv, RowsOK, BoundsOK
  <1>3. rows[u] \in [AgentNames -> Row \cup {None}] /\ rows[u][n] \in Row \cup {None} /\ None \notin Row
    BY <1>2, Given DEF Table
  <1>4. n[1] \in Plugins
    BY NameFacts
  <1>5. \E row \in Row \cup {None} :
          /\ SetRow(u, n, row) /\ missed \subseteq missed' /\ missed' \subseteq Plugins
          /\ row # None => (rows[u][n] # None /\ (Owned(row) <=> Owned(rows[u][n]))) \/ Owned(row)
          /\ row = None => n[1] \in missed'
    <2>1. CASE create_agent(u, n)
      <3>1. PICK row : row = [source |-> "user", enabled |-> TRUE]
        OBVIOUS
      <3>2. row \in Row
        BY <3>1 DEF Row
      <3>4. Owned(row)
        BY <1>3, <3>1, <3>2 DEF Owned
      <3>3. SetRow(u, n, row) /\ UNCHANGED missed
        BY <2>1, <3>1 DEF create_agent
      <3> QED
        BY <1>2, <1>3, <3>2, <3>4, <3>3
    <2>2. CASE handle_agents_command(u, n)
      <3>1. PICK b \in BOOLEAN : SetRow(u, n, [rows[u][n] EXCEPT !.enabled = b]) /\ rows[u][n] # None /\ UNCHANGED missed
        <4>1. CASE enable_agent(u, n)
          BY <4>1 DEF enable_agent
        <4>2. CASE disable_agent(u, n)
          BY <4>2 DEF disable_agent
        <4> QED
          BY <2>2, <4>1, <4>2 DEF handle_agents_command
      <3>2. PICK row : row = [rows[u][n] EXCEPT !.enabled = b]
        OBVIOUS
      <3>3. row \in Row /\ row.source = rows[u][n].source
        BY <1>3, <3>1, <3>2 DEF Row
      <3>4. Owned(row) <=> Owned(rows[u][n])
        BY <1>3, <3>1, <3>3 DEF Owned
      <3> QED
        BY <1>2, <1>3, <3>1, <3>2, <3>3, <3>4
    <2>3. CASE delete_agent(u, n)
      <3>1. SetRow(u, n, None) /\ missed' = missed \cup {n[1]}
        BY <2>3 DEF delete_agent
      <3> QED
        BY <1>2, <1>4, <3>1
    <2> QED
      BY <1>1, <2>1, <2>2, <2>3
  <1>6. PICK row \in Row \cup {None} :
          /\ SetRow(u, n, row) /\ missed \subseteq missed' /\ missed' \subseteq Plugins
          /\ row # None => (rows[u][n] # None /\ (Owned(row) <=> Owned(rows[u][n]))) \/ Owned(row)
          /\ row = None => n[1] \in missed'
    BY <1>5
  <1>7. /\ rows' = [rows EXCEPT ![u][n] = row]
        /\ UNCHANGED <<disk, staging>> /\ UNCHANGED memory /\ UNCHANGED users /\ UNCHANGED jobs
        /\ UNCHANGED <<served, stops, tainted>>
    BY <1>6 DEF SetRow
  <1>8. /\ rows' \in [Users -> Table] /\ rows'[u][n] = row
        /\ \A v \in Users, m \in AgentNames : v # u \/ m # n => rows'[v][m] = rows[v][m]
    BY <1>2, <1>3, <1>7 DEF Table
  <1>9. RowsOK' /\ DiskOK' /\ MemoryOK'
    BY <1>2, <1>7, <1>8, Unmoved DEF RowsOK
  <1>10. JobsOK'
    BY <1>7 DEF TypeInv, JobsOK, JobOK, BootOK, SignupOK, FlowOK
  <1>11. BoundsOK'
    BY <1>6, <1>7 DEF TypeInv, BoundsOK
  <1> QED
    BY <1>6, <1>7, <1>8, <1>9, <1>10, <1>11 DEF TypeInv

LEMMA StartedFits ==
  ASSUME TypeInv
  PROVE  /\ Started \in Job /\ Started # None /\ Started.op = "boot" /\ BootOK(Started) /\ Started.pc = "boot"
         /\ Started.plugin = None /\ Started.dir = None /\ Started.info = None
         /\ Started.todo = {d \in Plugins : disk[d] \in Contents}
  <1> DEFINE todo == {d \in Plugins : disk[d] \in Contents}
  <1>1. Started = [op |-> "boot", plugin |-> None, dir |-> None, pc |-> "boot", todo |-> todo,
                   info |-> None, user |-> None, seen |-> None]
    BY DEF Started, NewJob
  <1>2. todo \subseteq Plugins
    OBVIOUS
  <1>3. Started \in JobOn(Plugins)
    BY <1>1, <1>2 DEF JobOn
  <1> QED
    BY <1>1, <1>3, Given DEF Job, BootOK

LEMMA RestartStep ==
  ASSUME TypeInv, Restart, tainted' \subseteq Plugins, missed' \subseteq Plugins, RowsOK'
  PROVE  /\ TypeInv' /\ jobs'[Boot] = Started /\ \A j \in Requests : jobs'[j] = None
         /\ UNCHANGED <<disk, staging, users>>
         /\ \A p \in Plugins : loaded'[p] = None /\ registry'[p] = {}
  <1>1. /\ served + stops < MaxEvents /\ stops' = stops + 1 /\ UNCHANGED served
        /\ loaded' = [p \in Plugins |-> None] /\ servers' = {} /\ registry' = [p \in Plugins |-> {}]
        /\ jobs' = [j \in DOMAIN jobs |-> IF j = Boot THEN Started ELSE None]
        /\ UNCHANGED <<disk, staging>> /\ UNCHANGED users
    BY DEF Restart
  <1>2. DOMAIN jobs = Requests \cup {Boot} /\ Boot \notin Requests
    BY Given DEF TypeInv, JobsOK
  <1>3. jobs'[Boot] = Started /\ \A j \in Requests : jobs'[j] = None
    BY <1>1, <1>2
  <1>4. Started \in Job /\ Started # None /\ Started.op = "boot" /\ BootOK(Started)
    BY StartedFits
  <1>5. jobs' \in [Requests \cup {Boot} -> Job \cup {None}]
    BY <1>1, <1>2, <1>4
  <1>6. (BootOK(jobs[Boot]))'
    BY <1>1, <1>3, <1>4 DEF BootOK
  <1>7. (JobOK(jobs[Boot]))'
    BY <1>3, <1>4, <1>6 DEF JobOK
  <1>8. JobsOK'
    BY <1>2, <1>3, <1>4, <1>5, <1>7 DEF JobsOK
  <1>9. DiskOK' /\ MemoryOK'
    BY <1>1, Unmoved DEF MemoryOK
  <1>10. BoundsOK'
    BY <1>1, Given DEF TypeInv, BoundsOK
  <1> QED
    BY <1>1, <1>3, <1>8, <1>9, <1>10 DEF TypeInv

LEMMA CrashStep ==
  ASSUME TypeInv, Crash
  PROVE  /\ TypeInv' /\ jobs'[Boot] = Started /\ \A j \in Requests : jobs'[j] = None
         /\ UNCHANGED <<disk, staging, users>> /\ UNCHANGED rows
         /\ \A p \in Plugins : loaded'[p] = None /\ registry'[p] = {}
  <1>1. Restart /\ UNCHANGED rows /\ UNCHANGED users
    BY DEF Crash, Restart
  <1>2. tainted' \subseteq Plugins /\ missed' \subseteq Plugins /\ RowsOK'
    BY <1>1, Unmoved DEF Crash, TypeInv, BoundsOK
  <1> QED
    BY <1>1, <1>2, RestartStep

(* What the rows that a shutdown left look like. *)
Emptied(gone) == \A u \in Users, n \in AgentNames :
                   rows'[u][n] = IF n[1] \in gone /\ ~Owned(rows[u][n]) THEN None ELSE rows[u][n]
Spared(gone) == {p \in Unloaded \ gone : loaded[p].dir \notin Plugins}

LEMMA ShutdownStep ==
  ASSUME TypeInv, Shutdown
  PROVE  /\ TypeInv' /\ jobs'[Boot] = Started /\ \A j \in Requests : jobs'[j] = None
         /\ \A j \in Requests \cup {Boot} : jobs[j] = None
         /\ UNCHANGED <<disk, staging, users>> /\ UNCHANGED missed
         /\ \A p \in Plugins : loaded'[p] = None /\ registry'[p] = {}
         /\ \E gone \in SUBSET Unloaded : Emptied(gone) /\ tainted' = tainted \cup Spared(gone)
  <1>1. Restart /\ UNCHANGED missed /\ UNCHANGED users
    BY DEF Shutdown, Restart
  <1>2. PICK gone \in SUBSET Unloaded :
          /\ rows' = [u \in Users |-> [n \in AgentNames |->
                        IF n[1] \in gone /\ ~Owned(rows[u][n]) THEN None ELSE rows[u][n]]]
          /\ tainted' = tainted \cup Spared(gone)
    BY DEF Shutdown, Spared
  <1>3. tainted' \subseteq Plugins /\ missed' \subseteq Plugins
    BY <1>1, <1>2 DEF TypeInv, BoundsOK, Spared, Unloaded
  <1>4. rows \in [Users -> Table] /\ users \subseteq Users
    BY DEF TypeInv, RowsOK
  <1>5. RowsOK'
    BY <1>1, <1>2, <1>4 DEF RowsOK, Table
  <1>6. \A j \in Requests \cup {Boot} : jobs[j] = None
    BY DEF Shutdown, TypeInv, JobsOK
  <1>7. /\ TypeInv' /\ jobs'[Boot] = Started /\ \A j \in Requests : jobs'[j] = None
        /\ UNCHANGED <<disk, staging, users>>
        /\ \A p \in Plugins : loaded'[p] = None /\ registry'[p] = {}
    BY <1>1, <1>3, <1>5, RestartStep
  <1>8. Emptied(gone)
    BY <1>2 DEF Emptied
  <1> QED
    BY <1>1, <1>2, <1>6, <1>7, <1>8

LEMMA BootStep ==
  ASSUME TypeInv, BootNext
  PROVE  /\ TypeInv' /\ UNCHANGED <<disk, staging, users>> /\ jobs[Boot] # None /\ jobs[Boot].op = "boot"
         /\ \A j \in Requests : jobs'[j] = None
         /\ \/ /\ jobs[Boot].todo = {} /\ jobs'[Boot] = None /\ UNCHANGED <<loaded, registry, rows, missed>>
            \/ \E d \in jobs[Boot].todo, info \in Infos :
                 /\ d \in Plugins /\ disk[d] \in Contents /\ info = PluginInfo(disk[d], d)
                 /\ jobs'[Boot] # None /\ jobs'[Boot].op = "boot" /\ jobs'[Boot].todo = jobs[Boot].todo \ {d}
                 /\ jobs'[Boot].info = None
                 /\ loaded'[info.plugin] = info /\ \A p \in Plugins \ {info.plugin} : loaded'[p] = loaded[p]
                 /\ registry'[info.plugin] = registry[info.plugin] \cup info.skills
                 /\ \A p \in Plugins \ {info.plugin} : registry'[p] = registry[p]
                 /\ missed' = missed \ {info.plugin}
                 /\ \A v \in Users, n \in AgentNames : rows'[v][n] # rows[v][n] =>
                      v \in users /\ n \in Namespaced(info) /\ ~Owned(rows[v][n])
                 /\ \A v \in users, n \in AgentNames \cap Namespaced(info) : rows'[v][n] # None
  <1>1. At(Boot, "boot") /\ Taint({}) /\ Continue /\ UNCHANGED <<disk, staging>> /\ UNCHANGED users
    BY DEF BootNext
  <1> DEFINE job == jobs[Boot]
  <1>2. /\ job # None /\ job \in Job /\ job.op = "boot" /\ BootOK(job)
        /\ \A j \in Requests : jobs[j] = None
        /\ jobs \in [Requests \cup {Boot} -> Job \cup {None}] /\ Boot \notin Requests
    <2>1. job # None
      BY <1>1 DEF At
    <2>2. job.op = "boot" /\ JobOK(job) /\ job \in Job
      BY <2>1 DEF TypeInv, JobsOK
    <2> QED
      BY <2>1, <2>2, Given DEF JobOK, TypeInv, JobsOK
  <1>3. BoundsOK'
    BY <1>1 DEF TypeInv, BoundsOK, Taint, Continue, BootNext
  <1>4. DiskOK'
    BY <1>1, Unmoved
  <1>5. CASE job.todo = {} /\ Done(Boot) /\ UNCHANGED <<memory, rows, missed>>
    <2>1. UNCHANGED memory /\ UNCHANGED <<users, rows>> /\ UNCHANGED <<loaded, registry, rows, missed>>
      BY <1>1, <1>5 DEF memory
    <2>2. MemoryOK' /\ RowsOK'
      BY <2>1, Unmoved
    <2>3. jobs' \in [Requests \cup {Boot} -> Job \cup {None}] /\ jobs'[Boot] = None /\ \A j \in Requests : jobs'[j] = None
      BY <1>2, <1>5 DEF Done
    <2>4. JobsOK'
      BY <2>3 DEF JobsOK
    <2> QED
      BY <1>1, <1>2, <1>3, <1>4, <1>5, <2>1, <2>2, <2>3, <2>4 DEF TypeInv
  <1> DEFINE Boots(d, info) ==
        /\ info = PluginInfo(disk[d], d)
        /\ \E up \in SUBSET info.servers : servers' = servers \cup up
        /\ registry' = [registry EXCEPT ![info.plugin] = registry[info.plugin] \cup info.skills]
        /\ rows' = [u \in Users |-> IF u \in users THEN sync_agent_defs_to_db(u, info, rows[u]) ELSE rows[u]]
        /\ loaded' = [loaded EXCEPT ![info.plugin] = info]
        /\ jobs' = [jobs EXCEPT ![Boot].todo = jobs[Boot].todo \ {d}]
        /\ missed' = missed \ {info.plugin}
  <1>6. ASSUME NEW d \in job.todo, NEW info, Boots(d, info)
        PROVE  /\ TypeInv' /\ \A j \in Requests : jobs'[j] = None
               /\ info \in Infos /\ d \in Plugins /\ disk[d] \in Contents
               /\ jobs'[Boot] # None /\ jobs'[Boot].op = "boot" /\ jobs'[Boot].todo = jobs[Boot].todo \ {d}
               /\ jobs'[Boot].info = None
               /\ loaded'[info.plugin] = info /\ \A p \in Plugins \ {info.plugin} : loaded'[p] = loaded[p]
               /\ registry'[info.plugin] = registry[info.plugin] \cup info.skills
               /\ \A p \in Plugins \ {info.plugin} : registry'[p] = registry[p]
               /\ \A v \in Users, n \in AgentNames : rows'[v][n] # rows[v][n] =>
                    v \in users /\ n \in Namespaced(info) /\ ~Owned(rows[v][n])
               /\ \A v \in users, n \in AgentNames \cap Namespaced(info) : rows'[v][n] # None
    <2>1. d \in Plugins /\ disk[d] \in Contents /\ d \in Dirs
      BY <1>2, <1>6 DEF BootOK, Dirs
    <2>2. info \in Infos
      BY <1>6, <2>1, InfoOf
    <2>3. info.plugin \in Plugins /\ info.servers \subseteq Servers /\ info.skills \subseteq Skills
      BY <2>2, InfoFacts
    <2>4. /\ MemoryOK'
          /\ loaded'[info.plugin] = info /\ \A p \in Plugins \ {info.plugin} : loaded'[p] = loaded[p]
          /\ registry'[info.plugin] = registry[info.plugin] \cup info.skills
          /\ \A p \in Plugins \ {info.plugin} : registry'[p] = registry[p]
      BY <1>6, <2>2, <2>3 DEF TypeInv, MemoryOK
    <2>5. ASSUME NEW u \in Users
          PROVE  /\ sync_agent_defs_to_db(u, info, rows[u]) \in Table /\ rows[u] \in Table
                 /\ \A n \in AgentNames : sync_agent_defs_to_db(u, info, rows[u])[n] # rows[u][n] =>
                      n \in Namespaced(info) /\ ~Owned(rows[u][n])
                 /\ \A n \in AgentNames \cap Namespaced(info) : sync_agent_defs_to_db(u, info, rows[u])[n] # None
      <3>1. rows[u] \in Table
        BY DEF TypeInv, RowsOK
      <3>2. PICK seen \in Table : seen = rows[u]
        BY <3>1
      <3>3. \A n \in Targets(info, seen) : ~Conflict(seen[n], rows[u][n])
        BY <3>2 DEF Conflict
      <3>4. /\ sync_agent_defs_to_db(u, info, seen) \in Table
            /\ \A n \in AgentNames : sync_agent_defs_to_db(u, info, seen)[n] # rows[u][n] =>
                 n \in Namespaced(info) /\ ~Owned(rows[u][n])
            /\ \A n \in AgentNames \cap Namespaced(info) :
                 sync_agent_defs_to_db(u, info, seen)[n] = None => seen[n] # None /\ rows[u][n] = None
        BY <3>3, Synced
      <3> QED
        BY <3>1, <3>2, <3>4
    <2>6. users \subseteq Users /\ \A u \in Users : rows'[u] = IF u \in users THEN sync_agent_defs_to_db(u, info, rows[u]) ELSE rows[u]
      BY <1>6 DEF TypeInv, RowsOK
    <2>7. RowsOK'
      BY <1>1, <1>6, <2>5, <2>6 DEF RowsOK
    <2>8. \A v \in Users, n \in AgentNames : rows'[v][n] # rows[v][n] =>
            v \in users /\ n \in Namespaced(info) /\ ~Owned(rows[v][n])
      BY <2>5, <2>6
    <2>9. \A v \in users, n \in AgentNames \cap Namespaced(info) : rows'[v][n] # None
      BY <2>5, <2>6
    <2> DEFINE new == [job EXCEPT !.todo = job.todo \ {d}]
    <2>10. jobs' = [jobs EXCEPT ![Boot] = new] /\ new = [job EXCEPT !.todo = job.todo \ {d}]
      BY <1>6
    <2> HIDE DEF job, new
    <2>11. /\ new \in Job /\ new.op = "boot" /\ new.pc = "boot" /\ new.info = None /\ new # None
           /\ new.todo = job.todo \ {d}
      <3>1. PICK T \in {Servers, Users, Infos, Plugins} : job \in JobOn(T)
        BY <1>2 DEF Job
      <3>2. new \in JobOn(Plugins)
        BY <1>2, <2>10, <3>1 DEF JobOn, BootOK
      <3>3. new \in Job
        BY <3>2 DEF Job
      <3> QED
        BY <1>2, <2>10, <3>1, <3>3, Given DEF JobOn, BootOK
    <2>12. jobs'[Boot] = new /\ (\A j \in Requests : jobs'[j] = None) /\ jobs' \in [Requests \cup {Boot} -> Job \cup {None}]
      BY <1>2, <2>10, <2>11
    <2>13. (BootOK(jobs[Boot]))'
      BY <1>1, <1>2, <2>11, <2>12 DEF BootOK
    <2>14. (JobOK(jobs[Boot]))'
      BY <2>11, <2>12, <2>13 DEF JobOK
    <2>15. JobsOK'
      BY <1>2, <2>11, <2>12, <2>14 DEF JobsOK
    <2>16. TypeInv'
      BY <1>3, <1>4, <2>4, <2>7, <2>15 DEF TypeInv
    <2> QED
      BY <2>1, <2>2, <2>4, <2>8, <2>9, <2>11, <2>12, <2>16 DEF job
  <1>7. CASE \E d \in job.todo : \E info : Boots(d, info)
    <2>1. PICK d \in job.todo : \E info : Boots(d, info)
      BY <1>7
    <2>2. PICK info : Boots(d, info)
      BY <2>1
    <2>9. missed' = missed \ {info.plugin} /\ info = PluginInfo(disk[d], d)
      BY <2>2
    <2> HIDE DEF Boots
    <2>3. /\ TypeInv' /\ \A j \in Requests : jobs'[j] = None
          /\ info \in Infos /\ d \in Plugins /\ disk[d] \in Contents
          /\ jobs'[Boot] # None /\ jobs'[Boot].op = "boot" /\ jobs'[Boot].todo = jobs[Boot].todo \ {d}
          /\ jobs'[Boot].info = None
          /\ loaded'[info.plugin] = info /\ \A p \in Plugins \ {info.plugin} : loaded'[p] = loaded[p]
          /\ registry'[info.plugin] = registry[info.plugin] \cup info.skills
          /\ \A p \in Plugins \ {info.plugin} : registry'[p] = registry[p]
          /\ \A v \in Users, n \in AgentNames : rows'[v][n] # rows[v][n] =>
               v \in users /\ n \in Namespaced(info) /\ ~Owned(rows[v][n])
          /\ \A v \in users, n \in AgentNames \cap Namespaced(info) : rows'[v][n] # None
      BY <1>6, <2>2
    <2>4. UNCHANGED <<disk, staging, users>>
      BY <1>1
    <2>8. d \in jobs[Boot].todo /\ jobs[Boot] # None /\ jobs[Boot].op = "boot"
      BY <1>2
    <2>5. \E e \in jobs[Boot].todo, i \in Infos :
           /\ e \in Plugins /\ disk[e] \in Contents /\ i = PluginInfo(disk[e], e)
           /\ jobs'[Boot] # None /\ jobs'[Boot].op = "boot" /\ jobs'[Boot].todo = jobs[Boot].todo \ {e}
           /\ jobs'[Boot].info = None
           /\ loaded'[i.plugin] = i /\ \A p \in Plugins \ {i.plugin} : loaded'[p] = loaded[p]
           /\ registry'[i.plugin] = registry[i.plugin] \cup i.skills
           /\ \A p \in Plugins \ {i.plugin} : registry'[p] = registry[p]
           /\ missed' = missed \ {i.plugin}
           /\ \A v \in Users, n \in AgentNames : rows'[v][n] # rows[v][n] =>
                v \in users /\ n \in Namespaced(i) /\ ~Owned(rows[v][n])
           /\ \A v \in users, n \in AgentNames \cap Namespaced(i) : rows'[v][n] # None
      BY <2>3, <2>8, <2>9
    <2> QED
      BY <2>3, <2>4, <2>5, <2>8
  <1>8. \/ job.todo = {} /\ Done(Boot) /\ UNCHANGED <<memory, rows, missed>>
        \/ \E d \in job.todo : \E info : Boots(d, info)
    BY DEF BootNext
  <1> QED
    BY <1>5, <1>7, <1>8
----------------------------------------------------------------------------
(* The types hold *)

LEMMA RequestType ==
  ASSUME TypeInv, NEW j \in Requests, Request(j)
  PROVE  TypeInv' /\ UNCHANGED rows
  <1>1. CASE \E p \in Plugins : InstallFromPath(j, p)
    BY <1>1, InstallStep DEF InstallFromPath
  <1>2. CASE \E p \in Plugins : InstallFromGit(j, p)
    BY <1>2, GitStep DEF InstallFromGit
  <1>3. CASE \E p \in Plugins : Update(j, p)
    BY <1>3, UpdateStep DEF Update
  <1>4. CASE \E p \in Plugins : Reload(j, p)
    BY <1>4, ReloadStep DEF Reload
  <1>5. CASE \E p \in Plugins : Uninstall(j, p)
    BY <1>5, UninstallStep DEF Uninstall
  <1>6. CASE \E p \in Plugins : ChatUpdate(j, p)
    BY <1>6, ChatUpdateStep DEF ChatUpdate
  <1>7. CASE \E p \in Plugins : ChatUninstall(j, p)
    BY <1>7, ChatUninstallStep DEF ChatUninstall
  <1>8. CASE \E d \in Dirs : ChatInstall(j, d)
    <2>1. PICK d \in Dirs : ChatInstall(j, d)
      BY <1>8
    <2>2. TypeInv'
      BY <2>1, ChatInstallStep
    <2> QED
      BY <2>1, <2>2 DEF ChatInstall
  <1>9. CASE \E u \in Users : SignUp(j, u)
    BY <1>9, SignUpStep
  <1> QED
    BY <1>1, <1>2, <1>3, <1>4, <1>5, <1>6, <1>7, <1>8, <1>9 DEF Request

LEMMA WorkType ==
  ASSUME TypeInv, NEW j \in Requests, Work(j)
  PROVE  TypeInv' /\ \A u \in Users, n \in AgentNames : Owned(rows[u][n]) => rows'[u][n] = rows[u][n]
  <1>1. CASE \E c \in Contents : Copied(j, c)
    BY <1>1, CopiedStep DEF Copied
  <1>2. CASE \E c \in Contents : EndClone(j, c)
    BY <1>2, EndStep DEF EndClone
  <1>3. CASE CleanStaging(j)
    BY <1>3, CleanStep DEF CleanStaging
  <1>4. CASE StartClone(j)
    BY <1>4, StartStep DEF StartClone
  <1>5. CASE CloneFails(j)
    BY <1>5, CloneFailsStep DEF CloneFails
  <1>6. CASE GiveUp(j)
    BY <1>6, GiveUpStep DEF GiveUp
  <1>7. CASE Validate(j)
    BY <1>7, ValidateStep DEF Validate
  <1>8. CASE Rename(j)
    BY <1>8, RenameStep DEF Rename
  <1>9. CASE Pull(j)
    BY <1>9, PullStep DEF Pull
  <1>10. CASE RemoveFiles(j)
    BY <1>10, RemoveStep DEF RemoveFiles
  <1>11. CASE Unload(j)
    BY <1>11, UnloadStep
  <1>12. CASE Closed(j)
    BY <1>12, ClosedStep
  <1>13. CASE DeleteRows(j)
    BY <1>13, DeleteStep
  <1>14. CASE Load(j)
    BY <1>14, LoadStep
  <1>15. CASE Connected(j)
    BY <1>15, ConnectedStep
  <1>16. CASE LoadFails(j)
    BY <1>16, LoadFailsStep
  <1>17. CASE SelectUsers(j)
    BY <1>17, SelectStep
  <1>18. CASE Loaded(j)
    BY <1>18, LoadedStep
  <1>19. CASE SyncCommit(j)
    BY <1>19, CommitStep
  <1>20. CASE SyncFails(j)
    BY <1>20, SyncFailsStep
  <1>21. CASE ListPlugins(j)
    BY <1>21, ListStep
  <1>22. CASE Seed(j)
    BY <1>22, SeedStep
  <1>23. CASE \E s \in Servers : Connect(j, s)
    BY <1>23, ConnectStep
  <1>24. CASE \E u \in Users : SyncRead(j, u)
    BY <1>24, ReadStep
  <1>25. CASE UnloadFails(j) \/ Stopped(j)
    BY <1>25, StoppedStep
  <1> QED
    BY <1>1, <1>2, <1>3, <1>4, <1>5, <1>6, <1>7, <1>8, <1>9, <1>10, <1>11, <1>12, <1>13, <1>14, <1>15, <1>16,
       <1>17, <1>18, <1>19, <1>20, <1>21, <1>22, <1>23, <1>24, <1>25 DEF Work

LEMMA InitType == Init => TypeInv
  <1> SUFFICES ASSUME Init PROVE TypeInv
    OBVIOUS
  <1>1. \A d \in DOMAIN External : External[d] \in Contents /\ d \in Dirs /\ d \notin Plugins
    BY ExternalFacts
  <1>2. \A d \in Dirs : d \notin Plugins => d \in DOMAIN External
    BY DEF Dirs
  <1>3. DiskOK
    BY <1>1, <1>2 DEF Init, DiskOK
  <1>4. MemoryOK
    BY Given DEF Init, MemoryOK
  <1>5. RowsOK
    BY Given DEF Init, RowsOK, Table
  <1>6. JobsOK
    BY DEF Init, JobsOK
  <1>7. BoundsOK
    BY Given DEF Init, BoundsOK
  <1> QED
    BY <1>3, <1>4, <1>5, <1>6, <1>7 DEF TypeInv

LEMMA StutterType ==
  ASSUME TypeInv, UNCHANGED vars
  PROVE  TypeInv'
  <1>1. /\ UNCHANGED <<disk, staging>> /\ UNCHANGED memory /\ UNCHANGED <<users, rows>> /\ UNCHANGED jobs
        /\ UNCHANGED <<served, stops, tainted, missed>>
    BY DEF vars, memory
  <1>2. DiskOK' /\ MemoryOK' /\ RowsOK'
    BY <1>1, Unmoved
  <1>3. JobsOK' /\ BoundsOK'
    BY <1>1 DEF TypeInv, JobsOK, JobOK, BootOK, SignupOK, FlowOK, BoundsOK
  <1> QED
    BY <1>2, <1>3 DEF TypeInv

LEMMA NextType ==
  ASSUME TypeInv, Next
  PROVE  TypeInv' /\ \A u \in Users, n \in AgentNames :
           Owned(rows[u][n]) /\ rows[u][n]' # rows[u][n] => UNCHANGED <<jobs, stops>>
  <1>1. CASE \E j \in Requests : Request(j)
    BY <1>1, RequestType
  <1>2. CASE \E j \in Requests : Work(j)
    BY <1>2, WorkType
  <1>3. CASE UserStep
    BY <1>3, UserRow
  <1>4. CASE Crash
    BY <1>4, CrashStep
  <1>5. CASE Shutdown
    BY <1>5, ShutdownStep DEF Emptied
  <1>6. CASE BootNext
    BY <1>6, BootStep
  <1> QED
    BY <1>1, <1>2, <1>3, <1>4, <1>5, <1>6 DEF Next

LEMMA TypeInvariant == Spec => []TypeInv
  <1>1. TypeInv /\ [Next]_vars => TypeInv'
    BY NextType, StutterType
  <1> QED
    BY <1>1, InitType, PTL DEF Spec

LEMMA TypeInvTypes == TypeInv => TypeOK
  <1> SUFFICES ASSUME TypeInv PROVE TypeOK
    OBVIOUS
  <1>1. Servers \subseteq UNION {i.servers : i \in Infos} /\ Skills \subseteq UNION {i.skills : i \in Infos}
    <2>1. ASSUME NEW c \in Contents
          PROVE  \E i \in Infos : i.servers = Manifest[c].servers /\ i.skills = Manifest[c].skills
      <3>1. c[1] \in Dirs
        BY ContentFacts DEF Dirs
      <3> QED
        BY <3>1, InfoOf
    <2> QED
      BY <2>1 DEF Servers, Skills
  <1>2. /\ disk \in [Dirs -> Contents \cup {None, Partial}] /\ staging \in Contents \cup {None, Partial}
        /\ loaded \in [Plugins -> Infos \cup {None}]
        /\ users \subseteq Users /\ rows \in [Users -> Table]
        /\ tainted \subseteq Plugins /\ missed \subseteq Plugins
    BY DEF TypeInv, DiskOK, MemoryOK, RowsOK, BoundsOK
  <1>3. /\ servers \subseteq UNION {i.servers : i \in Infos}
        /\ registry \in [Plugins -> SUBSET UNION {i.skills : i \in Infos}]
    BY <1>1 DEF TypeInv, MemoryOK
  <1>4. served + stops \in 0..MaxEvents
    BY Given DEF TypeInv, BoundsOK
  <1>5. ASSUME NEW j \in DOMAIN jobs, jobs[j] # None
        PROVE  /\ jobs[j].op \in {"install", "clone", "update", "reload", "uninstall", "signup", "boot"}
               /\ jobs[j].plugin \in Plugins \cup {None} /\ jobs[j].dir \in Dirs \cup {None}
               /\ jobs[j].todo \subseteq TodoOf(jobs[j])
               /\ jobs[j].user \in Users \cup {None} /\ jobs[j].seen \in Table \cup {None}
    <2>1. jobs[j] \in Job /\ JobOK(jobs[j])
      BY <1>5 DEF TypeInv, JobsOK
    <2>2. /\ jobs[j].op \in Ops /\ jobs[j].plugin \in Plugins \cup {None} /\ jobs[j].dir \in Dirs \cup {None}
          /\ jobs[j].user \in Users \cup {None} /\ jobs[j].seen \in Table \cup {None}
      BY <2>1, JobFields
    <2>3. jobs[j].todo \subseteq TodoOf(jobs[j])
      <3>1. CASE jobs[j].op = "boot"
        BY <2>1, <3>1 DEF JobOK, BootOK, TodoOf
      <3>2. CASE jobs[j].op = "signup"
        <4>1. SignupOK(jobs[j])
          BY <2>1, <3>2 DEF JobOK
        <4>2. TodoOf(jobs[j]) = Infos
          BY <3>2 DEF TodoOf
        <4> QED
          BY <4>1, <4>2 DEF SignupOK
      <3>3. CASE jobs[j].op \notin {"boot", "signup"}
        <4>1. FlowOK(jobs[j])
          BY <2>1, <3>3 DEF JobOK
        <4>2. PICK pc, todo : pc = jobs[j].pc /\ todo = jobs[j].todo
          OBVIOUS
        <4>3. todo \subseteq (CASE pc \in {"connect", "connecting", "closing"} -> Servers
                               [] pc \in {"sync", "commit"} -> Users
                               [] OTHER -> {})
          BY <4>1, <4>2 DEF FlowOK
        <4>4. TodoOf(jobs[j]) = IF pc \in {"sync", "commit"} THEN Users ELSE Servers
          BY <3>3, <4>2 DEF TodoOf
        <4>5. CASE pc \in {"sync", "commit"}
          BY <4>2, <4>3, <4>4, <4>5
        <4>6. CASE pc \in {"connect", "connecting", "closing"}
          BY <4>2, <4>3, <4>4, <4>6
        <4>7. CASE pc \notin {"sync", "commit", "connect", "connecting", "closing"}
          BY <4>2, <4>3, <4>4, <4>7
        <4> QED
          BY <4>5, <4>6, <4>7
      <3> QED
        BY <3>1, <3>2, <3>3
    <2> QED
      BY <2>2, <2>3 DEF Ops
  <1> QED
    BY <1>2, <1>3, <1>4, <1>5 DEF TypeOK

(* Directories, memory, rows and requests are of their types in every      *)
(* state of every instance (plugin_manager.py, plugin_loader.py).          *)
THEOREM TypeCorrect == Spec => []TypeOK
  BY TypeInvariant, TypeInvTypes, PTL

(* Whatever is installed, updated, removed, seeded or restarted, the rows  *)
(* a user owns are written by the user only (agent_loader.py:181,          *)
(* plugin_loader.py:167).                                                  *)
THEOREM UserRowsCorrect == Spec => UserRowsAreKept
  <1>1. TypeInv /\ [Next]_vars =>
          [\A u \in Users, n \in AgentNames :
             Owned(rows[u][n]) /\ rows[u][n]' # rows[u][n] => UNCHANGED <<jobs, stops>>]_vars
    BY NextType
  <1> QED
    BY <1>1, TypeInvariant, PTL DEF Spec, UserRowsAreKept
----------------------------------------------------------------------------
(* What a step leaves of the plugins that it is not about *)

Home(p, dir) == p = dir \/ (dir \in DOMAIN External /\ External[dir][1] = p)
LabelsKept(p) ==
  \A u \in Users, n \in AgentNames :
    n[1] = p /\ rows'[u][n] # None /\ ~Owned(rows'[u][n]) => rows[u][n] # None /\ ~Owned(rows[u][n])
Frame(p) == /\ registry'[p] = registry[p] /\ loaded'[p] = loaded[p] /\ LabelsKept(p)
            /\ \A d \in Dirs : Home(p, d) => disk'[d] = disk[d]
Now(job, p) == IF Concerns(job, p) THEN Stage(job, p) ELSE Clean(p) /\ Fresh(p)

LEMMA HomeProper ==
  ASSUME NEW p \in Plugins \ tainted, NEW d
  PROVE  /\ Proper(p, d) => Home(p, d)
         /\ Home(p, d) => Proper(p, d)
  BY DEF Proper, Home

LEMMA ProperKept ==
  ASSUME NEW p, NEW d, tainted \subseteq tainted', Proper(p, d)
  PROVE  (Proper(p, d))'
  BY DEF Proper

LEMMA TaintFacts ==
  ASSUME TypeInv, TypeInv', NEW F \in SUBSET Plugins, Taint(F)
  PROVE  tainted \subseteq tainted' /\ F \subseteq tainted' /\ Alone'
  BY DEF Taint, Alone

LEMMA LabelsStay ==
  ASSUME NEW p, LabelsKept(p), NEW S, Labels(p, S)
  PROVE  (Labels(p, S))'
  BY DEF LabelsKept, Labels

LEMMA CleanStays ==
  ASSUME NEW p \in Plugins, registry'[p] = registry[p], loaded'[p] = loaded[p], LabelsKept(p), Clean(p)
  PROVE  (Clean(p))'
  <1>1. PICK l : l = loaded[p]
    OBVIOUS
  <1>2. registry[p] = SkillsOf(l) /\ Labels(p, AgentsOf(l))
    BY <1>1 DEF Clean
  <1>3. (Labels(p, AgentsOf(l)))'
    BY <1>2, LabelsStay
  <1> QED
    BY <1>1, <1>2, <1>3 DEF Clean

LEMMA InPlaceStays ==
  ASSUME NEW info, disk'[info.dir] = disk[info.dir], InPlace(info)
  PROVE  (InPlace(info))'
  BY DEF InPlace

LEMMA FreshStays ==
  ASSUME TypeInv, DirInv, NEW p \in Plugins \ tainted, loaded'[p] = loaded[p],
         \A d \in Dirs : Home(p, d) => disk'[d] = disk[d], Fresh(p)
  PROVE  (Fresh(p))'
  <1> SUFFICES ASSUME loaded[p] # None PROVE (InPlace(loaded[p]))'
    BY DEF Fresh
  <1>1. PICK l : l = loaded[p]
    OBVIOUS
  <1>2. InPlace(l) /\ l.dir \in Dirs /\ Proper(p, l.dir)
    BY <1>1, LoadedInfo DEF Fresh, DirInv, LoadedProper
  <1>3. disk'[l.dir] = disk[l.dir]
    BY <1>2, HomeProper
  <1>4. (InPlace(l))'
    BY <1>2, <1>3, InPlaceStays
  <1> QED
    BY <1>1, <1>4

LEMMA NowFrame ==
  ASSUME TypeInv, DirInv, NEW p \in Plugins \ tainted, Frame(p), Clean(p), Fresh(p)
  PROVE  (Clean(p))' /\ (Fresh(p))'
  BY CleanStays, FreshStays DEF Frame

(* The stage of a job that goes on, in front of the steps of others.       *)
LEMMA StageKept ==
  ASSUME TypeInv, DirInv, NEW p \in Plugins \ tainted, tainted \subseteq tainted',
         NEW k \in Requests \cup {Boot}, Concerns(jobs[k], p), Frame(p), NEW job, job = jobs[k], Stage(job, p)
  PROVE  (Stage(job, p))'
  <1>1. job # None /\ JobOK(job) /\ (job.op = "boot" <=> k = Boot) /\ p \in Dirs
    BY DEF Concerns, TypeInv, JobsOK, Dirs
  <1>2. \A S : Labels(p, S) => (Labels(p, S))'
    BY LabelsStay DEF Frame
  <1>3. Clean(p) => (Clean(p))'
    BY CleanStays DEF Frame
  <1>4. Fresh(p) => (Fresh(p))'
    BY FreshStays DEF Frame
  <1>5. registry'[p] = registry[p] /\ loaded'[p] = loaded[p] /\ disk'[p] = disk[p]
    BY <1>1 DEF Frame, Home
  <1>6. CASE job.op = "boot"
    <2>1. BootStage(job, p)
      BY <1>6 DEF Stage
    <2>2. (BootStage(job, p))'
      BY <1>2, <1>3, <1>4, <1>5, <2>1 DEF BootStage
    <2> QED
      BY <1>6, <2>2 DEF Stage
  <1>7. CASE job.op = "signup"
    <2>1. SignupStage(job, p)
      BY <1>7 DEF Stage
    <2>2. (SignupStage(job, p))'
      BY <1>3, <1>4, <1>5, <2>1 DEF SignupStage
    <2> QED
      BY <1>7, <2>2 DEF Stage
  <1>8. CASE job.op \notin {"boot", "signup"}
    <2>1. FlowOK(job) /\ k \in Requests /\ JobProper(job)
      BY <1>1, <1>8 DEF JobOK, DirInv
    <2>2. CASE job.pc \in Loads /\ job.info.plugin = p
      <3>1. LoadStage(job, p) /\ Proper(p, job.dir) /\ job.info.dir = job.dir /\ job.dir \in Dirs
        BY <1>8, <2>1, <2>2 DEF Stage, JobProper, FlowOK
      <3>2. disk'[job.info.dir] = disk[job.info.dir]
        BY <3>1, HomeProper DEF Frame
      <3>3. (InPlace(job.info))'
        BY <3>1, <3>2, InPlaceStays DEF LoadStage
      <3>4. (LoadStage(job, p))'
        BY <1>2, <1>3, <1>5, <3>1, <3>3 DEF LoadStage
      <3> QED
        BY <1>8, <2>2, <3>4 DEF Stage
    <2>3. CASE job.pc \in Unloads /\ job.info.plugin = p
      <3>1. UnloadStage(job, p) /\ job.pc \notin Loads
        BY <1>8, <2>3 DEF Stage, Loads, Unloads
      <3>2. (UnloadStage(job, p))'
        BY <1>2, <1>5, <3>1 DEF UnloadStage
      <3> QED
        BY <1>8, <2>3, <3>1, <3>2 DEF Stage
    <2>4. CASE ~(job.pc \in Loads /\ job.info.plugin = p) /\ ~(job.pc \in Unloads /\ job.info.plugin = p)
      <3>1. PlaceStage(job, p)
        BY <1>8, <2>4 DEF Stage
      <3>2. job.pc = "load" => job.dir \in Dirs
        BY <2>1 DEF FlowOK, Places
      <3>3. Proper(p, job.dir) => (Proper(p, job.dir))'
        BY ProperKept
      <3>4. job.pc = "load" /\ Proper(p, job.dir) => disk'[job.dir] = disk[job.dir]
        BY <3>2, HomeProper DEF Frame
      <3>5. (PlaceStage(job, p))'
        <4>1. (Clean(p))'
          BY <1>3, <3>1 DEF PlaceStage
        <4>2. CASE job.pc = "load"
          <5>1. Fresh(p) \/ (Proper(p, job.dir) /\ disk[job.dir] \in Contents)
            BY <3>1, <4>2 DEF PlaceStage
          <5>2. (Fresh(p) \/ (Proper(p, job.dir) /\ disk[job.dir] \in Contents))'
            BY <1>4, <3>3, <3>4, <4>2, <5>1
          <5> QED
            BY <4>1, <4>2, <5>2 DEF PlaceStage
        <4>3. CASE job.pc = "unload" /\ job.op = "update" /\ job.plugin = p
          BY <4>1, <4>3 DEF PlaceStage
        <4>4. CASE job.pc = "rmtree" /\ job.plugin = p
          BY <1>5, <3>1, <4>1, <4>4 DEF PlaceStage
        <4>5. CASE job.pc # "load" /\ ~(job.pc = "unload" /\ job.op = "update" /\ job.plugin = p)
                   /\ ~(job.pc = "rmtree" /\ job.plugin = p)
          <5>1. Fresh(p)
            BY <3>1, <4>5 DEF PlaceStage
          <5>2. (Fresh(p))'
            BY <1>4, <5>1
          <5> QED
            BY <4>1, <4>5, <5>2 DEF PlaceStage
        <4> QED
          BY <4>2, <4>3, <4>4, <4>5
      <3> QED
        BY <1>8, <2>4, <3>5 DEF Stage
    <2> QED
      BY <2>2, <2>3, <2>4
  <1> QED
    BY <1>6, <1>7, <1>8

LEMMA JobProperKept ==
  ASSUME NEW job, tainted \subseteq tainted', JobProper(job)
  PROVE  (JobProper(job))'
  BY ProperKept DEF JobProper

(* A step of request j: it is enough to look at the plugins the request    *)
(* works on, for these one job at a time does.                             *)
LEMMA Domain == TypeInv => DOMAIN jobs = Requests \cup {Boot}
  BY DEF TypeInv, JobsOK

LEMMA NowBefore ==
  ASSUME TypeInv, TypeInv', PluginInv, NEW j \in Requests, Others(j), Alone', tainted \subseteq tainted',
         NEW p \in Plugins \ tainted', Concerns(jobs[j], p) \/ Concerns(jobs'[j], p)
  PROVE  Now(jobs[j], p)
  <1>1. StagesOK /\ p \in Plugins \ tainted
    BY DEF PluginInv
  <1>2. CASE Concerns(jobs[j], p)
    BY <1>1, <1>2 DEF StagesOK, Now
  <1>3. CASE ~Concerns(jobs[j], p)
    <2>1. ~(Overlapping(jobs, p))'
      BY DEF Alone
    <2>2. DOMAIN jobs' = Requests \cup {Boot} /\ DOMAIN jobs = Requests \cup {Boot}
      BY Domain DEF TypeInv, JobsOK
    <2>3. ASSUME NEW k \in Requests \cup {Boot}, Concerns(jobs[k], p) PROVE FALSE
      <3>1. k # j /\ jobs'[k] = jobs[k]
        BY <1>3, <2>3 DEF Others
      <3> QED
        BY <1>3, <2>1, <2>2, <2>3, <3>1 DEF Overlapping
    <2>4. ~Busy(p)
      BY <2>2, <2>3 DEF Busy
    <2> QED
      BY <1>1, <1>3, <2>4 DEF StagesOK, Now
  <1> QED
    BY <1>2, <1>3

LEMMA StepStages ==
  ASSUME TypeInv, TypeInv', PluginInv, NEW j \in Requests, Others(j), Alone', tainted \subseteq tainted',
         NEW new, new = jobs'[j],
         \A p \in Plugins \ tainted' : ~Concerns(jobs[j], p) /\ ~Concerns(new, p) => Frame(p),
         \A p \in Plugins \ tainted' :
           Concerns(jobs[j], p) \/ Concerns(new, p) => (Now(new, p))'
  PROVE  StagesOK'
  <1>1. DOMAIN jobs' = Requests \cup {Boot} /\ DOMAIN jobs = Requests \cup {Boot}
    BY Domain DEF TypeInv, JobsOK
  <1>2. ASSUME NEW p \in Plugins \ tainted' PROVE p \in Plugins \ tainted /\ ~Overlapping(jobs, p) /\ ~(Overlapping(jobs, p))'
    BY DEF PluginInv, Alone
  <1>3. ASSUME NEW p \in Plugins \ tainted', ~(Busy(p))' PROVE (Clean(p) /\ Fresh(p))'
    <2>1. ~Concerns(new, p) /\ \A k \in Requests \cup {Boot} : ~Concerns(jobs'[k], p)
      BY <1>1, <1>3 DEF Busy
    <2>2. CASE Concerns(jobs[j], p)
      BY <2>1, <2>2 DEF Now
    <2>3. CASE ~Concerns(jobs[j], p)
      <3>1. Frame(p)
        BY <2>1, <2>3
      <3>2. ~Busy(p)
        BY <1>1, <2>1, <2>3 DEF Busy, Others
      <3>3. Clean(p) /\ Fresh(p)
        BY <1>2, <3>2 DEF PluginInv, StagesOK
      <3> QED
        BY <1>2, <3>1, <3>3, NowFrame DEF PluginInv
    <2> QED
      BY <2>2, <2>3
  <1>4. ASSUME NEW p \in Plugins \ tainted', NEW k \in Requests \cup {Boot}, Concerns(jobs'[k], p)
        PROVE  (Stage(jobs[k], p))'
    <2>1. CASE k = j
      BY <1>4, <2>1 DEF Now
    <2>2. CASE k # j
      <3>1. jobs'[k] = jobs[k]
        BY <2>2 DEF Others
      <3>2. ~Concerns(new, p)
        BY <1>1, <1>2, <1>4, <2>2 DEF Overlapping
      <3>3. ~Concerns(jobs[j], p)
        BY <1>1, <1>2, <1>4, <2>2, <3>1 DEF Overlapping
      <3>4. Frame(p)
        BY <3>2, <3>3
      <3>5. PICK job : job = jobs[k]
        OBVIOUS
      <3>6. Concerns(job, p) /\ Stage(job, p) /\ job = jobs'[k]
        BY <1>2, <1>4, <3>1, <3>5 DEF PluginInv, StagesOK
      <3>7. (Stage(job, p))'
        BY <1>2, <3>4, <3>5, <3>6, StageKept DEF PluginInv
      <3> QED
        BY <3>6, <3>7
    <2> QED
      BY <2>1, <2>2
  <1> QED
    BY <1>3, <1>4 DEF StagesOK
LEMMA DirStep ==
  ASSUME TypeInv, DirInv, NEW j \in Requests, Others(j), tainted \subseteq tainted', DiskProper', LoadedProper',
         NEW new, new = jobs'[j], new # None => (JobProper(new))'
  PROVE  DirInv'
  <1>1. ASSUME NEW k \in Requests, jobs'[k] # None PROVE (JobProper(jobs[k]))'
    <2>1. CASE k = j
      BY <1>1, <2>1
    <2>2. CASE k # j
      <3>1. PICK job : job = jobs[k] /\ job = jobs'[k]
        BY <2>2 DEF Others
      <3>2. JobProper(job)
        BY <1>1, <3>1 DEF DirInv
      <3>3. (JobProper(job))'
        BY <3>2, JobProperKept
      <3> QED
        BY <3>1, <3>3
    <2> QED
      BY <2>1, <2>2
  <1> QED
    BY <1>1 DEF DirInv

LEMMA DiskProperKept ==
  ASSUME DirInv, tainted \subseteq tainted', disk' = disk
  PROVE  DiskProper'
  BY ProperKept DEF DirInv, DiskProper

LEMMA LoadedProperKept ==
  ASSUME DirInv, tainted \subseteq tainted', loaded' = loaded
  PROVE  LoadedProper'
  BY ProperKept DEF DirInv, LoadedProper

LEMMA NowSame ==
  ASSUME NEW job, NEW p, disk' = disk, loaded' = loaded, registry' = registry, rows' = rows,
         tainted \subseteq tainted', Now(job, p)
  PROVE  (Now(job, p))'
  <1>1. /\ Clean(p) => (Clean(p))'
        /\ Fresh(p) => (Fresh(p))'
        /\ \A S : Labels(p, S) => (Labels(p, S))'
        /\ \A i : InPlace(i) => (InPlace(i))'
        /\ Proper(p, job.dir) => (Proper(p, job.dir))'
    BY ProperKept DEF Clean, Fresh, InPlace, Labels
  <1>2. CASE ~Concerns(job, p)
    BY <1>1, <1>2 DEF Now
  <1>3. CASE Concerns(job, p)
    <2>1. Stage(job, p)
      BY <1>3 DEF Now
    <2>2. BootStage(job, p) => (BootStage(job, p))'
      BY <1>1 DEF BootStage
    <2>3. SignupStage(job, p) => (SignupStage(job, p))'
      BY <1>1 DEF SignupStage
    <2>4. LoadStage(job, p) => (LoadStage(job, p))'
      BY <1>1 DEF LoadStage
    <2>5. UnloadStage(job, p) => (UnloadStage(job, p))'
      BY <1>1 DEF UnloadStage
    <2>6. PlaceStage(job, p) => (PlaceStage(job, p))'
      <3>1. /\ Fresh(p) \/ (Proper(p, job.dir) /\ disk[job.dir] \in Contents) =>
                 (Fresh(p) \/ (Proper(p, job.dir) /\ disk[job.dir] \in Contents))'
            /\ loaded[p] = None => (loaded[p] = None)'
        BY <1>1
      <3> QED
        BY <1>1, <3>1 DEF PlaceStage
    <2>7. (Stage(job, p))'
      BY <2>1, <2>2, <2>3, <2>4, <2>5, <2>6 DEF Stage
    <2> QED
      BY <1>3, <2>7 DEF Now
  <1> QED
    BY <1>2, <1>3

LEMMA Quiet ==
  ASSUME TypeInv, TypeInv', PluginInv, NEW j \in Requests, Others(j), NEW F \in SUBSET Plugins, Taint(F),
         disk' = disk, loaded' = loaded, registry' = registry, rows' = rows,
         NEW new, new = jobs'[j], new # None => JobProper(new),
         \A p \in Plugins \ tainted' : (Concerns(jobs[j], p) \/ Concerns(new, p)) /\ Now(jobs[j], p) => Now(new, p)
  PROVE  PluginInv'
  <1>1. tainted \subseteq tainted' /\ Alone'
    BY TaintFacts
  <1>2. DirInv'
    <2>1. DiskProper' /\ LoadedProper'
      BY <1>1, DiskProperKept, LoadedProperKept DEF PluginInv
    <2>2. new # None => (JobProper(new))'
      BY <1>1, JobProperKept
    <2> QED
      BY <1>1, <2>1, <2>2, DirStep DEF PluginInv
  <1>3. ASSUME NEW p \in Plugins \ tainted' PROVE Frame(p)
    BY DEF Frame, LabelsKept
  <1>4. ASSUME NEW p \in Plugins \ tainted', Concerns(jobs[j], p) \/ Concerns(new, p)
        PROVE  (Now(new, p))'
    <2>1. Now(jobs[j], p)
      BY <1>1, <1>4, NowBefore
    <2>2. Now(new, p)
      BY <1>4, <2>1
    <2> QED
      BY <1>1, <2>2, NowSame
  <1>5. StagesOK'
    BY <1>1, <1>3, <1>4, StepStages
  <1> QED
    BY <1>1, <1>2, <1>5 DEF PluginInv

(* What a job that has not read a plugin's files yet, or is done with      *)
(* them, finds and leaves.                                                 *)
Waits(job) ==
  \/ job = None
  \/ /\ job # None /\ job.op \notin {"boot", "signup"}
     /\ job.pc \in (Clones \cup {"copy", "rename", "pull"}) \/ (job.pc = "unload" /\ job.op # "update")

LEMMA WaitsNow ==
  ASSUME NEW job, Waits(job), NEW p
  PROVE  Now(job, p) <=> Clean(p) /\ Fresh(p)
  <1>1. CASE job = None
    BY <1>1 DEF Now, Concerns
  <1>2. CASE job # None
    <2>1. job.op \notin {"boot", "signup"} /\ job.pc \notin Loads /\ job.pc \notin Unloads
          /\ job.pc \notin {"load", "rmtree"} /\ (job.pc = "unload" => job.op # "update")
      BY <1>2 DEF Waits, Clones, Loads, Unloads
    <2>2. Stage(job, p) <=> PlaceStage(job, p)
      BY <2>1 DEF Stage
    <2>3. PlaceStage(job, p) <=> Clean(p) /\ Fresh(p)
      BY <2>1 DEF PlaceStage
    <2> QED
      BY <2>2, <2>3 DEF Now
  <1> QED
    BY <1>1, <1>2

(* The directory that a request works on is none of another plugin.        *)
LEMMA HomeConcerned ==
  ASSUME NEW job, job # None, JobProper(job), job.op \in Ops \ {"signup", "boot"},
         job.plugin \in Plugins, NEW q \in Plugins \ tainted, Home(q, job.dir), tainted \subseteq Plugins
  PROVE  Concerns(job, q)
  <1>1. CASE q = job.dir
    BY <1>1 DEF Concerns
  <1>2. CASE job.dir \in DOMAIN External /\ External[job.dir][1] = q
    <2>1. job.dir \notin Plugins /\ job.dir # None
      BY <1>2, ExternalFacts, Given
    <2>2. job.op \in {"install", "update", "reload", "uninstall"}
      <3>1. job.op # "clone"
        BY <2>1 DEF JobProper
      <3> QED
        BY <3>1 DEF Ops
    <2>3. Proper(job.plugin, job.dir)
      BY <2>2 DEF JobProper
    <2>4. job.plugin = q
      <3>1. job.plugin # job.dir
        BY <2>1
      <3>2. CASE External[job.dir][1] = job.plugin
        BY <1>2, <3>2
      <3>3. CASE {job.plugin, job.dir} \subseteq tainted
        <4>1. job.dir \in tainted
          BY <3>3
        <4> QED
          BY <2>1, <4>1
      <3> QED
        BY <2>3, <3>1, <3>2, <3>3 DEF Proper
    <2> QED
      BY <2>4 DEF Concerns
  <1> QED
    BY <1>1, <1>2 DEF Home

(* A plugin that is not tainted is the one a directory belongs to.         *)
LEMMA OneHome ==
  ASSUME TypeInv, NEW d \in Dirs, NEW p \in Plugins, NEW q \in Plugins \ tainted, Proper(p, d), Proper(q, d)
  PROVE  p = q
  <1>1. d \in DOMAIN External => d \notin Plugins
    BY ExternalFacts
  <1> QED
    BY <1>1 DEF Proper, TypeInv, BoundsOK
LEMMA Waiting ==
  ASSUME TypeInv, TypeInv', PluginInv, NEW j \in Requests, Others(j), Taint({}),
         disk' = disk, loaded' = loaded, registry' = registry, rows' = rows,
         NEW new, new = jobs'[j], new # None => JobProper(new), Waits(jobs[j]), Waits(new)
  PROVE  PluginInv'
  <1>1. ASSUME NEW p \in Plugins \ tainted', Now(jobs[j], p) PROVE Now(new, p)
    BY <1>1, WaitsNow
  <1> QED
    BY <1>1, Quiet

(* The steps of a request that change neither a plugin nor its files.      *)
LEMMA ArrivalInv ==
  ASSUME TypeInv, PluginInv, NEW j \in Requests, NEW p \in Plugins,
         InstallFromGit(j, p) \/ Update(j, p) \/ Reload(j, p) \/ Uninstall(j, p)
           \/ ChatUpdate(j, p) \/ ChatUninstall(j, p)
  PROVE  PluginInv'
  <1> DEFINE new == jobs'[j]
  <1>1. /\ TypeInv' /\ Others(j) /\ jobs[j] = None
        /\ \/ \E pc \in {"clone", "clean"} : Became(j, "clone", p, None, pc)
           \/ Became(j, "update", p, p, "pull")
           \/ Became(j, "reload", p, p, "unload")
           \/ Became(j, "uninstall", p, p, "unload")
           \/ loaded[p] # None /\ Became(j, "update", p, loaded[p].dir, "pull")
           \/ loaded[p] # None /\ Became(j, "uninstall", p, loaded[p].dir, "unload")
    <2>1. CASE InstallFromGit(j, p)
      BY <2>1, GitStep
    <2>2. CASE Update(j, p)
      BY <2>2, UpdateStep
    <2>3. CASE Reload(j, p)
      BY <2>3, ReloadStep
    <2>4. CASE Uninstall(j, p)
      BY <2>4, UninstallStep
    <2>5. CASE ChatUpdate(j, p)
      BY <2>5, ChatUpdateStep DEF ChatUpdate
    <2>6. CASE ChatUninstall(j, p)
      BY <2>6, ChatUninstallStep DEF ChatUninstall
    <2> QED
      BY <2>1, <2>2, <2>3, <2>4, <2>5, <2>6
  <1>2. Taint({}) /\ UNCHANGED <<disk, memory, rows>>
    BY DEF InstallFromGit, Update, Reload, Uninstall, ChatUpdate, ChatUninstall
  <1>3. disk' = disk /\ loaded' = loaded /\ registry' = registry /\ rows' = rows
    BY <1>2 DEF memory
  <1>4. loaded[p] # None => Proper(p, loaded[p].dir)
    BY DEF PluginInv, DirInv, LoadedProper
  <1>5. new # None /\ Waits(new)
    BY <1>1 DEF Became, Waits, Clones
  <1>6. JobProper(new)
    BY <1>1, <1>4 DEF Became, JobProper, Proper, Loads
  <1>7. Waits(jobs[j])
    BY <1>1 DEF Waits
  <1> QED
    BY <1>1, <1>2, <1>3, <1>5, <1>6, <1>7, Waiting

LEMMA CloneInv ==
  ASSUME TypeInv, PluginInv, NEW j \in Requests,
         \/ CleanStaging(j) \/ StartClone(j) \/ CloneFails(j) \/ GiveUp(j) \/ Validate(j)
         \/ \E c \in Contents : EndClone(j, c)
  PROVE  PluginInv'
  <1> DEFINE old == jobs[j]
  <1> DEFINE new == jobs'[j]
  <1>1. old # None /\ old.op = "clone" /\ old.pc \in Clones
    <2>1. PICK pc \in Clones : At(j, pc)
      BY DEF CleanStaging, StartClone, CloneFails, GiveUp, Validate, EndClone, Clones
    <2>2. old # None /\ old.pc = pc /\ FlowOK(old)
      BY <2>1, FlowAt DEF Clones
    <2> QED
      BY <2>2 DEF FlowOK
  <1>2. Taint({}) /\ UNCHANGED <<disk, memory, rows>>
    BY DEF CleanStaging, StartClone, CloneFails, GiveUp, Validate, EndClone
  <1>3. disk' = disk /\ loaded' = loaded /\ registry' = registry /\ rows' = rows
    BY <1>2 DEF memory
  <1>4. /\ TypeInv' /\ Others(j)
        /\ \/ Ended(j)
           \/ \E pc \in Clones : Goes(j, pc)
           \/ \E dir \in Plugins : Became(j, old.op, old.plugin, dir, "rename")
    <2>1. CASE CleanStaging(j)
      BY <2>1, CleanStep DEF Clones
    <2>2. CASE StartClone(j)
      BY <2>2, StartStep DEF Clones
    <2>3. CASE CloneFails(j)
      BY <2>3, CloneFailsStep DEF Clones
    <2>4. CASE GiveUp(j)
      BY <2>4, GiveUpStep DEF Ended
    <2>5. CASE Validate(j)
      BY <2>5, ValidateStep DEF Clones
    <2>6. CASE \E c \in Contents : EndClone(j, c)
      BY <2>6, EndStep DEF Clones
    <2> QED
      BY <2>1, <2>2, <2>3, <2>4, <2>5, <2>6
  <1>5. JobProper(old)
    BY <1>1 DEF PluginInv, DirInv
  <1>6. new # None => JobProper(new)
    BY <1>1, <1>4, <1>5 DEF Became, Goes, Ended, JobProper, Clones, Loads
  <1>7. Waits(old) /\ Waits(new)
    BY <1>1, <1>4 DEF Waits, Became, Goes, Ended
  <1> QED
    BY <1>2, <1>3, <1>4, <1>6, <1>7, Waiting
(* A load that goes on is in the same stage.                               *)
LEMMA LoadOn ==
  ASSUME NEW old, NEW new, old # None, new # None, old.op \notin {"boot", "signup"}, new.op = old.op,
         new.plugin = old.plugin, new.dir = old.dir, new.info = old.info, old.pc \in Loads, new.pc \in Loads,
         old.pc \in {"connect", "connecting"} <=> new.pc \in {"connect", "connecting"}
  PROVE  /\ JobProper(old) => JobProper(new)
         /\ \A p \in Plugins : (Concerns(old, p) <=> Concerns(new, p)) /\ (Now(old, p) => Now(new, p))
  <1>1. JobProper(old) => JobProper(new)
    BY DEF JobProper, Loads
  <1>2. ASSUME NEW p \in Plugins PROVE (Concerns(old, p) <=> Concerns(new, p)) /\ (Now(old, p) => Now(new, p))
    <2>1. Concerns(old, p) <=> Concerns(new, p)
      BY DEF Concerns
    <2>2. LoadStage(old, p) => LoadStage(new, p)
      BY DEF LoadStage
    <2>3. PlaceStage(old, p) => PlaceStage(new, p)
      BY DEF PlaceStage, Loads
    <2>4. old.pc \notin Unloads /\ new.pc \notin Unloads
      BY DEF Loads, Unloads
    <2>5. Stage(old, p) => Stage(new, p)
      <3>1. CASE old.info.plugin = p
        BY <2>2, <3>1 DEF Stage
      <3>2. CASE old.info.plugin # p
        BY <2>3, <2>4, <3>2 DEF Stage
      <3> QED
        BY <3>1, <3>2
    <2> QED
      BY <2>1, <2>5 DEF Now
  <1> QED
    BY <1>1, <1>2

LEMMA LoadOnInv ==
  ASSUME TypeInv, TypeInv', PluginInv, NEW j \in Requests, Others(j), Taint({}),
         disk' = disk, loaded' = loaded, registry' = registry, rows' = rows,
         jobs[j] # None, jobs[j].op \notin {"boot", "signup"}, jobs[j].pc \in Loads,
         NEW pc \in Loads, Carries(j, pc, jobs[j].info),
         jobs[j].pc \in {"connect", "connecting"} <=> pc \in {"connect", "connecting"}
  PROVE  PluginInv'
  <1> DEFINE old == jobs[j]
  <1> DEFINE new == jobs'[j]
  <1>1. /\ new # None /\ new.op = old.op /\ new.plugin = old.plugin
        /\ new.dir = old.dir /\ new.pc = pc /\ new.info = old.info
    BY DEF Carries
  <1>2. JobProper(old)
    BY DEF PluginInv, DirInv
  <1> HIDE DEF old, new
  <1>3. /\ JobProper(old) => JobProper(new)
        /\ \A p \in Plugins : (Concerns(old, p) <=> Concerns(new, p)) /\ (Now(old, p) => Now(new, p))
    BY <1>1, LoadOn DEF old
  <1> QED
    BY <1>2, <1>3, Quiet DEF old, new

LEMMA LoadQuietInv ==
  ASSUME TypeInv, PluginInv, NEW j \in Requests,
         \/ SelectUsers(j)
         \/ \E s \in Servers : Connect(j, s)
         \/ \E u \in Users : SyncRead(j, u)
  PROVE  PluginInv'
  <1>1. CASE SelectUsers(j)
    <2>1. /\ TypeInv' /\ Others(j) /\ Carries(j, "sync", jobs[j].info)
          /\ UNCHANGED <<disk, staging>> /\ UNCHANGED memory /\ UNCHANGED <<users, rows>>
      BY <1>1, SelectStep
    <2>2. Taint({}) /\ At(j, "users")
      BY <1>1 DEF SelectUsers
    <2>3. jobs[j] # None /\ jobs[j].op \notin {"boot", "signup"} /\ jobs[j].pc = "users"
      BY <2>2, FlowAt
    <2>4. disk' = disk /\ loaded' = loaded /\ registry' = registry /\ rows' = rows
      BY <2>1 DEF memory
    <2>5. "users" \in Loads /\ "sync" \in Loads
      BY DEF Loads
    <2> QED
      BY <2>1, <2>2, <2>3, <2>4, <2>5, LoadOnInv
  <1>2. CASE \E s \in Servers : Connect(j, s)
    <2>1. /\ TypeInv' /\ Others(j) /\ Carries(j, "connecting", jobs[j].info)
          /\ disk' = disk /\ loaded' = loaded /\ registry' = registry /\ rows' = rows
      BY <1>2, ConnectStep
    <2>2. Taint({}) /\ At(j, "connect")
      BY <1>2 DEF Connect
    <2>3. jobs[j] # None /\ jobs[j].op \notin {"boot", "signup"} /\ jobs[j].pc = "connect"
      BY <2>2, FlowAt
    <2>5. "connect" \in Loads /\ "connecting" \in Loads
      BY DEF Loads
    <2> QED
      BY <2>1, <2>2, <2>3, <2>5, LoadOnInv
  <1>3. CASE \E u \in Users : SyncRead(j, u)
    <2>1. /\ TypeInv' /\ Others(j) /\ Carries(j, "commit", jobs[j].info)
          /\ UNCHANGED <<disk, staging>> /\ UNCHANGED memory /\ UNCHANGED <<users, rows>>
      BY <1>3, ReadStep
    <2>2. Taint({}) /\ At(j, "sync")
      <3>1. PICK u \in Users : SyncRead(j, u)
        BY <1>3
      <3> QED
        BY <3>1, Zenon DEF SyncRead
    <2>3. jobs[j] # None /\ jobs[j].op \notin {"boot", "signup"} /\ jobs[j].pc = "sync"
      BY <2>2, FlowAt
    <2>4. disk' = disk /\ loaded' = loaded /\ registry' = registry /\ rows' = rows
      BY <2>1 DEF memory
    <2>5. "sync" \in Loads /\ "commit" \in Loads
      BY DEF Loads
    <2> QED
      BY <2>1, <2>2, <2>3, <2>4, <2>5, LoadOnInv
  <1> QED
    BY <1>1, <1>2, <1>3

(* A plugin that a load is not about is as it was before.                  *)
LEMMA LoadAside ==
  ASSUME NEW job, job # None, job.op \notin {"boot", "signup"}, job.pc \in Loads,
         NEW p, job.info.plugin # p, Now(job, p)
  PROVE  Clean(p) /\ Fresh(p)
  <1>1. job.pc \notin Unloads /\ job.pc \notin {"load", "unload", "rmtree"}
    BY DEF Loads, Unloads
  <1>2. Stage(job, p) => PlaceStage(job, p)
    BY <1>1 DEF Stage
  <1> QED
    BY <1>1, <1>2 DEF Now, PlaceStage

LEMMA LoadFailsInv ==
  ASSUME TypeInv, PluginInv, NEW j \in Requests, LoadFails(j)
  PROVE  PluginInv'
  <1>1. /\ TypeInv' /\ Others(j) /\ Ended(j) /\ jobs[j].info \in Infos /\ Taint({jobs[j].info.plugin})
        /\ UNCHANGED <<disk, staging>> /\ UNCHANGED memory /\ UNCHANGED <<users, rows>>
    BY LoadFailsStep
  <1>2. disk' = disk /\ loaded' = loaded /\ registry' = registry /\ rows' = rows
    BY <1>1 DEF memory
  <1>3. jobs[j] # None /\ jobs[j].op \notin {"boot", "signup"} /\ jobs[j].pc \in Loads
    BY FlowAt DEF LoadFails, Loads
  <1>4. {jobs[j].info.plugin} \in SUBSET Plugins
    BY <1>1, InfoFacts
  <1>5. jobs[j].info.plugin \in tainted'
    BY <1>1, <1>4, TaintFacts
  <1>6. ASSUME NEW p \in Plugins \ tainted', Now(jobs[j], p) PROVE Now(None, p)
    BY <1>3, <1>5, <1>6, LoadAside DEF Now, Concerns
  <1> QED
    BY <1>1, <1>2, <1>4, <1>6, Quiet DEF Ended
LEMMA SyncFailsInv ==
  ASSUME TypeInv, PluginInv, NEW j \in Requests, SyncFails(j)
  PROVE  PluginInv'
  <1>1. /\ TypeInv' /\ Others(j) /\ At(j, "commit")
        /\ \/ jobs[j].op = "signup" /\ Ended(j)
           \/ jobs[j].op # "signup" /\ Resumes(j)
        /\ UNCHANGED <<disk, staging>> /\ UNCHANGED memory /\ UNCHANGED <<users, rows>>
    BY SyncFailsStep
  <1>2. disk' = disk /\ loaded' = loaded /\ registry' = registry /\ rows' = rows
    BY <1>1 DEF memory
  <1>3. jobs[j] # None /\ jobs[j].op # "boot" /\ jobs[j].pc = "commit"
    BY <1>1, AtFits DEF Fits
  <1>4. Taint({})
    BY DEF SyncFails
  <1>5. CASE jobs[j].op = "signup" /\ Ended(j)
    <2>1. ASSUME NEW p \in Plugins \ tainted', Now(jobs[j], p) PROVE Now(None, p)
      BY <1>3, <1>5, <2>1 DEF Now, Concerns, Stage, SignupStage
    <2> QED
      BY <1>1, <1>2, <1>4, <1>5, <2>1, Quiet DEF Ended
  <1>6. CASE jobs[j].op # "signup" /\ Resumes(j)
    <2>1. "sync" \in Loads /\ "commit" \in Loads
      BY DEF Loads
    <2>2. Carries(j, "sync", jobs[j].info)
      BY <1>6 DEF Resumes
    <2> QED
      BY <1>1, <1>2, <1>3, <1>4, <1>6, <2>1, <2>2, LoadOnInv
  <1> QED
    BY <1>1, <1>5, <1>6

(* A signup finds what a plugin has in its directory and in the list.      *)
LEMMA SignupNow ==
  ASSUME NEW job, job # None, job.op = "signup", NEW p
  PROVE  Now(job, p) <=> SignupStage(job, p)
  BY DEF Now, Concerns, Stage

LEMMA SignUpInv ==
  ASSUME TypeInv, PluginInv, NEW j \in Requests, NEW u \in Users, SignUp(j, u)
  PROVE  PluginInv'
  <1> DEFINE new == jobs'[j]
  <1>1. /\ TypeInv' /\ Others(j) /\ jobs[j] = None /\ Became(j, "signup", None, None, "list") /\ new.todo = {}
        /\ UNCHANGED <<disk, staging>> /\ UNCHANGED memory /\ UNCHANGED rows
    BY SignUpStep
  <1>2. disk' = disk /\ loaded' = loaded /\ registry' = registry /\ rows' = rows
    BY <1>1 DEF memory
  <1>3. Taint({})
    BY DEF SignUp
  <1>4. new # None /\ new.op = "signup" /\ new.pc = "list"
    BY <1>1 DEF Became
  <1> HIDE DEF new
  <1>5. ASSUME NEW p \in Plugins \ tainted', Now(None, p) PROVE Now(new, p)
    <2>1. Clean(p) /\ Fresh(p)
      BY <1>5, WaitsNow DEF Waits
    <2>2. SignupStage(new, p)
      BY <1>1, <1>4, <2>1 DEF SignupStage, new
    <2> QED
      BY <1>4, <2>2, SignupNow
  <1>6. JobProper(new)
    BY <1>4 DEF JobProper
  <1> QED
    BY <1>1, <1>2, <1>3, <1>5, <1>6, Quiet DEF new

LEMMA ListInv ==
  ASSUME TypeInv, PluginInv, NEW j \in Requests, ListPlugins(j)
  PROVE  PluginInv'
  <1> DEFINE old == jobs[j]
  <1> DEFINE new == jobs'[j]
  <1>1. /\ TypeInv' /\ Others(j) /\ Carries(j, "seed", old.info) /\ old.op = "signup" /\ new.todo = list_plugins
        /\ UNCHANGED <<disk, staging>> /\ UNCHANGED memory /\ UNCHANGED <<users, rows>>
    BY ListStep
  <1>2. disk' = disk /\ loaded' = loaded /\ registry' = registry /\ rows' = rows
    BY <1>1 DEF memory
  <1>3. Taint({}) /\ At(j, "list")
    BY DEF ListPlugins
  <1>4. old # None /\ new # None /\ new.op = "signup" /\ new.pc = "seed"
    BY <1>1, <1>3, SignupAt DEF Carries
  <1>5. \A p \in Plugins : \A i \in list_plugins : i.plugin = p => i = loaded[p]
    BY LoadedInfo DEF list_plugins
  <1> HIDE DEF old, new
  <1>6. ASSUME NEW p \in Plugins \ tainted', Now(old, p) PROVE Now(new, p)
    <2>1. Clean(p) /\ Fresh(p)
      BY <1>1, <1>4, <1>6, SignupNow DEF SignupStage
    <2>2. \A i \in new.todo : i.plugin = p => i = loaded[p]
      BY <1>1, <1>5 DEF new
    <2>3. SignupStage(new, p)
      BY <1>4, <2>1, <2>2 DEF SignupStage
    <2> QED
      BY <1>4, <2>3, SignupNow
  <1>7. JobProper(new)
    BY <1>4 DEF JobProper
  <1> QED
    BY <1>1, <1>2, <1>3, <1>6, <1>7, Quiet DEF old, new

LEMMA SeedInv ==
  ASSUME TypeInv, PluginInv, NEW j \in Requests, Seed(j)
  PROVE  PluginInv'
  <1> DEFINE old == jobs[j]
  <1> DEFINE new == jobs'[j]
  <1>1. /\ TypeInv' /\ Others(j) /\ old.op = "signup" /\ old.pc = "seed"
        /\ UNCHANGED <<disk, staging>> /\ UNCHANGED memory /\ UNCHANGED <<users, rows>>
        /\ \/ Ended(j)
           \/ \E i \in old.todo :
                /\ i \in Infos /\ new.todo = old.todo \ {i}
                /\ \/ Carries(j, "seed", old.info)
                   \/ \E info \in Carried : /\ info.plugin = i.plugin /\ info.agents = Found(i)
                                            /\ Carries(j, "commit", info)
    BY SeedStep
  <1>2. disk' = disk /\ loaded' = loaded /\ registry' = registry /\ rows' = rows
    BY <1>1 DEF memory
  <1>3. Taint({}) /\ At(j, "seed")
    BY Zenon DEF Seed
  <1>4. old # None
    BY <1>3, SignupAt
  <1>5. ASSUME NEW p \in Plugins \ tainted', Now(old, p) PROVE Now(new, p)
    <2>1. Clean(p) /\ Fresh(p) /\ \A i \in old.todo : i.plugin = p => i = loaded[p]
      BY <1>1, <1>4, <1>5, SignupNow DEF SignupStage
    <2>2. CASE Ended(j)
      BY <2>1, <2>2 DEF Ended, Now, Concerns
    <2>3. ASSUME NEW i \in old.todo, i \in Infos, new.todo = old.todo \ {i}, Carries(j, "seed", old.info)
          PROVE  Now(new, p)
      <3>1. new # None /\ new.op = "signup" /\ new.pc = "seed"
        BY <1>1, <2>3 DEF Carries
      <3>2. SignupStage(new, p)
        BY <2>1, <2>3, <3>1 DEF SignupStage
      <3> QED
        BY <3>1, <3>2, SignupNow
    <2>4. ASSUME NEW i \in old.todo, i \in Infos, new.todo = old.todo \ {i},
                 NEW info \in Carried, info.plugin = i.plugin, info.agents = Found(i), Carries(j, "commit", info)
          PROVE  Now(new, p)
      <3>1. new # None /\ new.op = "signup" /\ new.pc = "commit" /\ new.info = info
        BY <1>1, <2>4 DEF Carries
      <3>2. ASSUME i.plugin = p PROVE loaded[p] # None /\ Found(i) \subseteq loaded[p].agents
        <4>1. i = loaded[p] /\ i # None
          BY <2>1, <2>4, <3>2, Given
        <4>2. disk[i.dir] \in Contents /\ i = PluginInfo(disk[i.dir], i.dir)
          BY <2>1, <4>1 DEF Fresh, InPlace
        <4>3. i.agents = Manifest[disk[i.dir]].agents
          BY <2>4, <4>2, InfoFacts, InfoOf
        <4> QED
          BY <4>1, <4>2, <4>3 DEF Found
      <3>3. SignupStage(new, p)
        BY <2>1, <2>4, <3>1, <3>2 DEF SignupStage
      <3> QED
        BY <3>1, <3>3, SignupNow
    <2> QED
      BY <1>1, <2>2, <2>3, <2>4
  <1>6. new # None => JobProper(new)
    <2>1. new # None => new.op = "signup" /\ new.pc \in {"seed", "commit"}
      BY <1>1 DEF Carries, Ended
    <2> QED
      BY <2>1 DEF JobProper
  <1> HIDE DEF old, new
  <1> QED
    BY <1>1, <1>2, <1>3, <1>5, <1>6, Quiet DEF old, new
----------------------------------------------------------------------------
(* The steps that change a directory *)

LEMMA CleanSame ==
  ASSUME loaded' = loaded, registry' = registry, rows' = rows, NEW p, Clean(p)
  PROVE  (Clean(p))'
  BY DEF Clean, Labels

LEMMA FreshDisk ==
  ASSUME TypeInv, loaded' = loaded, NEW p \in Plugins, Fresh(p), NEW d \in Dirs,
         disk[d] \notin Contents \/ disk'[d] = disk[d], \A e \in Dirs \ {d} : disk'[e] = disk[e]
  PROVE  (Fresh(p))'
  <1> SUFFICES ASSUME loaded[p] # None PROVE (InPlace(loaded[p]))'
    BY DEF Fresh
  <1>1. PICK l : l = loaded[p]
    OBVIOUS
  <1>2. InPlace(l) /\ l.dir \in Dirs
    BY <1>1, LoadedInfo DEF Fresh
  <1>3. disk'[l.dir] = disk[l.dir]
    BY <1>2 DEF InPlace
  <1>4. (InPlace(l))'
    BY <1>2, <1>3, InPlaceStays
  <1> QED
    BY <1>1, <1>4

LEMMA WaitsNext ==
  ASSUME NEW job, Waits(job), NEW p, (Clean(p))', (Fresh(p))'
  PROVE  (Now(job, p))'
  <1>1. CASE job = None
    BY <1>1 DEF Now, Concerns
  <1>2. CASE job # None
    <2>1. job.op \notin {"boot", "signup"} /\ job.pc \notin Loads /\ job.pc \notin Unloads
          /\ job.pc \notin {"load", "rmtree"} /\ (job.pc = "unload" => job.op # "update")
      BY <1>2 DEF Waits, Clones, Loads, Unloads
    <2>2. (PlaceStage(job, p))'
      BY <2>1 DEF PlaceStage
    <2> QED
      BY <2>1, <2>2 DEF Stage, Now
  <1> QED
    BY <1>1, <1>2

LEMMA LoadNext ==
  ASSUME NEW job, job # None, job.op \notin {"boot", "signup"}, job.pc = "load", NEW p, (Clean(p))',
         \/ (Fresh(p))'
         \/ Concerns(job, p) /\ (Proper(p, job.dir))' /\ disk'[job.dir] \in Contents
  PROVE  (Now(job, p))'
  <1>1. job.pc \notin Loads /\ job.pc \notin Unloads
    BY DEF Loads, Unloads
  <1>2. CASE (Fresh(p))'
    <2>1. (PlaceStage(job, p))'
      BY <1>2 DEF PlaceStage
    <2> QED
      BY <1>1, <1>2, <2>1 DEF Stage, Now
  <1>3. CASE Concerns(job, p) /\ (Proper(p, job.dir))' /\ disk'[job.dir] \in Contents
    <2>1. (PlaceStage(job, p))'
      BY <1>3 DEF PlaceStage
    <2>2. (Concerns(job, p))'
      BY <1>3 DEF Concerns
    <2> QED
      BY <1>1, <2>1, <2>2 DEF Stage, Now
  <1> QED
    BY <1>2, <1>3

LEMMA DiskInv ==
  ASSUME TypeInv, TypeInv', PluginInv, NEW j \in Requests, Others(j), NEW F \in SUBSET Plugins, Taint(F),
         loaded' = loaded, registry' = registry, rows' = rows,
         NEW d \in Dirs, \A e \in Dirs \ {d} : disk'[e] = disk[e],
         NEW c, c = disk'[d], c \in Contents => (Proper(c[1], d))',
         NEW new, new = jobs'[j], new # None => JobProper(new),
         \A p \in Plugins \ tainted' : Home(p, d) => Concerns(jobs[j], p) \/ Concerns(new, p),
         \A p \in Plugins \ tainted' : (Concerns(jobs[j], p) \/ Concerns(new, p)) /\ Now(jobs[j], p) => (Now(new, p))'
  PROVE  PluginInv'
  <1>1. tainted \subseteq tainted' /\ Alone'
    BY TaintFacts
  <1>2. DirInv'
    <2>1. LoadedProper'
      BY <1>1, LoadedProperKept DEF PluginInv
    <2>2. DiskProper'
      <3>1. ASSUME NEW e \in Dirs, disk'[e] \in Contents PROVE (Proper(disk[e][1], e))'
        <4>1. PICK x : x = disk'[e]
          OBVIOUS
        <4>2. CASE e = d
          BY <3>1, <4>1, <4>2
        <4>3. CASE e # d
          <5>1. x \in Contents /\ Proper(x[1], e)
            BY <3>1, <4>1, <4>3 DEF PluginInv, DirInv, DiskProper
          <5>2. (Proper(x[1], e))'
            BY <1>1, <5>1, ProperKept
          <5> QED
            BY <4>1, <5>2
        <4> QED
          BY <4>2, <4>3
      <3> QED
        BY <3>1 DEF DiskProper
    <2>3. new # None => (JobProper(new))'
      BY <1>1, JobProperKept
    <2> QED
      BY <1>1, <2>1, <2>2, <2>3, DirStep DEF PluginInv
  <1>3. ASSUME NEW p \in Plugins \ tainted', ~Concerns(jobs[j], p), ~Concerns(new, p) PROVE Frame(p)
    BY <1>3 DEF Frame, LabelsKept
  <1>4. ASSUME NEW p \in Plugins \ tainted', Concerns(jobs[j], p) \/ Concerns(new, p)
        PROVE  (Now(new, p))'
    <2>1. Now(jobs[j], p)
      BY <1>1, <1>4, NowBefore
    <2> QED
      BY <1>4, <2>1
  <1>5. StagesOK'
    BY <1>1, <1>3, <1>4, StepStages
  <1> QED
    BY <1>1, <1>2, <1>5 DEF PluginInv

LEMMA InstallInv ==
  ASSUME TypeInv, PluginInv, NEW j \in Requests, NEW p \in Plugins, InstallFromPath(j, p)
  PROVE  PluginInv'
  <1>0. PICK new : new = jobs'[j]
    OBVIOUS
  <1>1. TypeInv' /\ Others(j) /\ jobs[j] = None /\ Became(j, "install", p, p, "copy")
    BY InstallStep
  <1>2. Taint({}) /\ UNCHANGED memory /\ UNCHANGED rows /\ disk[p] = None /\ disk' = [disk EXCEPT ![p] = Partial]
    BY DEF InstallFromPath
  <1>3. loaded' = loaded /\ registry' = registry /\ rows' = rows
    BY <1>2 DEF memory
  <1>4. p \in Dirs /\ p \notin DOMAIN External /\ disk'[p] = Partial /\ \A e \in Dirs \ {p} : disk'[e] = disk[e]
    BY <1>2, Given DEF Dirs, TypeInv, DiskOK
  <1>5. new # None /\ new.op = "install" /\ new.plugin = p /\ new.dir = p /\ new.pc = "copy"
    BY <1>0, <1>1 DEF Became
  <1>6. JobProper(new)
    BY <1>5 DEF JobProper, Proper, Loads
  <1>7. \A q \in Plugins \ tainted' : Home(q, p) => Concerns(new, q)
    BY <1>4, <1>5 DEF Home, Concerns
  <1>8. ASSUME NEW q \in Plugins \ tainted', Now(jobs[j], q) PROVE (Now(new, q))'
    <2>1. Clean(q) /\ Fresh(q)
      BY <1>1, <1>8 DEF Now, Concerns
    <2>2. (Clean(q))'
      BY <1>3, <2>1, CleanSame
    <2>3. disk[p] \notin Contents
      BY <1>2, Given
    <2>4. (Fresh(q))'
      BY <1>3, <1>4, <2>1, <2>3, FreshDisk
    <2>5. Waits(new)
      BY <1>5 DEF Waits
    <2> QED
      BY <2>2, <2>4, <2>5, WaitsNext
  <1>9. PICK c : c = disk'[p] /\ c \notin Contents
    BY <1>4, Given
  <1> QED
    BY <1>0, <1>1, <1>2, <1>3, <1>4, <1>6, <1>7, <1>8, <1>9, DiskInv
LEMMA PlaceAt ==
  ASSUME TypeInv, PluginInv, NEW j \in Requests, NEW pc \in Places, At(j, pc), NEW old, old = jobs[j]
  PROVE  /\ old # None /\ old.pc = pc /\ old.op \in Ops \ {"signup", "boot"} /\ old.plugin \in Plugins
         /\ old.dir \in Dirs /\ old.info = None /\ JobProper(old)
         /\ \A p \in Plugins \ tainted : Home(p, old.dir) => Concerns(old, p)
  <1>1. old # None /\ old.pc = pc /\ old.op \in Ops \ {"signup", "boot"} /\ FlowOK(old)
    BY FlowAt DEF Places
  <1>2. old.plugin \in Plugins /\ old.dir \in Dirs /\ old.info = None
    BY <1>1 DEF FlowOK
  <1>3. JobProper(old)
    BY <1>1 DEF PluginInv, DirInv
  <1>4. tainted \subseteq Plugins
    BY DEF TypeInv, BoundsOK
  <1> QED
    BY <1>1, <1>2, <1>3, <1>4, HomeConcerned

LEMMA CopiedInv ==
  ASSUME TypeInv, PluginInv, NEW j \in Requests, NEW c \in Contents, Copied(j, c)
  PROVE  PluginInv'
  <1>0. PICK old, new : old = jobs[j] /\ new = jobs'[j]
    OBVIOUS
  <1>1. /\ TypeInv' /\ Others(j) /\ Goes(j, "load") /\ old.dir \in Plugins /\ c[1] = old.dir
        /\ disk'[old.dir] = (IF disk[old.dir] = Partial THEN c ELSE disk[old.dir])
        /\ \A e \in Dirs \ {old.dir} : disk'[e] = disk[e]
    BY <1>0, CopiedStep
  <1>2. At(j, "copy") /\ Taint({}) /\ UNCHANGED memory /\ UNCHANGED rows
    BY DEF Copied
  <1>3. loaded' = loaded /\ registry' = registry /\ rows' = rows
    BY <1>2 DEF memory
  <1>4. /\ old # None /\ old.pc = "copy" /\ old.op \in Ops \ {"signup", "boot"}
        /\ old.dir \in Dirs /\ old.info = None /\ JobProper(old)
        /\ \A p \in Plugins \ tainted : Home(p, old.dir) => Concerns(old, p)
    BY <1>0, <1>2, PlaceAt DEF Places
  <1>5. new # None /\ new.op = old.op /\ new.plugin = old.plugin /\ new.dir = old.dir /\ new.pc = "load" /\ new.info = None
    BY <1>0, <1>1 DEF Goes, Became
  <1>6. JobProper(new)
    BY <1>4, <1>5 DEF JobProper, Loads
  <1>7. tainted \subseteq tainted'
    BY <1>1, <1>2, TaintFacts
  <1>8. PICK x : x = disk'[old.dir]
    OBVIOUS
  <1>9. x \in Contents => (Proper(x[1], old.dir))'
    <2>1. x \in Contents => Proper(x[1], old.dir)
      BY <1>1, <1>4, <1>8 DEF Proper, PluginInv, DirInv, DiskProper
    <2> QED
      BY <1>7, <2>1, ProperKept
  <1>10. \A p \in Plugins \ tainted' : Home(p, old.dir) => Concerns(old, p) \/ Concerns(new, p)
    BY <1>4, <1>7
  <1>11. ASSUME NEW p \in Plugins \ tainted', Now(old, p) PROVE (Now(new, p))'
    <2>1. Waits(old)
      BY <1>4 DEF Waits
    <2>2. Clean(p) /\ Fresh(p)
      BY <1>11, <2>1, WaitsNow
    <2>3. (Clean(p))'
      BY <1>3, <2>2, CleanSame
    <2>4. disk[old.dir] \notin Contents \/ disk'[old.dir] = disk[old.dir]
      BY <1>1, Given
    <2>5. (Fresh(p))'
      BY <1>1, <1>3, <1>4, <2>2, <2>4, FreshDisk
    <2> QED
      BY <1>4, <1>5, <2>3, <2>5, LoadNext
  <1> QED
    BY <1>0, <1>1, <1>2, <1>3, <1>4, <1>6, <1>8, <1>9, <1>10, <1>11, DiskInv

LEMMA RenameInv ==
  ASSUME TypeInv, PluginInv, NEW j \in Requests, Rename(j)
  PROVE  PluginInv'
  <1>0. PICK old, new : old = jobs[j] /\ new = jobs'[j]
    OBVIOUS
  <1>1. /\ TypeInv' /\ Others(j) /\ old.dir \in Plugins
        /\ \/ Ended(j) /\ UNCHANGED <<disk, staging>> /\ Taint({})
           \/ /\ disk[old.dir] = None /\ Goes(j, "load")
              /\ disk'[old.dir] = staging /\ \A e \in Dirs \ {old.dir} : disk'[e] = disk[e]
              /\ Taint(IF staging \notin Contents THEN {}
                       ELSE IF staging[1] = old.dir THEN {} ELSE {old.dir, staging[1]})
    BY <1>0, RenameStep
  <1>2. At(j, "rename") /\ UNCHANGED memory /\ UNCHANGED rows
    BY DEF Rename
  <1>3. loaded' = loaded /\ registry' = registry /\ rows' = rows
    BY <1>2 DEF memory
  <1>4. /\ old # None /\ old.pc = "rename" /\ old.op \in Ops \ {"signup", "boot"}
        /\ old.dir \in Dirs /\ old.info = None /\ JobProper(old)
        /\ \A p \in Plugins \ tainted : Home(p, old.dir) => Concerns(old, p)
    BY <1>0, <1>2, PlaceAt DEF Places
  <1>5. Waits(old)
    BY <1>4 DEF Waits
  <1>6. CASE Ended(j) /\ UNCHANGED <<disk, staging>> /\ Taint({})
    <2>1. new = None /\ Waits(new)
      BY <1>0, <1>6 DEF Ended, Waits
    <2> QED
      BY <1>0, <1>1, <1>3, <1>5, <1>6, <2>1, Waiting
  <1>7. CASE /\ disk[old.dir] = None /\ Goes(j, "load")
             /\ disk'[old.dir] = staging /\ \A e \in Dirs \ {old.dir} : disk'[e] = disk[e]
             /\ Taint(IF staging \notin Contents THEN {}
                      ELSE IF staging[1] = old.dir THEN {} ELSE {old.dir, staging[1]})
    <2>1. PICK F : F = IF staging \notin Contents THEN {}
                       ELSE IF staging[1] = old.dir THEN {} ELSE {old.dir, staging[1]}
      OBVIOUS
    <2>2. F \in SUBSET Plugins /\ Taint(F)
      BY <1>1, <1>7, <2>1, ContentFacts
    <2>3. tainted \subseteq tainted' /\ F \subseteq tainted'
      BY <1>1, <2>2, TaintFacts
    <2>4. new # None /\ new.op = old.op /\ new.plugin = old.plugin /\ new.dir = old.dir /\ new.pc = "load" /\ new.info = None
      BY <1>0, <1>7 DEF Goes, Became
    <2>5. JobProper(new)
      BY <1>4, <2>4 DEF JobProper, Loads
    <2>6. PICK x : x = disk'[old.dir]
      OBVIOUS
    <2>7. x \in Contents => (Proper(x[1], old.dir))'
      BY <1>7, <2>1, <2>3, <2>6 DEF Proper
    <2>8. \A p \in Plugins \ tainted' : Home(p, old.dir) => Concerns(old, p) \/ Concerns(new, p)
      BY <1>4, <2>3
    <2>9. ASSUME NEW p \in Plugins \ tainted', Now(old, p) PROVE (Now(new, p))'
      <3>1. Clean(p) /\ Fresh(p)
        BY <1>5, <2>9, WaitsNow
      <3>2. (Clean(p))'
        BY <1>3, <3>1, CleanSame
      <3>3. disk[old.dir] \notin Contents
        BY <1>7, Given
      <3>4. (Fresh(p))'
        BY <1>3, <1>4, <1>7, <3>1, <3>3, FreshDisk
      <3> QED
        BY <1>4, <2>4, <3>2, <3>4, LoadNext
    <2> QED
      BY <1>0, <1>1, <1>3, <1>4, <1>7, <2>2, <2>5, <2>6, <2>7, <2>8, <2>9, DiskInv
  <1> QED
    BY <1>1, <1>6, <1>7
(* A request that is about no plugin but its own.                          *)
LEMMA OnlyOne ==
  ASSUME NEW job, job # None, job.op \in {"install", "update", "reload", "uninstall"}, JobProper(job),
         job.info # None => job.info.plugin = job.plugin, NEW p \in Plugins \ tainted, Concerns(job, p)
  PROVE  p = job.plugin
  <1>1. p \notin DOMAIN External
    BY Given
  <1>2. job.plugin = p \/ job.dir = p
    BY DEF Concerns
  <1>3. Proper(job.plugin, job.dir)
    BY DEF JobProper
  <1> QED
    BY <1>1, <1>2, <1>3 DEF Proper

LEMMA PullInv ==
  ASSUME TypeInv, PluginInv, NEW j \in Requests, Pull(j)
  PROVE  PluginInv'
  <1>0. PICK old, new : old = jobs[j] /\ new = jobs'[j]
    OBVIOUS
  <1>1. /\ TypeInv' /\ Others(j)
        /\ \/ Ended(j) /\ UNCHANGED disk
           \/ /\ Goes(j, "unload") /\ disk[old.dir] \in Contents
              /\ disk'[old.dir][1] = disk[old.dir][1]
              /\ \A e \in Dirs \ {old.dir} : disk'[e] = disk[e]
    BY <1>0, PullStep
  <1>2. At(j, "pull") /\ Taint({}) /\ UNCHANGED memory /\ UNCHANGED rows
    BY DEF Pull
  <1>3. loaded' = loaded /\ registry' = registry /\ rows' = rows
    BY <1>2 DEF memory
  <1>4. /\ old # None /\ old.pc = "pull" /\ old.op = "update"
        /\ old.dir \in Dirs /\ old.info = None /\ JobProper(old)
        /\ \A p \in Plugins \ tainted : Home(p, old.dir) => Concerns(old, p)
    <2>1. /\ old # None /\ old.pc = "pull"
          /\ old.dir \in Dirs /\ old.info = None /\ JobProper(old)
          /\ \A p \in Plugins \ tainted : Home(p, old.dir) => Concerns(old, p)
      BY <1>0, <1>2, PlaceAt DEF Places
    <2> QED
      BY <2>1 DEF JobProper
  <1>5. Waits(old)
    BY <1>4 DEF Waits
  <1>6. CASE Ended(j) /\ UNCHANGED disk
    <2>1. new = None /\ Waits(new)
      BY <1>0, <1>6 DEF Ended, Waits
    <2> QED
      BY <1>0, <1>1, <1>2, <1>3, <1>5, <1>6, <2>1, Waiting
  <1>7. CASE /\ Goes(j, "unload") /\ disk[old.dir] \in Contents
             /\ disk'[old.dir][1] = disk[old.dir][1]
             /\ \A e \in Dirs \ {old.dir} : disk'[e] = disk[e]
    <2>3. tainted \subseteq tainted'
      BY <1>1, <1>2, TaintFacts
    <2>4. /\ new # None /\ new.op = "update" /\ new.plugin = old.plugin /\ new.dir = old.dir /\ new.pc = "unload"
          /\ new.info = None
      BY <1>0, <1>4, <1>7 DEF Goes, Became
    <2>5. JobProper(new)
      BY <1>4, <2>4 DEF JobProper, Loads
    <2>6. PICK x : x = disk'[old.dir]
      OBVIOUS
    <2>7. (Proper(x[1], old.dir))'
      <3>1. Proper(x[1], old.dir)
        BY <1>4, <1>7, <2>6 DEF PluginInv, DirInv, DiskProper
      <3> QED
        BY <2>3, <3>1, ProperKept
    <2>8. \A p \in Plugins \ tainted' : Home(p, old.dir) => Concerns(old, p) \/ Concerns(new, p)
      BY <1>4, <2>3
    <2>9. ASSUME NEW p \in Plugins \ tainted', Concerns(old, p) \/ Concerns(new, p), Now(old, p) PROVE (Now(new, p))'
      <3>1. Clean(p)
        BY <1>5, <2>9, WaitsNow
      <3>2. (Clean(p))'
        BY <1>3, <3>1, CleanSame
      <3>3. p = new.plugin
        BY <1>4, <2>3, <2>4, <2>5, <2>9, OnlyOne
      <3>4. (PlaceStage(new, p))'
        BY <2>4, <3>2, <3>3 DEF PlaceStage
      <3>5. (Stage(new, p))' /\ (Concerns(new, p))'
        BY <2>4, <3>3, <3>4 DEF Stage, Concerns, Loads, Unloads
      <3> QED
        BY <3>5 DEF Now
    <2> QED
      BY <1>0, <1>1, <1>2, <1>3, <1>4, <1>7, <2>5, <2>6, <2>7, <2>8, <2>9, DiskInv
  <1> QED
    BY <1>1, <1>6, <1>7

LEMMA RemoveInv ==
  ASSUME TypeInv, PluginInv, NEW j \in Requests, RemoveFiles(j)
  PROVE  PluginInv'
  <1>0. PICK old : old = jobs[j]
    OBVIOUS
  <1>1. /\ TypeInv' /\ Others(j) /\ jobs'[j] = None
        /\ \A e \in Dirs : disk'[e] = IF e = old.dir /\ e \in Plugins THEN None ELSE disk[e]
    BY <1>0, RemoveStep DEF Ended
  <1>2. At(j, "rmtree") /\ Taint({}) /\ UNCHANGED memory /\ UNCHANGED rows
    BY DEF RemoveFiles
  <1>3. loaded' = loaded /\ registry' = registry /\ rows' = rows
    BY <1>2 DEF memory
  <1>4. /\ old # None /\ old.pc = "rmtree" /\ old.op \in {"update", "reload", "uninstall"}
        /\ old.dir \in Dirs /\ old.info = None /\ JobProper(old)
        /\ \A p \in Plugins \ tainted : Home(p, old.dir) => Concerns(old, p)
    <2>1. old # None /\ FlowOK(old) /\ old.pc = "rmtree"
      BY <1>0, <1>2, FlowAt
    <2>2. old.op \in {"update", "reload", "uninstall"}
      BY <2>1 DEF FlowOK
    <2> QED
      BY <1>0, <1>2, <2>2, PlaceAt DEF Places
  <1>5. tainted \subseteq tainted'
    BY <1>1, <1>2, TaintFacts
  <1>6. PICK x : x = disk'[old.dir]
    OBVIOUS
  <1>7. x \in Contents => (Proper(x[1], old.dir))'
    <2>1. x \in Contents => Proper(x[1], old.dir)
      BY <1>1, <1>4, <1>6, Given DEF PluginInv, DirInv, DiskProper
    <2> QED
      BY <1>5, <2>1, ProperKept
  <1>8. \A p \in Plugins \ tainted' : Home(p, old.dir) => Concerns(old, p) \/ Concerns(None, p)
    BY <1>4, <1>5
  <1>9. ASSUME NEW p \in Plugins \ tainted', Concerns(old, p) \/ Concerns(None, p), Now(old, p) PROVE (Now(None, p))'
    <2>1. Concerns(old, p)
      BY <1>9 DEF Concerns
    <2>2. p = old.plugin
      BY <1>4, <1>5, <2>1, OnlyOne
    <2>3. PlaceStage(old, p)
      BY <1>4, <1>9, <2>1 DEF Now, Stage, Loads, Unloads
    <2>4. Clean(p) /\ loaded[p] = None
      BY <1>4, <2>2, <2>3 DEF PlaceStage
    <2>5. (Clean(p))'
      BY <1>3, <2>4, CleanSame
    <2>6. (Fresh(p))'
      BY <1>3, <2>4 DEF Fresh
    <2> QED
      BY <2>5, <2>6, WaitsNext DEF Waits
  <1>10. \A e \in Dirs \ {old.dir} : disk'[e] = disk[e]
    BY <1>1
  <1> QED
    BY <1>0, <1>1, <1>2, <1>3, <1>4, <1>6, <1>7, <1>8, <1>9, <1>10, DiskInv

LEMMA ChatInstallInv ==
  ASSUME TypeInv, PluginInv, NEW j \in Requests, NEW dir \in Dirs, ChatInstall(j, dir)
  PROVE  PluginInv'
  <1>0. PICK new : new = jobs'[j]
    OBVIOUS
  <1>1. PICK c \in Contents :
           /\ disk[dir] \in Contents => c[1] = disk[dir][1]
           /\ disk[dir] \notin Contents => c[1] = dir
           /\ disk'[dir] = c /\ \A e \in Dirs \ {dir} : disk'[e] = disk[e]
           /\ TypeInv' /\ Others(j) /\ jobs[j] = None /\ Became(j, "install", c[1], dir, "load")
    BY ChatInstallStep
  <1>2. Taint({}) /\ UNCHANGED memory /\ UNCHANGED rows
    BY DEF ChatInstall
  <1>3. loaded' = loaded /\ registry' = registry /\ rows' = rows
    BY <1>2 DEF memory
  <1>4. new # None /\ new.op = "install" /\ new.plugin = c[1] /\ new.dir = dir /\ new.pc = "load" /\ new.info = None
    BY <1>0, <1>1 DEF Became
  <1>5. tainted \subseteq tainted'
    BY <1>1, <1>2, TaintFacts
  <1>6. Proper(c[1], dir)
    BY <1>1 DEF Proper, PluginInv, DirInv, DiskProper
  <1>7. (Proper(c[1], dir))'
    BY <1>5, <1>6, ProperKept
  <1>8. JobProper(new)
    BY <1>4, <1>6 DEF JobProper, Loads
  <1>9. tainted \subseteq Plugins /\ c[1] \in Plugins
    BY ContentFacts DEF TypeInv, BoundsOK
  <1>10. \A p \in Plugins \ tainted' : Home(p, dir) => Concerns(jobs[j], p) \/ Concerns(new, p)
    BY <1>4, <1>5, <1>8, <1>9, HomeConcerned DEF Ops
  <1>11. ASSUME NEW p \in Plugins \ tainted', Concerns(jobs[j], p) \/ Concerns(new, p), Now(jobs[j], p)
         PROVE  (Now(new, p))'
    <2>1. Concerns(new, p)
      BY <1>1, <1>11 DEF Concerns
    <2>2. p = c[1]
      BY <1>4, <1>5, <1>8, <2>1, OnlyOne
    <2>3. Clean(p)
      BY <1>1, <1>11, WaitsNow DEF Waits
    <2>4. (Clean(p))'
      BY <1>3, <2>3, CleanSame
    <2> QED
      BY <1>1, <1>4, <1>7, <2>1, <2>2, <2>4, LoadNext
  <1> QED
    BY <1>0, <1>1, <1>2, <1>3, <1>7, <1>8, <1>10, <1>11, DiskInv
----------------------------------------------------------------------------
(* The steps that change what a plugin has in the process or the database *)

LEMMA OneInv ==
  ASSUME TypeInv, TypeInv', PluginInv, NEW j \in Requests, Others(j), NEW F \in SUBSET Plugins, Taint(F),
         disk' = disk, NEW q \in Plugins,
         \A p \in Plugins \ {q} : loaded'[p] = loaded[p] /\ registry'[p] = registry[p] /\ LabelsKept(p),
         NEW l, l = loaded'[q], l # None => Proper(q, l.dir),
         NEW new, new = jobs'[j], new # None => JobProper(new),
         q \in tainted' \/ Concerns(jobs[j], q) \/ Concerns(new, q),
         q \notin tainted' /\ Now(jobs[j], q) => (Now(new, q))',
         \A p \in Plugins \ (tainted' \cup {q}) :
           Concerns(jobs[j], p) \/ Concerns(new, p) =>
             /\ Now(jobs[j], p) => Clean(p) /\ Fresh(p)
             /\ Now(jobs[j], p) /\ (Clean(p))' /\ (Fresh(p))' => (Now(new, p))'
  PROVE  PluginInv'
  <1>1. tainted \subseteq tainted' /\ Alone'
    BY TaintFacts
  <1>2. DirInv'
    <2>1. LoadedProper'
      <3>1. ASSUME NEW p \in Plugins, loaded'[p] # None PROVE (Proper(p, loaded[p].dir))'
        <4>1. PICK k : k = loaded'[p]
          OBVIOUS
        <4>2. Proper(p, k.dir)
          BY <3>1, <4>1 DEF PluginInv, DirInv, LoadedProper
        <4>3. (Proper(p, k.dir))'
          BY <1>1, <4>2, ProperKept
        <4> QED
          BY <4>1, <4>3
      <3> QED
        BY <3>1 DEF LoadedProper
    <2>2. DiskProper'
      BY <1>1, DiskProperKept DEF PluginInv
    <2>3. new # None => (JobProper(new))'
      BY <1>1, JobProperKept
    <2> QED
      BY <1>1, <2>1, <2>2, <2>3, DirStep DEF PluginInv
  <1>3. ASSUME NEW p \in Plugins \ (tainted' \cup {q}) PROVE Frame(p)
    BY DEF Frame
  <1>4. ASSUME NEW p \in Plugins \ tainted', ~Concerns(jobs[j], p), ~Concerns(new, p) PROVE Frame(p)
    BY <1>3, <1>4
  <1>5. ASSUME NEW p \in Plugins \ tainted', Concerns(jobs[j], p) \/ Concerns(new, p)
        PROVE  (Now(new, p))'
    <2>1. Now(jobs[j], p)
      BY <1>1, <1>5, NowBefore
    <2>2. CASE p = q
      BY <2>1, <2>2
    <2>3. CASE p # q
      <3>1. p \in Plugins \ (tainted' \cup {q}) /\ p \in Plugins \ tainted
        BY <1>1, <2>3
      <3>2. Clean(p) /\ Fresh(p)
        BY <1>5, <2>1, <3>1
      <3>3. (Clean(p))' /\ (Fresh(p))'
        BY <1>3, <3>1, <3>2, NowFrame DEF PluginInv
      <3> QED
        BY <1>5, <2>1, <3>1, <3>3
    <2> QED
      BY <2>2, <2>3
  <1>6. StagesOK'
    BY <1>1, <1>4, <1>5, StepStages
  <1> QED
    BY <1>1, <1>2, <1>6 DEF PluginInv

LEMMA LabelsMore ==
  ASSUME NEW p, NEW S, NEW T, Labels(p, S), S \subseteq T
  PROVE  Labels(p, T)
  BY DEF Labels

LEMMA NoneNext ==
  ASSUME NEW p, (Clean(p))', (Fresh(p))'
  PROVE  (Now(None, p))'
  BY WaitsNext DEF Waits

LEMMA AsideNext ==
  ASSUME NEW job, job # None, job.op \notin {"boot", "signup"}, job.pc \in Loads,
         NEW p, job.info.plugin # p, (Clean(p))', (Fresh(p))'
  PROVE  (Now(job, p))'
  <1>1. job.pc \notin Unloads /\ job.pc \notin {"load", "unload", "rmtree"}
    BY DEF Loads, Unloads
  <1>2. (PlaceStage(job, p))'
    BY <1>1 DEF PlaceStage
  <1>3. (Stage(job, p))'
    BY <1>1, <1>2 DEF Stage
  <1> QED
    BY <1>3 DEF Now

(* The stage of the plugin that is loaded.                                 *)
LEMMA LoadStageNow ==
  ASSUME NEW job, job # None, job.op \notin {"boot", "signup"}, job.pc \in Loads, job.info # None,
         NEW p, p = job.info.plugin
  PROVE  /\ Now(job, p) <=> LoadStage(job, p)
         /\ (LoadStage(job, p))' => (Now(job, p))'
         /\ Concerns(job, p)
  BY DEF Now, Stage, Concerns
(* The commands and skills are registered: the plugin is loaded, or has    *)
(* its agents left.                                                        *)
LEMMA RegisterInv ==
  ASSUME TypeInv, TypeInv', PluginInv, NEW j \in Requests, Others(j), NEW F \in SUBSET Plugins, Taint(F),
         disk' = disk, rows' = rows, NEW info \in Infos, Proper(info.plugin, info.dir),
         NEW old, old = jobs[j], old # None, old.op \in Ops \ {"signup", "boot"}, old.dir = info.dir, JobProper(old),
         \/ info.agents = {} /\ Ended(j) /\ loaded'[info.plugin] = info
            /\ \A p \in Plugins \ {info.plugin} : loaded'[p] = loaded[p]
         \/ info.agents # {} /\ Carries(j, "users", info) /\ UNCHANGED loaded,
         registry'[info.plugin] = registry[info.plugin] \cup info.skills,
         \A p \in Plugins \ {info.plugin} : registry'[p] = registry[p],
         info.plugin \in tainted' \/ Concerns(old, info.plugin),
         \A p \in Plugins \ tainted' : (Concerns(old, p) \/ p = info.plugin) /\ Now(old, p) =>
            /\ Clean(p)
            /\ IF p = info.plugin THEN loaded[p] \in {None, info} /\ InPlace(info) ELSE Fresh(p)
  PROVE  PluginInv'
  <1> DEFINE q == info.plugin
  <1>0. PICK new, l : new = jobs'[j] /\ l = loaded'[q]
    OBVIOUS
  <1>1. q \in Plugins /\ info # None /\ info \in Infos /\ \A p \in Plugins : LabelsKept(p)
    BY InfoFacts DEF LabelsKept
  <1>2. InPlace(info) => (InPlace(info))'
    BY DEF InPlace
  <1>3. ASSUME q \notin tainted', Now(old, q)
        PROVE  registry'[q] = info.skills /\ (Labels(q, info.agents))' /\ loaded[q] \in {None, info} /\ InPlace(info)
    <2>1. Clean(q) /\ loaded[q] \in {None, info} /\ InPlace(info)
      BY <1>1, <1>3
    <2>2. registry[q] \in {{}, info.skills} /\ AgentsOf(loaded[q]) \subseteq info.agents /\ Labels(q, AgentsOf(loaded[q]))
      BY <1>1, <2>1 DEF Clean, SkillsOf, AgentsOf
    <2>3. PICK S : S = AgentsOf(loaded[q])
      OBVIOUS
    <2>4. Labels(q, info.agents)
      BY <2>2, <2>3, LabelsMore
    <2>5. (Labels(q, info.agents))'
      BY <1>1, <2>4, LabelsStay
    <2> QED
      BY <2>1, <2>2, <2>5
  <1>4. CASE /\ info.agents = {} /\ Ended(j) /\ loaded'[q] = info
             /\ \A p \in Plugins \ {q} : loaded'[p] = loaded[p]
    <2>1. new = None /\ l = info
      BY <1>0, <1>4 DEF Ended
    <2>2. q \notin tainted' /\ Now(old, q) => (Now(new, q))'
      <3> SUFFICES ASSUME q \notin tainted', Now(old, q) PROVE (Now(new, q))'
        OBVIOUS
      <3>1. (Clean(q))'
        BY <1>1, <1>3, <1>4 DEF Clean, SkillsOf, AgentsOf
      <3>2. (Fresh(q))'
        BY <1>2, <1>3, <1>4 DEF Fresh
      <3> QED
        BY <2>1, <3>1, <3>2, NoneNext
    <2>3. ASSUME NEW p \in Plugins \ (tainted' \cup {q}), Concerns(old, p) \/ Concerns(new, p)
          PROVE  /\ Now(old, p) => Clean(p) /\ Fresh(p)
                 /\ (Clean(p))' /\ (Fresh(p))' => (Now(new, p))'
      <3>1. Concerns(old, p)
        BY <2>1, <2>3 DEF Concerns
      <3>2. Now(old, p) => Clean(p) /\ Fresh(p)
        BY <2>3, <3>1
      <3> QED
        BY <2>1, <3>2, NoneNext
    <2>4. new # None => JobProper(new)
      BY <2>1
    <2>5. \A p \in Plugins \ {q} : loaded'[p] = loaded[p] /\ registry'[p] = registry[p] /\ LabelsKept(p)
      BY <1>1, <1>4
    <2> HIDE DEF q
    <2>6. l # None => Proper(q, l.dir)
      BY <2>1 DEF q
    <2>7. q \in tainted' \/ Concerns(old, q)
      BY DEF q
    <2> QED
      BY <1>0, <1>1, <2>2, <2>3, <2>4, <2>5, <2>6, <2>7, OneInv
  <1>5. CASE info.agents # {} /\ Carries(j, "users", info) /\ UNCHANGED loaded
    <2>1. /\ new # None /\ new.op = old.op /\ new.plugin = old.plugin /\ new.dir = info.dir /\ new.pc = "users"
          /\ new.info = info
      BY <1>0, <1>5 DEF Carries
    <2>2. new.op \notin {"boot", "signup"} /\ new.pc \in Loads
      BY <2>1 DEF Loads
    <2>3. q \notin tainted' /\ Now(old, q) => (Now(new, q))'
      <3> SUFFICES ASSUME q \notin tainted', Now(old, q) PROVE (Now(new, q))'
        OBVIOUS
      <3>1. (LoadStage(new, q))'
        BY <1>2, <1>3, <1>5, <2>1 DEF LoadStage
      <3> QED
        BY <1>1, <2>1, <2>2, <3>1, LoadStageNow
    <2>4. ASSUME NEW p \in Plugins \ (tainted' \cup {q}), Concerns(old, p) \/ Concerns(new, p)
          PROVE  /\ Now(old, p) => Clean(p) /\ Fresh(p)
                 /\ (Clean(p))' /\ (Fresh(p))' => (Now(new, p))'
      <3>1. Concerns(old, p)
        BY <2>1, <2>2, <2>4 DEF Concerns
      <3>2. Now(old, p) => Clean(p) /\ Fresh(p)
        BY <2>4, <3>1
      <3> QED
        BY <2>1, <2>2, <2>4, <3>2, AsideNext
    <2>5. JobProper(new)
      BY <2>1 DEF JobProper
    <2>6. \A p \in Plugins \ {q} : loaded'[p] = loaded[p] /\ registry'[p] = registry[p] /\ LabelsKept(p)
      BY <1>1, <1>5
    <2>7. l # None => Proper(q, l.dir)
      BY <1>0, <1>1, <1>5 DEF PluginInv, DirInv, LoadedProper
    <2> HIDE DEF q
    <2>8. q \in tainted' \/ Concerns(old, q)
      BY DEF q
    <2> QED
      BY <1>0, <1>1, <2>3, <2>4, <2>5, <2>6, <2>7, <2>8, OneInv
  <1> QED
    BY <1>4, <1>5
(* A directory that is loaded holds the plugin, or one that is tainted.    *)
LEMMA LoadedFrom ==
  ASSUME TypeInv, PluginInv, NEW d \in Dirs, disk[d] \in Contents, NEW info, info = PluginInfo(disk[d], d)
  PROVE  info \in Infos /\ info.plugin \in Plugins /\ info.dir = d /\ InPlace(info) /\ Proper(info.plugin, d)
  <1>1. info \in Infos /\ info.plugin = disk[d][1] /\ info.dir = d
    BY InfoOf
  <1>2. info.plugin \in Plugins
    BY <1>1, InfoFacts
  <1>3. InPlace(info)
    BY <1>1 DEF InPlace
  <1>4. Proper(disk[d][1], d)
    BY DEF PluginInv, DirInv, DiskProper
  <1> QED
    BY <1>1, <1>2, <1>3, <1>4

LEMMA LoadInv ==
  ASSUME TypeInv, PluginInv, NEW j \in Requests, Load(j)
  PROVE  PluginInv'
  <1>0. PICK old, new, d : old = jobs[j] /\ new = jobs'[j] /\ d = old.dir
    OBVIOUS
  <1>1. /\ TypeInv' /\ Others(j) /\ d \in Dirs /\ UNCHANGED <<disk, staging>> /\ UNCHANGED <<users, rows>>
        /\ \/ Ended(j) /\ disk[d] \notin Contents /\ UNCHANGED <<loaded, registry>> /\ Taint({})
           \/ \E info \in Infos :
                /\ disk[d] \in Contents
                /\ info = PluginInfo(disk[d], d)
                /\ Taint(Replaced(info))
                /\ \/ Carries(j, "connect", info) /\ UNCHANGED <<loaded, registry>>
                   \/ /\ \/ info.agents = {} /\ Ended(j) /\ loaded'[info.plugin] = info
                            /\ \A p \in Plugins \ {info.plugin} : loaded'[p] = loaded[p]
                         \/ info.agents # {} /\ Carries(j, "users", info) /\ UNCHANGED loaded
                      /\ registry'[info.plugin] = registry[info.plugin] \cup info.skills
                      /\ \A p \in Plugins \ {info.plugin} : registry'[p] = registry[p]
    BY <1>0, LoadStep
  <1>2. /\ old # None /\ old.pc = "load" /\ old.op \in Ops \ {"signup", "boot"} /\ old.info = None /\ JobProper(old)
        /\ \A p \in Plugins \ tainted : Home(p, d) => Concerns(old, p)
    <2>1. At(j, "load")
      BY DEF Load
    <2> QED
      BY <1>0, <2>1, PlaceAt DEF Places
  <1>3. disk' = disk /\ rows' = rows
    BY <1>1
  <1>4. ASSUME NEW p \in Plugins, Concerns(old, p), Now(old, p)
        PROVE  Clean(p) /\ (Fresh(p) \/ (Proper(p, d) /\ disk[d] \in Contents))
    <2>1. PlaceStage(old, p)
      BY <1>2, <1>4 DEF Now, Stage, Loads, Unloads
    <2> QED
      BY <1>0, <1>2, <2>1 DEF PlaceStage
  <1>5. CASE Ended(j) /\ disk[d] \notin Contents /\ UNCHANGED <<loaded, registry>> /\ Taint({})
    <2>1. new = None
      BY <1>0, <1>5 DEF Ended
    <2>2. ASSUME NEW p \in Plugins \ tainted', Concerns(old, p) \/ Concerns(new, p), Now(old, p) PROVE Now(new, p)
      <3>1. Concerns(old, p)
        BY <2>1, <2>2 DEF Concerns
      <3>2. Clean(p) /\ Fresh(p)
        BY <1>4, <1>5, <2>2, <3>1
      <3> QED
        BY <2>1, <3>2, WaitsNow DEF Waits
    <2> QED
      BY <1>0, <1>1, <1>3, <1>5, <2>1, <2>2, Quiet
  <1>6. ASSUME NEW info \in Infos, disk[d] \in Contents, info = PluginInfo(disk[d], d), Taint(Replaced(info)),
               \/ Carries(j, "connect", info) /\ UNCHANGED <<loaded, registry>>
               \/ /\ \/ info.agents = {} /\ Ended(j) /\ loaded'[info.plugin] = info
                        /\ \A p \in Plugins \ {info.plugin} : loaded'[p] = loaded[p]
                     \/ info.agents # {} /\ Carries(j, "users", info) /\ UNCHANGED loaded
                  /\ registry'[info.plugin] = registry[info.plugin] \cup info.skills
                  /\ \A p \in Plugins \ {info.plugin} : registry'[p] = registry[p]
        PROVE  PluginInv'
    <2>1. info.plugin \in Plugins /\ info.dir = d /\ InPlace(info) /\ Proper(info.plugin, d) /\ info # None
      BY <1>1, <1>6, LoadedFrom, Given
    <2>2. PICK F \in SUBSET Plugins : F = Replaced(info)
      BY <2>1 DEF Replaced
    <2>3. Taint(F)
      BY <1>6, <2>2
    <2>4. tainted \subseteq tainted' /\ F \subseteq tainted'
      BY <1>1, <2>3, TaintFacts
    <2>5. info.plugin \in tainted' \/ Concerns(old, info.plugin)
      BY <1>2, <2>1, <2>4, HomeProper
    <2>6. info.plugin \notin tainted' => loaded[info.plugin] \in {None, info}
      BY <2>2, <2>4 DEF Replaced
    <2>7. ASSUME NEW p \in Plugins \ tainted', Concerns(old, p) \/ p = info.plugin, Now(old, p)
          PROVE  Clean(p) /\ IF p = info.plugin THEN loaded[p] \in {None, info} /\ InPlace(info) ELSE Fresh(p)
      <3>1. Clean(p) /\ (Fresh(p) \/ (Proper(p, d) /\ disk[d] \in Contents))
        BY <1>4, <2>5, <2>7
      <3>2. p # info.plugin => ~Proper(p, d)
        BY <1>1, <2>1, <2>4, OneHome
      <3> QED
        BY <2>1, <2>6, <3>1, <3>2
    <2>8. CASE Carries(j, "connect", info) /\ UNCHANGED <<loaded, registry>>
      <3>1. /\ new # None /\ new.op = old.op /\ new.plugin = old.plugin /\ new.dir = d /\ new.pc = "connect"
            /\ new.info = info
        BY <1>0, <2>8 DEF Carries
      <3>2. new.op \notin {"boot", "signup"} /\ new.pc \in Loads /\ new.pc \notin Unloads
        BY <1>2, <3>1 DEF Loads, Unloads
      <3>3. JobProper(new)
        BY <1>0, <1>2, <2>1, <3>1 DEF JobProper
      <3>4. ASSUME NEW p \in Plugins \ tainted', Concerns(old, p) \/ Concerns(new, p), Now(old, p) PROVE Now(new, p)
        <4>1. Concerns(old, p) \/ p = info.plugin
          BY <1>0, <1>2, <3>1, <3>2, <3>4 DEF Concerns
        <4>2. Clean(p) /\ IF p = info.plugin THEN loaded[p] \in {None, info} ELSE Fresh(p)
          BY <2>7, <3>4, <4>1
        <4>3. CASE p = info.plugin
          <5>1. Clean(p) /\ loaded[p] \in {None, info} /\ InPlace(info)
            BY <2>1, <4>2, <4>3
          <5>2. LoadStage(new, p)
            BY <3>1, <5>1 DEF LoadStage
          <5> QED
            BY <2>1, <3>1, <3>2, <4>3, <5>2, LoadStageNow
        <4>4. CASE p # info.plugin
          <5>1. PlaceStage(new, p)
            BY <3>1, <4>2, <4>4 DEF PlaceStage
          <5>2. Stage(new, p)
            BY <3>1, <3>2, <4>4, <5>1 DEF Stage
          <5> QED
            BY <4>2, <4>4, <5>2 DEF Now
        <4> QED
          BY <4>3, <4>4
      <3> QED
        BY <1>0, <1>1, <1>3, <2>3, <2>8, <3>3, <3>4, Quiet
    <2>9. CASE /\ \/ info.agents = {} /\ Ended(j) /\ loaded'[info.plugin] = info
                     /\ \A p \in Plugins \ {info.plugin} : loaded'[p] = loaded[p]
                  \/ info.agents # {} /\ Carries(j, "users", info) /\ UNCHANGED loaded
               /\ registry'[info.plugin] = registry[info.plugin] \cup info.skills
               /\ \A p \in Plugins \ {info.plugin} : registry'[p] = registry[p]
      BY <1>0, <1>1, <1>2, <1>3, <2>1, <2>3, <2>5, <2>7, <2>9, RegisterInv
    <2> QED
      BY <1>6, <2>8, <2>9
  <1> QED
    BY <1>1, <1>5, <1>6

LEMMA ConnectedInv ==
  ASSUME TypeInv, PluginInv, NEW j \in Requests, Connected(j)
  PROVE  PluginInv'
  <1>0. PICK old : old = jobs[j]
    OBVIOUS
  <1>1. /\ TypeInv' /\ Others(j) /\ UNCHANGED <<disk, staging, users, rows, missed>>
        /\ \/ Carries(j, "connect", old.info) /\ UNCHANGED <<loaded, registry>>
           \/ \E info \in Infos :
                /\ info = old.info
                /\ \/ info.agents = {} /\ Ended(j) /\ loaded'[info.plugin] = info
                      /\ \A p \in Plugins \ {info.plugin} : loaded'[p] = loaded[p]
                   \/ info.agents # {} /\ Carries(j, "users", info) /\ UNCHANGED loaded
                /\ registry'[info.plugin] = registry[info.plugin] \cup info.skills
                /\ \A p \in Plugins \ {info.plugin} : registry'[p] = registry[p]
    BY <1>0, ConnectedStep
  <1>2. At(j, "connecting") /\ Taint({})
    BY DEF Connected
  <1>3. disk' = disk /\ rows' = rows
    BY <1>1
  <1>4. /\ old # None /\ old.pc = "connecting" /\ old.op \in Ops \ {"signup", "boot"} /\ old.pc \in Loads
        /\ old.info \in Infos /\ old.info.dir = old.dir /\ JobProper(old)
    <2>1. old # None /\ old.pc = "connecting" /\ old.op \in Ops \ {"signup", "boot"} /\ FlowOK(old)
      BY <1>0, <1>2, FlowAt
    <2>2. old.pc \in Loads
      BY <2>1 DEF Loads
    <2>3. old.info \in Infos /\ old.info.dir = old.dir
      BY <2>1, <2>2 DEF FlowOK
    <2>4. JobProper(old)
      BY <1>0, <2>1 DEF PluginInv, DirInv
    <2> QED
      BY <2>1, <2>2, <2>3, <2>4
  <1>5. CASE Carries(j, "connect", old.info) /\ UNCHANGED <<loaded, registry>>
    BY <1>0, <1>1, <1>2, <1>3, <1>4, <1>5, LoadOnInv DEF Loads
  <1>6. ASSUME NEW info \in Infos, info = old.info,
               \/ info.agents = {} /\ Ended(j) /\ loaded'[info.plugin] = info
                  /\ \A p \in Plugins \ {info.plugin} : loaded'[p] = loaded[p]
               \/ info.agents # {} /\ Carries(j, "users", info) /\ UNCHANGED loaded,
               registry'[info.plugin] = registry[info.plugin] \cup info.skills,
               \A p \in Plugins \ {info.plugin} : registry'[p] = registry[p]
        PROVE  PluginInv'
    <2>1. info.plugin \in Plugins /\ info # None /\ Proper(info.plugin, info.dir)
      BY <1>4, <1>6, InfoFacts DEF JobProper
    <2>2. Now(old, info.plugin) <=> LoadStage(old, info.plugin)
      BY <1>4, <1>6, <2>1, LoadStageNow
    <2>3. Concerns(old, info.plugin)
      BY <1>4, <1>6, <2>1, LoadStageNow
    <2>4. ASSUME NEW p \in Plugins \ tainted', Now(old, p)
          PROVE  Clean(p) /\ IF p = info.plugin THEN loaded[p] \in {None, info} /\ InPlace(info) ELSE Fresh(p)
      <3>1. CASE p = info.plugin
        BY <1>4, <1>6, <2>2, <2>4, <3>1 DEF LoadStage
      <3>2. CASE p # info.plugin
        BY <1>4, <1>6, <2>4, <3>2, LoadAside
      <3> QED
        BY <3>1, <3>2
    <2> QED
      BY <1>0, <1>1, <1>2, <1>3, <1>4, <1>6, <2>1, <2>3, <2>4, RegisterInv
  <1> QED
    BY <1>1, <1>5, <1>6
LEMMA LoadedInv ==
  ASSUME TypeInv, PluginInv, NEW j \in Requests, Loaded(j)
  PROVE  PluginInv'
  <1>0. PICK old, new : old = jobs[j] /\ new = jobs'[j]
    OBVIOUS
  <1>1. /\ TypeInv' /\ Others(j) /\ new = None
        /\ UNCHANGED <<disk, staging, registry>> /\ UNCHANGED <<users, rows>>
    BY <1>0, LoadedStep DEF Ended
  <1>2. PICK info \in Infos :
          /\ info = old.info /\ info.plugin \in Plugins
          /\ loaded'[info.plugin] = info /\ \A p \in Plugins \ {info.plugin} : loaded'[p] = loaded[p]
    BY <1>0, LoadedStep
  <1>3. At(j, "sync") /\ Taint({})
    BY DEF Loaded
  <1>4. /\ old # None /\ old.pc = "sync" /\ old.op \in Ops \ {"signup", "boot"} /\ old.pc \in Loads
        /\ info.dir = old.dir /\ JobProper(old) /\ info # None
    <2>1. old # None /\ old.pc = "sync" /\ old.op \in Ops \ {"signup", "boot"} /\ FlowOK(old)
      BY <1>0, <1>3, FlowAt
    <2>2. old.pc \in Loads
      BY <2>1 DEF Loads
    <2>3. info.dir = old.dir
      BY <1>2, <2>1, <2>2 DEF FlowOK
    <2>4. JobProper(old)
      BY <1>0, <2>1 DEF PluginInv, DirInv
    <2> QED
      BY <2>1, <2>2, <2>3, <2>4, Given
  <1>5. PICK q \in Plugins : q = info.plugin
    BY <1>2
  <1>6. Proper(q, info.dir)
    BY <1>2, <1>4, <1>5 DEF JobProper
  <1>7. Concerns(old, q) /\ (Now(old, q) <=> LoadStage(old, q))
    BY <1>2, <1>4, <1>5, LoadStageNow
  <1>8. ASSUME q \notin tainted', Now(old, q) PROVE (Now(new, q))'
    <2>1. registry[q] = info.skills /\ Labels(q, info.agents) /\ InPlace(info)
      BY <1>2, <1>4, <1>7, <1>8 DEF LoadStage
    <2>2. (Labels(q, info.agents))' /\ (InPlace(info))'
      BY <1>1, <2>1 DEF Labels, InPlace
    <2>3. (Clean(q))'
      BY <1>1, <1>2, <1>4, <1>5, <2>1, <2>2 DEF Clean, SkillsOf, AgentsOf
    <2>4. (Fresh(q))'
      BY <1>2, <1>5, <2>2 DEF Fresh
    <2> QED
      BY <1>1, <2>3, <2>4, NoneNext
  <1>9. ASSUME NEW p \in Plugins \ (tainted' \cup {q}), Concerns(old, p) \/ Concerns(new, p)
        PROVE  /\ Now(old, p) => Clean(p) /\ Fresh(p)
               /\ (Clean(p))' /\ (Fresh(p))' => (Now(new, p))'
    <2>1. Now(old, p) => Clean(p) /\ Fresh(p)
      BY <1>2, <1>4, <1>5, <1>9, LoadAside
    <2> QED
      BY <1>1, <2>1, NoneNext
  <1>10. \A p \in Plugins \ {q} : loaded'[p] = loaded[p] /\ registry'[p] = registry[p] /\ LabelsKept(p)
    BY <1>1, <1>2, <1>5 DEF LabelsKept
  <1> QED
    BY ZenonT(60), <1>0, <1>1, <1>2, <1>3, <1>5, <1>6, <1>7, <1>8, <1>9, <1>10, OneInv

(* What an unload leaves.                                                  *)
LEMMA GoneNext ==
  ASSUME NEW job, job # None, job.op \notin {"boot", "signup"}, job.pc \in {"rmtree", "load"},
         NEW p, (Clean(p))', loaded'[p] = None
  PROVE  (Now(job, p))'
  <1>1. job.pc \notin Loads /\ job.pc \notin Unloads
    BY DEF Loads, Unloads
  <1>2. (Fresh(p))'
    BY DEF Fresh
  <1>3. (PlaceStage(job, p))'
    BY <1>2 DEF PlaceStage
  <1> QED
    BY <1>1, <1>2, <1>3 DEF Stage, Now

LEMMA UnloadStageNow ==
  ASSUME NEW job, job # None, job.op \notin {"boot", "signup"}, job.pc \in Unloads, job.info # None,
         NEW p, p = job.info.plugin
  PROVE  /\ Now(job, p) <=> UnloadStage(job, p)
         /\ (UnloadStage(job, p))' => (Now(job, p))'
         /\ Concerns(job, p)
  <1>1. job.pc \notin Loads
    BY DEF Loads, Unloads
  <1> QED
    BY <1>1 DEF Now, Stage, Concerns

LEMMA UnloadAt ==
  ASSUME TypeInv, PluginInv, NEW j \in Requests, NEW pc \in Unloads \cup {"unload"}, At(j, pc), NEW old, old = jobs[j]
  PROVE  /\ old # None /\ old.pc = pc /\ old.op \in {"update", "reload", "uninstall"} /\ old.plugin \in Plugins
         /\ JobProper(old) /\ Concerns(old, old.plugin)
         /\ IF pc = "unload" THEN old.info = None ELSE old.info \in Infos /\ old.info # None /\ old.info.plugin = old.plugin
         /\ \A p \in Plugins \ tainted : Concerns(old, p) => p = old.plugin
  <1>1. old # None /\ old.pc = pc /\ FlowOK(old)
    BY FlowAt DEF Unloads
  <1>2. old.op \in {"update", "reload", "uninstall"} /\ old.plugin \in Plugins
    BY <1>1 DEF FlowOK
  <1>3. JobProper(old)
    BY <1>1, <1>2 DEF PluginInv, DirInv
  <1>4. IF pc = "unload" THEN old.info = None ELSE old.info \in Infos /\ old.info # None /\ old.info.plugin = old.plugin
    BY <1>1, Given DEF FlowOK, Unloads, Places
  <1>5. Concerns(old, old.plugin)
    BY <1>1 DEF Concerns
  <1>6. \A p \in Plugins \ tainted : Concerns(old, p) => p = old.plugin
    BY <1>1, <1>2, <1>3, <1>4, OnlyOne
  <1> QED
    BY <1>1, <1>2, <1>3, <1>4, <1>5, <1>6

(* A step of an unload: the list has no entry of the plugin, and the job   *)
(* is the only one that works on it.                                       *)
LEMMA UnloadingInv ==
  ASSUME TypeInv, TypeInv', PluginInv, NEW j \in Requests, Others(j), NEW F \in SUBSET Plugins, Taint(F), disk' = disk,
         NEW pc \in Unloads \cup {"unload"}, At(j, pc),
         NEW q \in Plugins, q = jobs[j].plugin, loaded'[q] \in {None, loaded[q]},
         \A p \in Plugins \ {q} : loaded'[p] = loaded[p] /\ registry'[p] = registry[p] /\ LabelsKept(p),
         \/ Gone(j) /\ (q \notin tainted' /\ Now(jobs[j], q) => (Clean(q))' /\ loaded'[q] = None)
         \/ \E to \in Unloads, info \in Infos :
              /\ Carries(j, to, info) /\ info.plugin = q
              /\ q \notin tainted' /\ Now(jobs[j], q) =>
                   /\ loaded'[q] = None /\ (Labels(q, info.agents))'
                   /\ registry'[q] = IF to = "closing" THEN info.skills ELSE {}
  PROVE  PluginInv'
  <1>0. PICK old, new, l : old = jobs[j] /\ new = jobs'[j] /\ l = loaded'[q]
    OBVIOUS
  <1>1. /\ old # None /\ old.op \in {"update", "reload", "uninstall"} /\ q = old.plugin
        /\ JobProper(old) /\ Concerns(old, q)
        /\ \A p \in Plugins \ tainted : Concerns(old, p) => p = q
    BY <1>0, UnloadAt
  <1>2. tainted \subseteq tainted'
    BY TaintFacts
  <1>3. l # None => Proper(q, l.dir)
    BY <1>0 DEF PluginInv, DirInv, LoadedProper
  <1>4. \A info \in Infos : info # None
    BY Given
  <1>5. CASE Gone(j) /\ (q \notin tainted' /\ Now(jobs[j], q) => (Clean(q))' /\ loaded'[q] = None)
    <2>1. /\ new # None /\ new.op = old.op /\ new.plugin = old.plugin /\ new.dir = old.dir
          /\ new.pc \in {"rmtree", "load"} /\ new.info = None
      BY <1>0, <1>5 DEF Gone, Became
    <2>2. JobProper(new)
      BY <1>1, <2>1 DEF JobProper, Loads
    <2>3. q \notin tainted' /\ Now(old, q) => (Now(new, q))'
      BY <1>0, <1>1, <1>5, <2>1, GoneNext
    <2>4. ASSUME NEW p \in Plugins \ (tainted' \cup {q}), Concerns(old, p) \/ Concerns(new, p) PROVE FALSE
      <3>1. Concerns(old, p)
        BY <1>1, <2>1, <2>4 DEF Concerns
      <3> QED
        BY <1>1, <1>2, <2>4, <3>1
    <2> QED
      BY <1>0, <1>1, <1>3, <2>2, <2>3, <2>4, OneInv
  <1>6. ASSUME NEW to \in Unloads, NEW info \in Infos, Carries(j, to, info), info.plugin = q,
               q \notin tainted' /\ Now(jobs[j], q) =>
                   /\ loaded'[q] = None /\ (Labels(q, info.agents))'
                   /\ registry'[q] = IF to = "closing" THEN info.skills ELSE {}
        PROVE  PluginInv'
    <2>1. /\ new # None /\ new.op = old.op /\ new.plugin = old.plugin /\ new.dir = old.dir
          /\ new.pc = to /\ new.info = info
      BY <1>0, <1>6 DEF Carries
    <2>2. JobProper(new)
      BY <1>1, <2>1 DEF JobProper, Loads, Unloads
    <2>3. ASSUME q \notin tainted', Now(old, q) PROVE (Now(new, q))'
      <3>1. (UnloadStage(new, q))'
        BY <1>0, <1>6, <2>1, <2>3 DEF UnloadStage
      <3>2. new.op \notin {"boot", "signup"} /\ new.pc \in Unloads /\ new.info # None /\ q = new.info.plugin
        BY <1>1, <1>4, <1>6, <2>1
      <3> QED
        BY <2>1, <3>1, <3>2, UnloadStageNow
    <2>4. ASSUME NEW p \in Plugins \ (tainted' \cup {q}), Concerns(old, p) \/ Concerns(new, p) PROVE FALSE
      <3>1. Concerns(old, p)
        BY <1>1, <1>6, <2>1, <2>4 DEF Concerns
      <3> QED
        BY <1>1, <1>2, <2>4, <3>1
    <2> QED
      BY <1>0, <1>1, <1>3, <2>2, <2>3, <2>4, OneInv
  <1> QED
    BY <1>5, <1>6
LEMMA UnloadInv ==
  ASSUME TypeInv, PluginInv, NEW j \in Requests, Unload(j)
  PROVE  PluginInv'
  <1>0. PICK old, q : old = jobs[j] /\ q = jobs[j].plugin
    OBVIOUS
  <1>1. /\ TypeInv' /\ Others(j) /\ UNCHANGED <<disk, staging>> /\ UNCHANGED <<users, rows>>
        /\ q \in Plugins
        /\ \/ loaded[q] = None /\ Gone(j) /\ UNCHANGED <<loaded, registry>>
           \/ \E info \in Infos :
                /\ info = loaded[q] /\ info.plugin = q
                /\ loaded'[info.plugin] = None /\ \A p \in Plugins \ {info.plugin} : loaded'[p] = loaded[p]
                /\ \/ Carries(j, "closing", info) /\ UNCHANGED registry
                   \/ /\ \/ info.agents = {} /\ Gone(j)
                         \/ info.agents # {} /\ Carries(j, "delete", info)
                      /\ registry'[info.plugin] = registry[info.plugin] \ info.skills
                      /\ \A p \in Plugins \ {info.plugin} : registry'[p] = registry[p]
    BY <1>0, UnloadStep
  <1>2. At(j, "unload") /\ Taint({})
    BY DEF Unload
  <1>3. /\ old # None /\ old.pc = "unload" /\ old.op \in {"update", "reload", "uninstall"} /\ old.info = None
        /\ Concerns(old, q)
    BY <1>0, <1>2, UnloadAt
  <1>4. Now(old, q) => Clean(q)
    <2>1. Now(old, q) => PlaceStage(old, q)
      BY <1>3 DEF Now, Stage, Loads, Unloads
    <2> QED
      BY <2>1 DEF PlaceStage
  <1>5. \A p \in Plugins : LabelsKept(p)
    BY <1>1 DEF LabelsKept
  <1>6. CASE loaded[q] = None /\ Gone(j) /\ UNCHANGED <<loaded, registry>>
    <2>1. Now(old, q) => (Clean(q))' /\ loaded'[q] = None
      BY <1>1, <1>4, <1>6, CleanSame
    <2> QED
      BY <1>0, <1>1, <1>2, <1>5, <1>6, <2>1, UnloadingInv
  <1>7. ASSUME NEW info \in Infos, info = loaded[q], info.plugin = q,
               loaded'[info.plugin] = None, \A p \in Plugins \ {info.plugin} : loaded'[p] = loaded[p],
               \/ Carries(j, "closing", info) /\ UNCHANGED registry
               \/ /\ \/ info.agents = {} /\ Gone(j)
                     \/ info.agents # {} /\ Carries(j, "delete", info)
                  /\ registry'[info.plugin] = registry[info.plugin] \ info.skills
                  /\ \A p \in Plugins \ {info.plugin} : registry'[p] = registry[p]
        PROVE  PluginInv'
    <2>1. info # None
      BY Given
    <2>2. Now(old, q) => registry[q] = info.skills /\ (Labels(q, info.agents))'
      <3> SUFFICES ASSUME Now(old, q) PROVE registry[q] = info.skills /\ (Labels(q, info.agents))'
        OBVIOUS
      <3>1. registry[q] = info.skills /\ Labels(q, info.agents)
        BY <1>4, <1>7, <2>1 DEF Clean, SkillsOf, AgentsOf
      <3>2. (Labels(q, info.agents))'
        BY <1>1, <1>5, <3>1, LabelsStay
      <3> QED
        BY <3>1, <3>2
    <2>3. \A p \in Plugins \ {q} : loaded'[p] = loaded[p] /\ registry'[p] = registry[p] /\ LabelsKept(p)
      BY <1>5, <1>7
    <2>4. (Gone(j) /\ (q \notin tainted' /\ Now(old, q) => (Clean(q))' /\ loaded'[q] = None))
            \/ \E to \in Unloads, i \in Infos :
                 /\ Carries(j, to, i) /\ i.plugin = q
                 /\ q \notin tainted' /\ Now(old, q) =>
                      /\ loaded'[q] = None /\ (Labels(q, i.agents))'
                      /\ registry'[q] = IF to = "closing" THEN i.skills ELSE {}
      <3>1. "closing" \in Unloads /\ "delete" \in Unloads
        BY DEF Unloads
      <3>2. CASE Carries(j, "closing", info) /\ UNCHANGED registry
        BY <1>7, <2>2, <3>1, <3>2
      <3>3. CASE info.agents # {} /\ Carries(j, "delete", info) /\ registry'[q] = registry[q] \ info.skills
        BY <1>7, <2>2, <3>1, <3>3
      <3>4. CASE info.agents = {} /\ Gone(j) /\ registry'[q] = registry[q] \ info.skills
        <4>1. Now(old, q) => (Clean(q))' /\ loaded'[q] = None
          BY <1>7, <2>2, <3>4 DEF Clean, SkillsOf, AgentsOf
        <4> QED
          BY <3>4, <4>1
      <3> QED
        BY <1>7, <3>2, <3>3, <3>4
    <2> QED
      BY <1>0, <1>1, <1>2, <1>7, <2>3, <2>4, UnloadingInv
  <1> QED
    BY <1>1, <1>6, <1>7

LEMMA ClosedInv ==
  ASSUME TypeInv, PluginInv, NEW j \in Requests, Closed(j)
  PROVE  PluginInv'
  <1>0. PICK old : old = jobs[j]
    OBVIOUS
  <1>1. /\ TypeInv' /\ Others(j) /\ UNCHANGED <<disk, staging, loaded>> /\ UNCHANGED <<users, rows>>
        /\ At(j, "closing")
    BY ClosedStep
  <1>2. PICK info \in Infos :
          /\ info = old.info /\ info.plugin = old.plugin /\ info.plugin \in Plugins
          /\ \/ Carries(j, "closing", info) /\ UNCHANGED registry
             \/ /\ \/ info.agents = {} /\ Gone(j)
                   \/ info.agents # {} /\ Carries(j, "delete", info)
                /\ registry'[info.plugin] = registry[info.plugin] \ info.skills
                /\ \A p \in Plugins \ {info.plugin} : registry'[p] = registry[p]
    BY <1>0, ClosedStep
  <1>3. Taint({})
    BY DEF Closed
  <1>4. PICK q \in Plugins : q = info.plugin
    BY <1>2
  <1>5. /\ old # None /\ old.pc = "closing" /\ old.op \in {"update", "reload", "uninstall"} /\ old.info # None
    BY <1>0, <1>1, UnloadAt DEF Unloads
  <1>6. Now(old, q) <=> UnloadStage(old, q)
    BY <1>2, <1>4, <1>5, UnloadStageNow DEF Unloads
  <1>7. \A p \in Plugins \ {q} : loaded'[p] = loaded[p] /\ registry'[p] = registry[p] /\ LabelsKept(p)
    BY <1>1, <1>2, <1>4 DEF LabelsKept
  <1>8. Now(old, q) => loaded'[q] = None /\ registry[q] = info.skills /\ (Labels(q, info.agents))'
    BY <1>1, <1>2, <1>5, <1>6 DEF UnloadStage, Labels
  <1>9. "closing" \in Unloads /\ "delete" \in Unloads
    BY DEF Unloads
  <1>10. \/ Gone(j) /\ (q \notin tainted' /\ Now(old, q) => (Clean(q))' /\ loaded'[q] = None)
         \/ \E to \in Unloads, i \in Infos :
              /\ Carries(j, to, i) /\ i.plugin = q
              /\ q \notin tainted' /\ Now(old, q) =>
                   /\ loaded'[q] = None /\ (Labels(q, i.agents))'
                   /\ registry'[q] = IF to = "closing" THEN i.skills ELSE {}
    <2>1. CASE Carries(j, "closing", info) /\ UNCHANGED registry
      BY <1>4, <1>8, <1>9, <2>1
    <2>2. CASE Carries(j, "delete", info) /\ registry'[info.plugin] = registry[info.plugin] \ info.skills
      BY <1>4, <1>8, <1>9, <2>2
    <2>3. CASE info.agents = {} /\ Gone(j) /\ registry'[info.plugin] = registry[info.plugin] \ info.skills
      <3>1. Now(old, q) => (Clean(q))'
        BY <1>4, <1>8, <2>3 DEF Clean, SkillsOf, AgentsOf
      <3> QED
        BY <1>8, <2>3, <3>1
    <2> QED
      BY <1>2, <2>1, <2>2, <2>3
  <1>11. disk' = disk /\ loaded' = loaded /\ q = jobs[j].plugin
    BY <1>0, <1>1, <1>2, <1>4
  <1> QED
    BY <1>0, <1>1, <1>3, <1>7, <1>9, <1>10, <1>11, UnloadingInv

LEMMA DeleteInv ==
  ASSUME TypeInv, PluginInv, NEW j \in Requests, DeleteRows(j)
  PROVE  PluginInv'
  <1>0. PICK old : old = jobs[j]
    OBVIOUS
  <1>1. /\ TypeInv' /\ Others(j) /\ Gone(j) /\ At(j, "delete")
        /\ UNCHANGED <<disk, staging>> /\ UNCHANGED memory
    BY DeleteStep
  <1>2. PICK info \in Infos :
          /\ info = old.info /\ info.plugin = old.plugin /\ info.plugin \in Plugins
          /\ \A u \in Users, n \in AgentNames :
               \/ rows'[u][n] = rows[u][n]
               \/ rows'[u][n] = None /\ n[1] = info.plugin /\ ~Owned(rows[u][n])
          /\ info.plugin \in tainted' \/
             \A u \in Users, n \in AgentNames : n[1] = info.plugin => rows'[u][n] = None \/ Owned(rows'[u][n])
    BY <1>0, DeleteStep
  <1>3. PICK q \in Plugins : q = info.plugin
    BY <1>2
  <1>4. PICK F \in SUBSET Plugins : Taint(F)
    <2>1. Taint({}) \/ Taint({info.plugin})
      BY <1>0, <1>2 DEF DeleteRows
    <2> QED
      BY <1>2, <2>1
  <1>5. /\ old # None /\ old.pc = "delete" /\ old.op \in {"update", "reload", "uninstall"} /\ old.info # None
    BY <1>0, <1>1, UnloadAt DEF Unloads
  <1>6. Now(old, q) <=> UnloadStage(old, q)
    BY <1>2, <1>3, <1>5, UnloadStageNow DEF Unloads
  <1>7. disk' = disk /\ loaded' = loaded /\ registry' = registry /\ q = jobs[j].plugin
    BY <1>0, <1>1, <1>2, <1>3 DEF memory
  <1>8. \A p \in Plugins \ {q} : loaded'[p] = loaded[p] /\ registry'[p] = registry[p] /\ LabelsKept(p)
    BY <1>2, <1>3, <1>7 DEF LabelsKept
  <1>9. q \notin tainted' /\ Now(old, q) => (Clean(q))' /\ loaded'[q] = None
    <2>1. Now(old, q) => loaded'[q] = None /\ registry'[q] = {}
      BY <1>5, <1>6, <1>7 DEF UnloadStage
    <2>2. q \notin tainted' => (Labels(q, {}))'
      BY <1>2, <1>3 DEF Labels
    <2> QED
      BY <2>1, <2>2 DEF Clean, SkillsOf, AgentsOf
  <1>10. "delete" \in Unloads
    BY DEF Unloads
  <1> QED
    BY <1>0, <1>1, <1>4, <1>7, <1>8, <1>9, <1>10, UnloadingInv
LEMMA Aside ==
  ASSUME NEW job, job # None, job.op \notin {"boot", "signup"}, job.pc \in Loads \cup Unloads,
         NEW p, job.info.plugin # p, Now(job, p)
  PROVE  Clean(p) /\ Fresh(p)
  <1>1. job.pc \notin {"load", "unload", "rmtree"}
    BY DEF Loads, Unloads
  <1>2. Stage(job, p) => PlaceStage(job, p)
    BY DEF Stage
  <1> QED
    BY <1>1, <1>2 DEF Now, PlaceStage

LEMMA StoppedInv ==
  ASSUME TypeInv, PluginInv, NEW j \in Requests, UnloadFails(j) \/ Stopped(j)
  PROVE  PluginInv'
  <1>0. PICK old : old = jobs[j]
    OBVIOUS
  <1>1. /\ TypeInv' /\ Others(j) /\ Ended(j)
        /\ old # None /\ old.op \notin {"boot", "signup"} /\ old.pc \in Loads \cup Unloads
        /\ UNCHANGED <<disk, staging>> /\ UNCHANGED memory
    BY <1>0, StoppedStep
  <1>2. PICK info \in Infos :
          /\ info = old.info /\ info.plugin \in Plugins /\ Taint({info.plugin})
          /\ \A u \in Users, n \in AgentNames :
               \/ rows'[u][n] = rows[u][n]
               \/ rows'[u][n] = None /\ n[1] = info.plugin /\ ~Owned(rows[u][n])
    BY <1>0, StoppedStep
  <1>3. disk' = disk /\ loaded' = loaded /\ registry' = registry /\ jobs'[j] = None
    BY <1>1 DEF memory, Ended
  <1>4. tainted \subseteq tainted' /\ Alone' /\ info.plugin \in tainted'
    BY <1>1, <1>2, TaintFacts
  <1>5. DirInv'
    <2>1. DiskProper' /\ LoadedProper'
      BY <1>3, <1>4, DiskProperKept, LoadedProperKept DEF PluginInv
    <2> QED
      BY <1>1, <1>3, <1>4, <2>1, DirStep DEF PluginInv
  <1>6. ASSUME NEW p \in Plugins \ tainted' PROVE Frame(p) /\ info.plugin # p
    BY <1>2, <1>3, <1>4 DEF Frame, LabelsKept
  <1>7. ASSUME NEW p \in Plugins \ tainted', Concerns(old, p) PROVE (Now(None, p))'
    <2>1. Now(old, p)
      BY <1>0, <1>1, <1>4, <1>7, NowBefore
    <2>2. Clean(p) /\ Fresh(p)
      BY <1>1, <1>2, <1>6, <2>1, Aside
    <2>3. (Clean(p))' /\ (Fresh(p))'
      BY <1>4, <1>6, <2>2, CleanStays, FreshStays DEF Frame, PluginInv
    <2> QED
      BY <2>3 DEF Now, Concerns
  <1>8. \A p \in Plugins : ~Concerns(None, p)
    BY DEF Concerns
  <1>9. StagesOK'
    BY <1>0, <1>1, <1>3, <1>4, <1>6, <1>7, <1>8, StepStages
  <1> QED
    BY <1>4, <1>5, <1>9 DEF PluginInv
(* The agents of a plugin are written for a user.                          *)
LEMMA LabelsSynced ==
  ASSUME NEW info, NEW p, NEW S, Labels(p, S), info.plugin = p => info.agents \subseteq S,
         \A v \in Users, n \in AgentNames : rows'[v][n] # rows[v][n] => n \in Namespaced(info)
  PROVE  (Labels(p, S))' /\ (info.plugin # p => LabelsKept(p))
  <1>1. ASSUME NEW v \in Users, NEW n \in AgentNames, rows'[v][n] # rows[v][n], n[1] = p
        PROVE  info.plugin = p /\ n[2] \in S
    <2>1. n \in Namespaced(info)
      BY <1>1
    <2> QED
      BY <1>1, <2>1, NamesOfInfo
  <1>2. (Labels(p, S))'
    BY <1>1 DEF Labels
  <1>3. info.plugin # p => LabelsKept(p)
    BY <1>1 DEF LabelsKept
  <1> QED
    BY <1>2, <1>3

LEMMA CommitInv ==
  ASSUME TypeInv, PluginInv, NEW j \in Requests, SyncCommit(j)
  PROVE  PluginInv'
  <1>0. PICK old, new, info : old = jobs[j] /\ new = jobs'[j] /\ info = jobs[j].info
    OBVIOUS
  <1>1. /\ TypeInv' /\ Others(j) /\ Resumes(j) /\ At(j, "commit") /\ info \in Carried
        /\ UNCHANGED <<disk, staging>> /\ UNCHANGED memory
        /\ \A v \in Users, n \in AgentNames : rows'[v][n] # rows[v][n] => n \in Namespaced(info)
    BY <1>0, CommitStep
  <1>2. Taint({})
    BY DEF SyncCommit
  <1>3. disk' = disk /\ loaded' = loaded /\ registry' = registry
    BY <1>1 DEF memory
  <1>4. PICK q \in Plugins : q = info.plugin
    BY <1>1 DEF Carried
  <1>5. old # None /\ old.pc = "commit" /\ old.op # "boot" /\ info # None /\ old.info = info
    <2>1. old # None /\ old.pc = "commit" /\ old.op # "boot"
      BY <1>0, <1>1, AtFits DEF Fits
    <2> QED
      BY <1>0, <1>1, <2>1, Given
  <1>6. /\ new # None /\ new.op = old.op /\ new.plugin = old.plugin /\ new.dir = old.dir
        /\ new.pc = (IF old.op = "signup" THEN "seed" ELSE "sync") /\ new.info = info /\ new.todo = old.todo
    BY <1>0, <1>1 DEF Resumes, Carries
  <1>7. JobProper(old)
    BY <1>0, <1>5 DEF PluginInv, DirInv
  <1>8. JobProper(new)
    BY <1>5, <1>6, <1>7 DEF JobProper, Loads
  <1>9. \A p \in Plugins \ {q} : loaded'[p] = loaded[p] /\ registry'[p] = registry[p] /\ LabelsKept(p)
    <2>1. ASSUME NEW p \in Plugins \ {q} PROVE LabelsKept(p)
      <3>1. ASSUME NEW v \in Users, NEW n \in AgentNames, n[1] = p PROVE rows'[v][n] = rows[v][n]
        BY <1>1, <1>4, <2>1, <3>1, NamesOfInfo
      <3> QED
        BY <3>1 DEF LabelsKept
    <2> QED
      BY <1>3, <2>1
  <1>10. loaded'[q] # None => Proper(q, loaded[q].dir)
    BY <1>3 DEF PluginInv, DirInv, LoadedProper
  <1>11. Concerns(old, q)
    BY <1>4, <1>5 DEF Concerns
  <1>12. CASE old.op = "signup"
    <2>1. ASSUME NEW p \in Plugins, Now(old, p)
          PROVE  /\ Clean(p) /\ Fresh(p) /\ \A i \in old.todo : i.plugin = p => i = loaded[p]
                 /\ q = p => loaded[p] # None /\ info.agents \subseteq loaded[p].agents
      BY <1>4, <1>5, <1>12, <2>1, SignupNow DEF SignupStage
    <2>2. ASSUME NEW p \in Plugins, Now(old, p), (Clean(p))', (Fresh(p))' PROVE (Now(new, p))'
      <3>1. (SignupStage(new, p))'
        BY <1>3, <1>6, <1>12, <2>1, <2>2 DEF SignupStage
      <3>2. (Stage(new, p))'
        BY <1>6, <1>12, <3>1 DEF Stage
      <3> QED
        BY <2>2, <3>2 DEF Now
    <2>3. ASSUME Now(old, q) PROVE (Now(new, q))'
      <3>1. PICK S : S = AgentsOf(loaded[q])
        OBVIOUS
      <3>2. Labels(q, S) /\ info.agents \subseteq S
        BY <2>1, <2>3, <3>1 DEF Clean, AgentsOf
      <3>3. (Labels(q, S))'
        BY <1>1, <1>4, <3>2, LabelsSynced
      <3>4. (Clean(q))'
        BY <1>3, <2>1, <2>3, <3>1, <3>3 DEF Clean
      <3>5. (Fresh(q))'
        BY <1>3, <2>1, <2>3 DEF Fresh, InPlace
      <3> QED
        BY <2>2, <2>3, <3>4, <3>5
    <2> QED
      BY <1>0, <1>1, <1>2, <1>3, <1>4, <1>8, <1>9, <1>10, <1>11, <2>1, <2>2, <2>3, OneInv
  <1>13. CASE old.op # "signup"
    <2>1. old.pc \in Loads /\ new.pc = "sync" /\ new.pc \in Loads /\ old.op \notin {"boot", "signup"}
          /\ new.op \notin {"boot", "signup"}
      BY <1>5, <1>6, <1>13 DEF Loads
    <2>2. ASSUME Now(old, q) PROVE (Now(new, q))'
      <3>1. LoadStage(old, q)
        BY <1>4, <1>5, <2>1, <2>2, LoadStageNow
      <3>2. loaded[q] \in {None, info} /\ InPlace(info) /\ registry[q] = info.skills /\ Labels(q, info.agents)
        BY <1>5, <3>1 DEF LoadStage
      <3>3. (Labels(q, info.agents))'
        BY <1>1, <3>2, LabelsSynced
      <3>4. (LoadStage(new, q))'
        BY <1>3, <1>6, <2>1, <3>2, <3>3 DEF LoadStage, InPlace
      <3> QED
        BY <1>4, <1>5, <1>6, <2>1, <3>4, LoadStageNow
    <2>3. ASSUME NEW p \in Plugins \ {q}, Now(old, p) PROVE Clean(p) /\ Fresh(p)
      BY <1>4, <1>5, <2>1, <2>3, LoadAside
    <2>4. ASSUME NEW p \in Plugins \ {q}, (Clean(p))', (Fresh(p))' PROVE (Now(new, p))'
      BY <1>4, <1>6, <2>1, <2>4, AsideNext
    <2> QED
      BY <1>0, <1>1, <1>2, <1>3, <1>4, <1>8, <1>9, <1>10, <1>11, <2>2, <2>3, <2>4, OneInv
  <1> QED
    BY <1>12, <1>13
----------------------------------------------------------------------------
(* The users' own steps, and the restarts *)

LEMMA FrameInv ==
  ASSUME TypeInv, TypeInv', PluginInv, jobs' = jobs, tainted' = tainted,
         disk' = disk, loaded' = loaded, registry' = registry, \A p \in Plugins : LabelsKept(p)
  PROVE  PluginInv'
  <1>1. DirInv'
    <2>1. DiskProper' /\ LoadedProper'
      BY DiskProperKept, LoadedProperKept DEF PluginInv
    <2>2. ASSUME NEW k \in Requests, jobs'[k] # None PROVE (JobProper(jobs[k]))'
      <3>1. PICK job : job = jobs[k] /\ job = jobs'[k]
        OBVIOUS
      <3>2. JobProper(job)
        BY <2>2, <3>1 DEF PluginInv, DirInv
      <3>3. (JobProper(job))'
        BY <3>2, JobProperKept
      <3> QED
        BY <3>1, <3>3
    <2> QED
      BY <2>1, <2>2 DEF DirInv
  <1>2. Alone'
    BY DEF PluginInv, Alone, Overlapping
  <1>3. ASSUME NEW p \in Plugins PROVE Frame(p)
    BY DEF Frame
  <1>4. ASSUME NEW p \in Plugins \ tainted', ~(Busy(p))' PROVE (Clean(p) /\ Fresh(p))'
    <2>1. ~Busy(p)
      BY <1>4 DEF Busy
    <2>2. Clean(p) /\ Fresh(p)
      BY <1>4, <2>1 DEF PluginInv, StagesOK
    <2> QED
      BY <1>3, <1>4, <2>2, NowFrame DEF PluginInv
  <1>5. ASSUME NEW p \in Plugins \ tainted', NEW k \in Requests \cup {Boot}, Concerns(jobs'[k], p)
        PROVE  (Stage(jobs[k], p))'
    <2>1. PICK job : job = jobs[k] /\ job = jobs'[k]
      OBVIOUS
    <2>2. Concerns(job, p) /\ Stage(job, p)
      BY <1>5, <2>1 DEF PluginInv, StagesOK
    <2>3. (Stage(job, p))'
      BY <1>3, <1>5, <2>1, <2>2, StageKept DEF PluginInv
    <2> QED
      BY <2>1, <2>3
  <1>6. StagesOK'
    BY <1>4, <1>5 DEF StagesOK
  <1> QED
    BY <1>1, <1>2, <1>6 DEF PluginInv

LEMMA UserInv ==
  ASSUME TypeInv, PluginInv, UserStep
  PROVE  PluginInv'
  <1>1. /\ TypeInv'
        /\ UNCHANGED <<disk, staging>> /\ UNCHANGED memory /\ UNCHANGED jobs
        /\ UNCHANGED <<served, stops, tainted>>
        /\ \E u \in Users, n \in AgentNames, row \in Row \cup {None} :
             /\ rows'[u][n] = row
             /\ row # None => (rows[u][n] # None /\ (Owned(row) <=> Owned(rows[u][n]))) \/ Owned(row)
             /\ \A v \in Users, m \in AgentNames : v # u \/ m # n => rows'[v][m] = rows[v][m]
    BY UserRow
  <1>2. \A p \in Plugins : LabelsKept(p)
    <2>1. PICK u \in Users, n \in AgentNames :
             /\ rows'[u][n] # None /\ ~Owned(rows'[u][n]) => rows[u][n] # None /\ ~Owned(rows[u][n])
             /\ \A v \in Users, m \in AgentNames : v # u \/ m # n => rows'[v][m] = rows[v][m]
      BY <1>1
    <2>2. \A v \in Users, m \in AgentNames :
            rows'[v][m] # None /\ ~Owned(rows'[v][m]) => rows[v][m] # None /\ ~Owned(rows[v][m])
      BY <2>1
    <2> QED
      BY <2>2 DEF LabelsKept
  <1> QED
    BY <1>1, <1>2, FrameInv DEF memory

LEMMA StutterInv ==
  ASSUME TypeInv, PluginInv, UNCHANGED vars
  PROVE  PluginInv'
  <1>1. TypeInv'
    BY StutterType
  <1>2. jobs' = jobs /\ tainted' = tainted /\ disk' = disk /\ loaded' = loaded /\ registry' = registry /\ rows' = rows
    BY DEF vars, memory
  <1>3. \A p \in Plugins : LabelsKept(p)
    BY <1>2 DEF LabelsKept
  <1> QED
    BY <1>1, <1>2, <1>3, FrameInv

LEMMA InitInv == Init => PluginInv
  <1> SUFFICES ASSUME Init PROVE PluginInv
    OBVIOUS
  <1>1. /\ \A d \in Dirs : disk[d] = IF d \in Plugins THEN None ELSE External[d]
        /\ \A p \in Plugins : loaded[p] = None /\ registry[p] = {}
        /\ \A u \in Users, n \in AgentNames : rows[u][n] = None
        /\ DOMAIN jobs = Requests \cup {Boot} /\ \A j \in Requests \cup {Boot} : jobs[j] = None
        /\ tainted = {}
    BY DEF Init
  <1>2. DirInv
    <2>1. ASSUME NEW d \in Dirs, disk[d] \in Contents PROVE Proper(disk[d][1], d)
      <3>1. d \in DOMAIN External /\ disk[d] = External[d]
        BY <1>1, <2>1, Given DEF Dirs
      <3> QED
        BY <3>1 DEF Proper
    <2> QED
      BY <1>1, <2>1 DEF DirInv, DiskProper, LoadedProper
  <1>3. Alone
    BY <1>1 DEF Alone, Overlapping, Concerns
  <1>4. ASSUME NEW p \in Plugins PROVE Clean(p) /\ Fresh(p) /\ \A j \in Requests \cup {Boot} : ~Concerns(jobs[j], p)
    BY <1>1 DEF Clean, Fresh, Labels, SkillsOf, AgentsOf, Concerns
  <1>5. StagesOK
    BY <1>4 DEF StagesOK
  <1> QED
    BY <1>2, <1>3, <1>5 DEF PluginInv

(* After a restart the startup has every plugin to load, and nothing else  *)
(* runs.                                                                   *)
LEMMA RestartInv ==
  ASSUME TypeInv, TypeInv', PluginInv, tainted \subseteq tainted', UNCHANGED disk,
         jobs'[Boot] = Started, \A j \in Requests : jobs'[j] = None,
         \A p \in Plugins : loaded'[p] = None /\ registry'[p] = {},
         \A p \in Plugins \ tainted' :
           IF disk[p] \in Contents THEN (Labels(p, Manifest[disk[p]].agents))' ELSE (Labels(p, {}))'
  PROVE  PluginInv'
  <1>1. PICK boot : boot = Started
    OBVIOUS
  <1>2. boot # None /\ boot.op = "boot" /\ boot.todo = {d \in Plugins : disk[d] \in Contents} /\ jobs'[Boot] = boot
    BY <1>1, StartedFits
  <1>3. DOMAIN jobs' = Requests \cup {Boot}
    BY DEF TypeInv, JobsOK
  <1>4. DirInv'
    <2>1. DiskProper'
      BY DiskProperKept DEF PluginInv
    <2>2. LoadedProper'
      BY DEF LoadedProper
    <2> QED
      BY <2>1, <2>2 DEF DirInv
  <1>5. Alone'
    BY <1>3 DEF Alone, Overlapping, Concerns
  <1>6. ASSUME NEW p \in Plugins \ tainted'
        PROVE  (Busy(p))' /\ \A j \in Requests \cup {Boot} : Concerns(jobs'[j], p) => (Stage(jobs[j], p))'
    <2>1. Concerns(boot, p)
      BY <1>2 DEF Concerns
    <2>2. (Busy(p))'
      BY <1>2, <1>3, <2>1 DEF Busy
    <2>3. (BootStage(boot, p))'
      <3>1. CASE p \in boot.todo
        BY <1>2, <1>6, <3>1 DEF BootStage
      <3>2. CASE p \notin boot.todo
        <4>1. (Labels(p, {}))'
          BY <1>2, <1>6, <3>2
        <4>2. (Clean(p))' /\ (Fresh(p))'
          BY <4>1 DEF Clean, Fresh, SkillsOf, AgentsOf
        <4> QED
          BY <3>2, <4>2 DEF BootStage
      <3> QED
        BY <3>1, <3>2
    <2>4. (Stage(boot, p))'
      BY <1>2, <2>3 DEF Stage
    <2>5. ASSUME NEW j \in Requests \cup {Boot}, Concerns(jobs'[j], p) PROVE (Stage(jobs[j], p))'
      <3>1. j = Boot
        BY <2>5 DEF Concerns
      <3> QED
        BY <1>2, <2>4, <3>1
    <2> QED
      BY <2>2, <2>5
  <1>7. StagesOK'
    BY <1>6 DEF StagesOK
  <1> QED
    BY <1>4, <1>5, <1>7 DEF PluginInv
LEMMA AtRest ==
  ASSUME TypeInv, PluginInv, NEW p \in Plugins \ tainted, ~Busy(p), loaded[p] # None => loaded[p].dir \in Plugins
  PROVE  IF disk[p] \in Contents THEN Labels(p, Manifest[disk[p]].agents) ELSE Labels(p, {})
  <1>1. Clean(p) /\ Fresh(p)
    BY DEF PluginInv, StagesOK
  <1>2. CASE loaded[p] = None
    <2>1. Labels(p, {})
      BY <1>1, <1>2 DEF Clean, AgentsOf
    <2> QED
      BY <2>1 DEF Labels
  <1>3. CASE loaded[p] # None
    <2>1. PICK l : l = loaded[p]
      OBVIOUS
    <2>2. Proper(p, l.dir) /\ l.dir \in Plugins
      BY <1>3, <2>1 DEF PluginInv, DirInv, LoadedProper
    <2>3. l.dir = p
      BY <2>2, Given DEF Proper
    <2>4. disk[p] \in Contents /\ l = PluginInfo(disk[p], p)
      BY <1>1, <1>3, <2>1, <2>3 DEF Fresh, InPlace
    <2>5. l.agents = Manifest[disk[p]].agents
      BY <2>4, InfoOf DEF Dirs
    <2>6. Labels(p, l.agents)
      BY <1>1, <1>3, <2>1 DEF Clean, AgentsOf
    <2> QED
      BY <2>4, <2>5, <2>6
  <1> QED
    BY <1>2, <1>3

LEMMA CrashInv ==
  ASSUME TypeInv, PluginInv, Crash
  PROVE  PluginInv'
  <1>1. /\ TypeInv' /\ jobs'[Boot] = Started /\ \A j \in Requests : jobs'[j] = None
        /\ UNCHANGED <<disk, staging, users>> /\ UNCHANGED rows
        /\ \A p \in Plugins : loaded'[p] = None /\ registry'[p] = {}
    BY CrashStep
  <1>2. tainted' = tainted \cup {p \in Plugins :
          Busy(p) \/ (IF loaded[p] = None THEN FALSE ELSE loaded[p].dir \notin Plugins)}
    BY DEF Crash
  <1>3. ASSUME NEW p \in Plugins \ tainted'
        PROVE  IF disk[p] \in Contents THEN (Labels(p, Manifest[disk[p]].agents))' ELSE (Labels(p, {}))'
    <2>1. p \in Plugins \ tainted /\ ~Busy(p) /\ (loaded[p] # None => loaded[p].dir \in Plugins)
      BY <1>2, <1>3
    <2>2. IF disk[p] \in Contents THEN Labels(p, Manifest[disk[p]].agents) ELSE Labels(p, {})
      BY <2>1, AtRest
    <2>3. \A S : Labels(p, S) => (Labels(p, S))'
      BY <1>1 DEF Labels
    <2>4. disk'[p] = disk[p]
      BY <1>1
    <2> QED
      BY <2>2, <2>3, <2>4
  <1>4. tainted \subseteq tainted'
    BY <1>2
  <1> QED
    BY <1>1, <1>3, <1>4, RestartInv

LEMMA ShutdownInv ==
  ASSUME TypeInv, PluginInv, Shutdown
  PROVE  PluginInv'
  <1>1. /\ TypeInv' /\ jobs'[Boot] = Started /\ \A j \in Requests : jobs'[j] = None
        /\ \A j \in Requests \cup {Boot} : jobs[j] = None
        /\ UNCHANGED <<disk, staging, users>>
        /\ \A p \in Plugins : loaded'[p] = None /\ registry'[p] = {}
    BY ShutdownStep
  <1>2. PICK gone \in SUBSET Unloaded : Emptied(gone) /\ tainted' = tainted \cup Spared(gone)
    BY ShutdownStep
  <1>3. ASSUME NEW p \in Plugins \ tainted'
        PROVE  IF disk[p] \in Contents THEN (Labels(p, Manifest[disk[p]].agents))' ELSE (Labels(p, {}))'
    <2>1. p \in Plugins \ tainted /\ ~Busy(p)
      BY <1>1, <1>2, <1>3, Domain DEF Busy, Concerns
    <2>2. CASE p \in gone
      <3>1. \A S : (Labels(p, S))'
        BY <1>2, <2>2 DEF Labels, Emptied
      <3> QED
        BY <1>1, <3>1
    <2>3. CASE p \notin gone
      <3>1. \A S : Labels(p, S) => (Labels(p, S))'
        BY <1>2, <2>3 DEF Labels, Emptied
      <3>2. CASE loaded[p] # None => loaded[p].dir \in Plugins
        <4>1. IF disk[p] \in Contents THEN Labels(p, Manifest[disk[p]].agents) ELSE Labels(p, {})
          BY <2>1, <3>2, AtRest
        <4> QED
          BY <1>1, <3>1, <4>1
      <3>3. CASE loaded[p] # None /\ loaded[p].dir \notin Plugins
        <4>1. p \notin Unloaded
          BY <1>2, <1>3, <2>3, <3>3 DEF Spared
        <4>2. AgentsOf(loaded[p]) = {}
          BY <3>3, <4>1 DEF Unloaded, AgentsOf
        <4>3. Labels(p, {})
          BY <2>1, <4>2 DEF PluginInv, StagesOK, Clean
        <4>4. \A S : Labels(p, S)
          BY <4>3 DEF Labels
        <4> QED
          BY <1>1, <3>1, <4>4
      <3> QED
        BY <3>2, <3>3
    <2> QED
      BY <2>2, <2>3
  <1>4. tainted \subseteq tainted' /\ UNCHANGED disk
    BY <1>1, <1>2
  <1> QED
    BY <1>1, <1>3, <1>4, RestartInv

LEMMA BootInv ==
  ASSUME TypeInv, PluginInv, BootNext
  PROVE  PluginInv'
  <1>0. PICK old, new : old = jobs[Boot] /\ new = jobs'[Boot]
    OBVIOUS
  <1>1. /\ TypeInv' /\ UNCHANGED <<disk, staging, users>> /\ old # None /\ old.op = "boot"
        /\ \A j \in Requests : jobs'[j] = None
        /\ \/ /\ old.todo = {} /\ new = None /\ UNCHANGED <<loaded, registry, rows, missed>>
           \/ \E d \in old.todo, info \in Infos :
                /\ d \in Plugins /\ disk[d] \in Contents /\ info = PluginInfo(disk[d], d)
                /\ new # None /\ new.op = "boot" /\ new.todo = old.todo \ {d}
                /\ loaded'[info.plugin] = info /\ \A p \in Plugins \ {info.plugin} : loaded'[p] = loaded[p]
                /\ registry'[info.plugin] = registry[info.plugin] \cup info.skills
                /\ \A p \in Plugins \ {info.plugin} : registry'[p] = registry[p]
                /\ \A v \in Users, n \in AgentNames : rows'[v][n] # rows[v][n] => n \in Namespaced(info)
    BY <1>0, BootStep
  <1>2. Taint({})
    BY Zenon DEF BootNext
  <1>3. tainted \subseteq tainted' /\ Alone' /\ disk' = disk
    BY <1>1, <1>2, TaintFacts
  <1>4. DOMAIN jobs' = Requests \cup {Boot}
    BY <1>1 DEF TypeInv, JobsOK
  <1>5. \A p \in Plugins \ tainted' : p \notin tainted /\ BootStage(old, p)
    <2>1. ASSUME NEW p \in Plugins \ tainted' PROVE p \notin tainted /\ Concerns(jobs[Boot], p) /\ Stage(jobs[Boot], p)
      BY <1>0, <1>1, <1>3 DEF PluginInv, StagesOK, Concerns
    <2> QED
      BY <1>0, <1>1, <2>1 DEF Stage
  <1>6. ASSUME LoadedProper',
               \A p \in Plugins \ tainted' : IF new = None THEN (Clean(p))' /\ (Fresh(p))' ELSE (BootStage(new, p))',
               new # None => new.op = "boot"
        PROVE  PluginInv'
    <2>1. DiskProper'
      BY <1>3, DiskProperKept DEF PluginInv
    <2>2. DirInv'
      BY <1>1, <1>6, <2>1 DEF DirInv
    <2>3. ASSUME NEW p \in Plugins \ tainted'
          PROVE  /\ ~(Busy(p))' => (Clean(p))' /\ (Fresh(p))'
                 /\ \A j \in Requests \cup {Boot} : Concerns(jobs'[j], p) => (Stage(jobs[j], p))'
      <3>1. CASE new = None
        <4>1. \A j \in Requests \cup {Boot} : ~Concerns(jobs'[j], p)
          BY <1>0, <1>1, <3>1 DEF Concerns
        <4> QED
          BY <1>6, <2>3, <3>1, <4>1
      <3>2. CASE new # None
        <4>1. (Stage(new, p))'
          BY <1>6, <2>3, <3>2 DEF Stage
        <4>2. (Busy(p))'
          BY <1>0, <1>4, <1>6, <3>2 DEF Busy, Concerns
        <4>3. \A j \in Requests : ~Concerns(jobs'[j], p)
          BY <1>1 DEF Concerns
        <4> QED
          BY <1>0, <4>1, <4>2, <4>3
      <3> QED
        BY <3>1, <3>2
    <2>4. StagesOK'
      BY <2>3 DEF StagesOK
    <2> QED
      BY <1>3, <2>2, <2>4 DEF PluginInv
  <1>7. CASE old.todo = {} /\ new = None /\ UNCHANGED <<loaded, registry, rows, missed>>
    <2>1. LoadedProper'
      BY <1>3, <1>7, LoadedProperKept DEF PluginInv
    <2>2. ASSUME NEW p \in Plugins \ tainted' PROVE (Clean(p))' /\ (Fresh(p))'
      <3>1. Clean(p) /\ Fresh(p)
        BY <1>5, <1>7, <2>2 DEF BootStage
      <3>2. (Clean(p))'
        BY <1>7, <3>1, CleanSame
      <3>3. (Fresh(p))'
        BY <1>3, <1>7, <3>1 DEF Fresh, InPlace
      <3> QED
        BY <3>2, <3>3
    <2> QED
      BY <1>6, <1>7, <2>1, <2>2
  <1>8. ASSUME NEW d \in old.todo, NEW info \in Infos,
               d \in Plugins, disk[d] \in Contents, info = PluginInfo(disk[d], d),
               new # None, new.op = "boot", new.todo = old.todo \ {d},
               loaded'[info.plugin] = info, \A p \in Plugins \ {info.plugin} : loaded'[p] = loaded[p],
               registry'[info.plugin] = registry[info.plugin] \cup info.skills,
               \A p \in Plugins \ {info.plugin} : registry'[p] = registry[p],
               \A v \in Users, n \in AgentNames : rows'[v][n] # rows[v][n] => n \in Namespaced(info)
        PROVE  PluginInv'
    <2>1. /\ info.plugin \in Plugins /\ info.dir = d /\ InPlace(info) /\ Proper(info.plugin, d)
          /\ info.agents = Manifest[disk[d]].agents /\ info # None /\ d \in Dirs
      BY <1>8, LoadedFrom, InfoOf, Given DEF Dirs
    <2>2. PICK q \in Plugins : q = info.plugin
      BY <2>1
    <2>3. LoadedProper'
      <3>1. ASSUME NEW p \in Plugins, loaded'[p] # None PROVE (Proper(p, loaded[p].dir))'
        <4>1. PICK k : k = loaded'[p]
          OBVIOUS
        <4>2. Proper(p, k.dir)
          BY <1>8, <2>1, <2>2, <3>1, <4>1 DEF PluginInv, DirInv, LoadedProper
        <4>3. (Proper(p, k.dir))'
          BY <1>3, <4>2, ProperKept
        <4> QED
          BY <4>1, <4>3
      <3> QED
        BY <3>1 DEF LoadedProper
    <2>4. ASSUME NEW p \in Plugins \ tainted' PROVE (BootStage(new, p))'
      <3>1. p = q <=> p = d
        <4>1. d \in Plugins /\ d \notin DOMAIN External
          BY <1>8, Given
        <4>2. q = d \/ {q, d} \subseteq tainted
          BY <2>1, <2>2, <4>1 DEF Proper
        <4>3. p \notin tainted
          BY <1>5, <2>4
        <4> QED
          BY <4>2, <4>3
      <3>2. CASE p = q
        <4>1. p \in old.todo /\ p \notin new.todo
          BY <1>8, <3>1, <3>2
        <4>2. registry[p] = {} /\ Labels(p, info.agents)
          BY <1>5, <2>1, <2>4, <3>1, <3>2, <4>1 DEF BootStage
        <4>3. (Labels(p, info.agents))'
          BY <1>8, <4>2, LabelsSynced
        <4>4. (Clean(p))'
          BY <1>8, <2>1, <2>2, <3>2, <4>2, <4>3 DEF Clean, SkillsOf, AgentsOf
        <4>5. (Fresh(p))'
          BY <1>3, <1>8, <2>1, <2>2, <3>2 DEF Fresh, InPlace
        <4> QED
          BY <4>1, <4>4, <4>5 DEF BootStage
      <3>3. CASE p # q
        <4>1. p \in old.todo <=> p \in new.todo
          BY <1>8, <3>1, <3>3
        <4>2. LabelsKept(p)
          <5>1. ASSUME NEW v \in Users, NEW n \in AgentNames, n[1] = p PROVE rows'[v][n] = rows[v][n]
            BY <1>8, <2>2, <3>3, <5>1, NamesOfInfo
          <5> QED
            BY <5>1 DEF LabelsKept
        <4>3. Frame(p)
          BY <1>3, <1>8, <2>2, <3>3, <4>2 DEF Frame
        <4>4. CASE p \in old.todo
          <5>1. PICK S : S = Manifest[disk[p]].agents
            OBVIOUS
          <5>2. loaded[p] = None /\ registry[p] = {} /\ Labels(p, S)
            BY <1>5, <2>4, <4>4, <5>1 DEF BootStage
          <5>3. (Labels(p, S))'
            BY <4>2, <5>2, LabelsStay
          <5> QED
            BY <1>3, <4>1, <4>3, <4>4, <5>1, <5>2, <5>3 DEF BootStage, Frame
        <4>5. CASE p \notin old.todo
          <5>1. Clean(p) /\ Fresh(p)
            BY <1>5, <2>4, <4>5 DEF BootStage
          <5>2. (Clean(p))' /\ (Fresh(p))'
            BY <1>5, <2>4, <4>3, <5>1, NowFrame DEF PluginInv
          <5> QED
            BY <4>1, <4>5, <5>2 DEF BootStage
        <4> QED
          BY <4>4, <4>5
      <3> QED
        BY <3>2, <3>3
    <2> QED
      BY <1>6, <1>8, <2>3, <2>4
  <1> QED
    BY <1>1, <1>7, <1>8

----------------------------------------------------------------------------
LEMMA RequestInv ==
  ASSUME TypeInv, PluginInv, NEW j \in Requests, Request(j)
  PROVE  PluginInv'
  BY ArrivalInv, InstallInv, ChatInstallInv, SignUpInv DEF Request

LEMMA WorkInv ==
  ASSUME TypeInv, PluginInv, NEW j \in Requests, Work(j)
  PROVE  PluginInv'
  <1>1. CASE \/ CleanStaging(j) \/ StartClone(j) \/ CloneFails(j) \/ GiveUp(j) \/ Validate(j)
             \/ \E c \in Contents : EndClone(j, c)
    BY <1>1, CloneInv
  <1>2. CASE \/ (\E c \in Contents : Copied(j, c)) \/ Rename(j) \/ Pull(j) \/ RemoveFiles(j)
    BY <1>2, CopiedInv, RenameInv, PullInv, RemoveInv
  <1>3. CASE Unload(j) \/ Closed(j) \/ DeleteRows(j)
    BY <1>3, UnloadInv, ClosedInv, DeleteInv
  <1>4. CASE Load(j) \/ Connected(j) \/ LoadFails(j) \/ Loaded(j)
    BY <1>4, LoadInv, ConnectedInv, LoadFailsInv, LoadedInv
  <1>5. CASE \/ SelectUsers(j) \/ (\E s \in Servers : Connect(j, s)) \/ (\E u \in Users : SyncRead(j, u))
    BY <1>5, LoadQuietInv
  <1>6. CASE SyncCommit(j) \/ SyncFails(j) \/ ListPlugins(j) \/ Seed(j)
    BY <1>6, CommitInv, SyncFailsInv, ListInv, SeedInv
  <1>7. CASE UnloadFails(j) \/ Stopped(j)
    BY <1>7, StoppedInv
  <1> QED
    BY <1>1, <1>2, <1>3, <1>4, <1>5, <1>6, <1>7 DEF Work

LEMMA PluginInvariant == Spec => [](TypeInv /\ PluginInv)
  <1>1. TypeInv /\ PluginInv /\ [Next]_vars => PluginInv'
    <2> SUFFICES ASSUME TypeInv, PluginInv, [Next]_vars PROVE PluginInv'
      OBVIOUS
    <2>1. CASE Next
      BY <2>1, RequestInv, WorkInv, UserInv, CrashInv, ShutdownInv, BootInv DEF Next
    <2>2. CASE UNCHANGED vars
      BY <2>2, StutterInv
    <2> QED
      BY <2>1, <2>2
  <1> QED
    BY <1>1, TypeInvariant, InitInv, PTL DEF Spec

(* Nothing remains of a plugin, or of a version of it, that is not loaded: *)
(* the skills of the process and the rows of the database are those of the *)
(* plugins in the list, for any number of plugins, requests, users and     *)
(* restarts, unless operations on the plugin overlapped or one of them     *)
(* failed, raised or was stopped half way; and an operation of another     *)
(* plugin that did leaves it alone (plugin_loader.py unload_plugin and     *)
(* load_plugin, mcp_client.py disconnect).                                 *)
THEOREM LeftoversCorrect == Spec => []NothingOutlivesItsPlugin
  <1>1. PluginInv => NothingOutlivesItsPlugin
    <2> SUFFICES ASSUME PluginInv, NEW p \in Plugins \ tainted, ~Busy(p)
                 PROVE  /\ registry[p] = IF loaded[p] = None THEN {} ELSE loaded[p].skills
                        /\ \A u \in Users, n \in AgentNames :
                             rows[u][n] # None /\ ~Owned(rows[u][n]) /\ n[1] = p =>
                               IF loaded[p] = None THEN FALSE ELSE n[2] \in loaded[p].agents
      BY DEF NothingOutlivesItsPlugin
    <2>1. Clean(p)
      BY DEF PluginInv, StagesOK
    <2>2. \A u \in Users, n \in AgentNames :
            rows[u][n] # None /\ ~Owned(rows[u][n]) /\ n[1] = p => n[2] \in AgentsOf(loaded[p])
      BY <2>1 DEF Clean, Labels
    <2> QED
      BY <2>1, <2>2 DEF Clean, SkillsOf, AgentsOf
  <1> QED
    BY <1>1, PluginInvariant, PTL

----------------------------------------------------------------------------
(* The agents of a plugin that is loaded have a row of every user, but for *)
(* the users that the loader, a signup or the startup has still to serve.  *)
Has(p, A, U) == \A u \in U, n \in AgentNames : n[1] = p /\ n[2] \in A => rows[u][n] # None
Served(p) == Has(p, AgentsOf(loaded[p]), users)

(* A row that was read for a user's transaction is still there. *)
SeenStays(job) == \A n \in AgentNames \cap Namespaced(job.info) :
                    job.seen[n] # None => rows[job.user][n] # None
Writes(job, p) == job.pc = "commit" /\ job.info.plugin = p
Left(job) == IF job.pc = "commit" THEN job.todo \cup {job.user} ELSE job.todo

SignupReach(job, p) ==
  /\ Has(p, AgentsOf(loaded[p]), users \ {job.user})
  /\ \/ job.pc = "list" \/ loaded[p] \in job.todo \/ Writes(job, p)
     \/ Has(p, AgentsOf(loaded[p]), {job.user})
  /\ Writes(job, p) => AgentsOf(loaded[p]) \subseteq job.info.agents /\ SeenStays(job)
LoadReach(job, p) ==
  /\ job.pc \in {"sync", "commit"} => Has(p, job.info.agents, users \ Left(job))
  /\ job.pc = "commit" => SeenStays(job)
Reach(job, p) ==
  IF ~Concerns(job, p) THEN Served(p)
  ELSE CASE job.op = "boot"   -> p \in job.todo \/ Served(p)
         [] job.op = "signup" -> SignupReach(job, p)
         [] OTHER -> IF job.pc \in Loads /\ job.info.plugin = p THEN LoadReach(job, p) ELSE Served(p)

ReachInv ==
  \A p \in Plugins \ (tainted \cup missed) :
    /\ ~Busy(p) => Served(p)
    /\ \A j \in Requests \cup {Boot} : Concerns(jobs[j], p) => Reach(jobs[j], p)

(* A step that is not about a plugin keeps it in the list and keeps its    *)
(* rows.                                                                   *)
RowsKept(p) == \A u \in Users, n \in AgentNames : n[1] = p /\ rows[u][n] # None => rows'[u][n] # None
Calm(p) == loaded'[p] = loaded[p] /\ RowsKept(p)

LEMMA HasKept ==
  ASSUME NEW p, RowsKept(p), NEW A, NEW U, U \subseteq Users, Has(p, A, U)
  PROVE  (Has(p, A, U))'
  BY DEF Has, RowsKept

LEMMA HasFewer ==
  ASSUME NEW p, NEW A, NEW B, B \subseteq A, NEW U, NEW V, V \subseteq U, Has(p, A, U)
  PROVE  Has(p, B, V)
  BY DEF Has

LEMMA ServedKept ==
  ASSUME TypeInv, NEW p, Calm(p), users' = users, Served(p)
  PROVE  (Served(p))'
  <1>1. PICK A, U : A = AgentsOf(loaded[p]) /\ U = users
    OBVIOUS
  <1>2. U \subseteq Users /\ Has(p, A, U)
    BY <1>1 DEF TypeInv, RowsOK, Served
  <1>3. (Has(p, A, U))'
    BY <1>2, HasKept DEF Calm
  <1>4. (AgentsOf(loaded[p]))' = A /\ users' = U
    BY <1>1 DEF Calm, AgentsOf
  <1> QED
    BY <1>3, <1>4 DEF Served

(* A plugin that is not in the list has no agents to bring.                *)
LEMMA NothingToServe ==
  ASSUME NEW p
  PROVE  /\ loaded[p] = None => Served(p)
         /\ loaded'[p] = None => (Served(p))'
  BY DEF Served, Has, AgentsOf

LEMMA SeenKept ==
  ASSUME NEW job, job.user \in Users, NEW p, job.info.plugin = p, RowsKept(p), SeenStays(job)
  PROVE  (SeenStays(job))'
  <1>1. \A n \in Namespaced(job.info) : n[1] = p
    BY NamesOfInfo
  <1> QED
    BY <1>1 DEF SeenStays, RowsKept

LEMMA ReachKept ==
  ASSUME TypeInv, NEW p, Calm(p), users' = users, NEW k \in Requests \cup {Boot},
         NEW job, job = jobs[k], Reach(job, p)
  PROVE  (Reach(job, p))'
  <1>1. Served(p) => (Served(p))'
    BY ServedKept
  <1>2. CASE ~Concerns(job, p)
    BY <1>1, <1>2 DEF Reach
  <1>3. CASE Concerns(job, p)
    <2>1. job # None
      BY <1>3 DEF Concerns
    <2>2. JobOK(job)
      BY <2>1 DEF TypeInv, JobsOK
    <2>3. PICK A, U : A = AgentsOf(loaded[p]) /\ U = users
      OBVIOUS
    <2>4. A = (AgentsOf(loaded[p]))' /\ users' = U /\ loaded'[p] = loaded[p] /\ U \subseteq Users /\ RowsKept(p)
      BY <2>3 DEF Calm, AgentsOf, TypeInv, RowsOK
    <2>5. CASE job.op = "boot"
      BY <1>1, <1>3, <2>5 DEF Reach
    <2>6. CASE job.op = "signup"
      <3>1. SignupOK(job) /\ SignupReach(job, p)
        BY <1>3, <2>2, <2>6 DEF JobOK, Reach
      <3>2. job.user \in Users
        BY <3>1 DEF SignupOK
      <3>3. (Has(p, A, U \ {job.user}))'
        BY <2>3, <2>4, <3>1, HasKept DEF SignupReach
      <3>4. Has(p, A, {job.user}) => (Has(p, A, {job.user}))'
        BY <2>4, <3>2, HasKept
      <3>5. Writes(job, p) /\ SeenStays(job) => (SeenStays(job))'
        BY <2>4, <3>2, SeenKept DEF Writes
      <3>6. (SignupReach(job, p))'
        BY <2>3, <2>4, <3>1, <3>3, <3>4, <3>5 DEF SignupReach, Writes
      <3> QED
        BY <1>3, <2>6, <3>6 DEF Reach
    <2>7. CASE job.op \notin {"boot", "signup"}
      <3>1. FlowOK(job)
        BY <2>2, <2>7 DEF JobOK
      <3>2. CASE job.pc \in Loads /\ job.info.plugin = p
        <4>1. LoadReach(job, p)
          BY <1>3, <2>7, <3>2 DEF Reach
        <4>2. job.pc \in {"sync", "commit"} => (Has(p, job.info.agents, U \ Left(job)))'
          <5>1. U \ Left(job) \subseteq Users
            BY <2>4
          <5> QED
            BY <2>3, <2>4, <4>1, <5>1, HasKept DEF LoadReach
        <4>3. job.pc = "commit" => (SeenStays(job))'
          BY <2>4, <3>1, <3>2, <4>1, SeenKept DEF LoadReach, FlowOK
        <4>4. (LoadReach(job, p))'
          BY <2>4, <4>2, <4>3 DEF LoadReach, Left
        <4> QED
          BY <1>3, <2>7, <3>2, <4>4 DEF Reach
      <3>3. CASE ~(job.pc \in Loads /\ job.info.plugin = p)
        <4>1. Served(p)
          BY <1>3, <2>7, <3>3 DEF Reach
        <4> QED
          BY <1>1, <1>3, <2>7, <3>3, <4>1 DEF Reach
      <3> QED
        BY <3>2, <3>3
    <2> QED
      BY <2>5, <2>6, <2>7
  <1> QED
    BY <1>2, <1>3

(* A step of request j: the plugins it is not about stay as they are, and  *)
(* nothing else works on those it is about.                                *)
LEMMA ReachStep ==
  ASSUME TypeInv, TypeInv', PluginInv, PluginInv', ReachInv, NEW j \in Requests, Others(j), tainted \subseteq tainted',
         NEW old, old = jobs[j], NEW new, new = jobs'[j],
         users' = users \/ \A p \in Plugins : Concerns(new, p),
         \A p \in Plugins \ (tainted' \cup missed') :
           ~Concerns(old, p) /\ ~Concerns(new, p) => p \notin missed /\ Calm(p),
         \A p \in Plugins \ (tainted' \cup missed') :
           (Concerns(old, p) \/ Concerns(new, p)) /\ (p \notin missed => Reach(old, p)) => (Reach(new, p))'
  PROVE  ReachInv'
  <1>1. DOMAIN jobs' = Requests \cup {Boot} /\ DOMAIN jobs = Requests \cup {Boot}
    BY Domain DEF TypeInv, JobsOK
  <1>2. ASSUME NEW p \in Plugins \ (tainted' \cup missed')
        PROVE  p \in Plugins \ tainted /\ ~Overlapping(jobs, p) /\ ~(Overlapping(jobs, p))'
    BY DEF PluginInv, Alone
  <1>3. ASSUME NEW p \in Plugins \ (tainted' \cup missed'), Concerns(old, p) \/ Concerns(new, p)
        PROVE  (Reach(new, p))'
    <2>1. ASSUME p \notin missed PROVE Reach(old, p)
      <3>1. p \in Plugins \ (tainted \cup missed)
        BY <1>2, <2>1
      <3>2. CASE Concerns(old, p)
        BY <3>1, <3>2 DEF ReachInv
      <3>3. CASE ~Concerns(old, p)
        <4>1. ASSUME NEW k \in Requests \cup {Boot}, Concerns(jobs[k], p) PROVE FALSE
          <5>1. k # j /\ jobs'[k] = jobs[k]
            BY <3>3, <4>1 DEF Others
          <5> QED
            BY <1>1, <1>2, <1>3, <3>3, <4>1, <5>1 DEF Overlapping
        <4>2. ~Busy(p)
          BY <1>1, <4>1 DEF Busy
        <4>3. Served(p)
          BY <3>1, <4>2 DEF ReachInv
        <4> QED
          BY <3>3, <4>3 DEF Reach
      <3> QED
        BY <3>2, <3>3
    <2> QED
      BY <1>3, <2>1
  <1>4. ASSUME NEW p \in Plugins \ (tainted' \cup missed'), ~(Busy(p))' PROVE (Served(p))'
    <2>1. ~Concerns(new, p) /\ \A k \in Requests \cup {Boot} : ~Concerns(jobs'[k], p)
      BY <1>1, <1>4 DEF Busy
    <2>2. CASE Concerns(old, p)
      BY <1>3, <2>1, <2>2 DEF Reach
    <2>3. CASE ~Concerns(old, p)
      <3>1. p \notin missed /\ Calm(p) /\ users' = users
        BY <2>1, <2>3
      <3>2. ~Busy(p)
        BY <1>1, <2>1, <2>3 DEF Busy, Others
      <3>3. Served(p)
        BY <1>2, <3>1, <3>2 DEF ReachInv
      <3> QED
        BY <3>1, <3>3, ServedKept
    <2> QED
      BY <2>2, <2>3
  <1>5. ASSUME NEW p \in Plugins \ (tainted' \cup missed'), NEW k \in Requests \cup {Boot}, Concerns(jobs'[k], p)
        PROVE  (Reach(jobs[k], p))'
    <2>1. CASE k = j
      BY <1>3, <1>5, <2>1
    <2>2. CASE k # j
      <3>1. jobs'[k] = jobs[k]
        BY <2>2 DEF Others
      <3>2. ~Concerns(new, p) /\ ~Concerns(old, p)
        BY <1>1, <1>2, <1>5, <2>2, <3>1 DEF Overlapping
      <3>3. p \notin missed /\ Calm(p) /\ users' = users
        BY <3>2
      <3>4. PICK job : job = jobs[k]
        OBVIOUS
      <3>5. Reach(job, p) /\ job = jobs'[k]
        BY <1>2, <1>5, <3>1, <3>3, <3>4 DEF ReachInv
      <3>6. (Reach(job, p))'
        BY <3>3, <3>4, <3>5, ReachKept
      <3> QED
        BY <3>5, <3>6
    <2> QED
      BY <2>1, <2>2
  <1> QED
    BY <1>4, <1>5 DEF ReachInv

(* A job that does not read or write rows has every user served.           *)
Plain(job) == job = None \/ (job # None /\ job.op \notin {"boot", "signup"} /\ job.pc \notin Loads)

LEMMA PlainReach ==
  ASSUME NEW job, Plain(job), NEW p
  PROVE  /\ Reach(job, p) <=> Served(p)
         /\ (Reach(job, p))' <=> (Served(p))'
  BY DEF Plain, Reach, Concerns

LEMMA PlainStep ==
  ASSUME TypeInv, TypeInv', PluginInv, PluginInv', ReachInv, NEW j \in Requests, Others(j), tainted \subseteq tainted',
         NEW old, old = jobs[j], NEW new, new = jobs'[j], Plain(old), Plain(new), users' = users, missed' = missed,
         \A p \in Plugins \ tainted' : Calm(p) \/ (loaded'[p] = None /\ (Concerns(old, p) \/ Concerns(new, p)))
  PROVE  ReachInv'
  <1>1. ASSUME NEW p \in Plugins \ (tainted' \cup missed'), Reach(old, p) PROVE (Reach(new, p))'
    <2>1. Served(p)
      BY <1>1, PlainReach
    <2>2. (Served(p))'
      BY <2>1, ServedKept, NothingToServe
    <2> QED
      BY <2>2, PlainReach
  <1> QED
    BY <1>1, ReachStep

LEMMA RowsSame ==
  ASSUME NEW p, loaded'[p] = loaded[p], rows' = rows
  PROVE  Calm(p)
  BY DEF Calm, RowsKept

(* The steps of a request that has nothing to do with rows.                *)
LEMMA QuietStep ==
  ASSUME TypeInv, TypeInv', PluginInv, PluginInv', ReachInv, NEW j \in Requests, Others(j), tainted \subseteq tainted',
         Plain(jobs[j]), Plain(jobs'[j]), UNCHANGED <<loaded, users, rows, missed>>
  PROVE  ReachInv'
  <1>1. \A p \in Plugins : Calm(p)
    BY RowsSame
  <1> QED
    BY <1>1, PlainStep

LEMMA ArrivalReach ==
  ASSUME TypeInv, TypeInv', PluginInv, PluginInv', ReachInv, NEW j \in Requests,
         \/ \E p \in Plugins : \/ InstallFromPath(j, p) \/ InstallFromGit(j, p) \/ Update(j, p) \/ Reload(j, p)
                               \/ Uninstall(j, p) \/ ChatUpdate(j, p) \/ ChatUninstall(j, p)
         \/ \E d \in Dirs : ChatInstall(j, d)
  PROVE  ReachInv'
  <1> DEFINE Came == /\ Others(j) /\ jobs[j] = None
                     /\ \E op \in Ops \ {"boot", "signup"}, pc \in Clones \cup Places : \E p, d : Became(j, op, p, d, pc)
                     /\ Taint({}) /\ UNCHANGED <<loaded, users, rows, missed>>
  <1>1. Came
    <2>1. ASSUME NEW p \in Plugins, InstallFromPath(j, p) PROVE Came
      <3>1. Others(j) /\ jobs[j] = None /\ Became(j, "install", p, p, "copy")
        BY <2>1, InstallStep
      <3>2. Taint({}) /\ UNCHANGED <<loaded, users, rows, missed>>
        BY <2>1 DEF InstallFromPath, memory
      <3> QED
        BY <3>1, <3>2 DEF Ops, Clones, Places
    <2>2. ASSUME NEW p \in Plugins, InstallFromGit(j, p) PROVE Came
      <3>1. Others(j) /\ jobs[j] = None /\ \E pc \in {"clone", "clean"} : Became(j, "clone", p, None, pc)
        BY <2>2, GitStep
      <3>2. Taint({}) /\ UNCHANGED <<loaded, users, rows, missed>>
        BY <2>2 DEF InstallFromGit, memory
      <3> QED
        BY <3>1, <3>2 DEF Ops, Clones, Places
    <2>3. ASSUME NEW p \in Plugins, Update(j, p) PROVE Came
      <3>1. Others(j) /\ jobs[j] = None /\ Became(j, "update", p, p, "pull")
        BY <2>3, UpdateStep
      <3>2. Taint({}) /\ UNCHANGED <<loaded, users, rows, missed>>
        BY <2>3 DEF Update, memory
      <3> QED
        BY <3>1, <3>2 DEF Ops, Clones, Places
    <2>4. ASSUME NEW p \in Plugins, Reload(j, p) PROVE Came
      <3>1. Others(j) /\ jobs[j] = None /\ Became(j, "reload", p, p, "unload")
        BY <2>4, ReloadStep
      <3>2. Taint({}) /\ UNCHANGED <<loaded, users, rows, missed>>
        BY <2>4 DEF Reload, memory
      <3> QED
        BY <3>1, <3>2 DEF Ops, Clones, Places
    <2>5. ASSUME NEW p \in Plugins, Uninstall(j, p) PROVE Came
      <3>1. Others(j) /\ jobs[j] = None /\ Became(j, "uninstall", p, p, "unload")
        BY <2>5, UninstallStep
      <3>2. Taint({}) /\ UNCHANGED <<loaded, users, rows, missed>>
        BY <2>5 DEF Uninstall, memory
      <3> QED
        BY <3>1, <3>2 DEF Ops, Clones, Places
    <2>6. ASSUME NEW p \in Plugins, ChatUpdate(j, p) PROVE Came
      <3>1. Others(j) /\ jobs[j] = None /\ \E d : Became(j, "update", p, d, "pull")
        BY <2>6, ChatUpdateStep
      <3>2. Taint({}) /\ UNCHANGED <<loaded, users, rows, missed>>
        BY <2>6 DEF ChatUpdate, memory
      <3> QED
        BY <3>1, <3>2 DEF Ops, Clones, Places
    <2>7. ASSUME NEW p \in Plugins, ChatUninstall(j, p) PROVE Came
      <3>1. Others(j) /\ jobs[j] = None /\ \E d : Became(j, "uninstall", p, d, "unload")
        BY <2>7, ChatUninstallStep
      <3>2. Taint({}) /\ UNCHANGED <<loaded, users, rows, missed>>
        BY <2>7 DEF ChatUninstall, memory
      <3> QED
        BY <3>1, <3>2 DEF Ops, Clones, Places
    <2>8. ASSUME NEW d \in Dirs, ChatInstall(j, d) PROVE Came
      <3>1. Others(j) /\ jobs[j] = None /\ \E p : Became(j, "install", p, d, "load")
        BY <2>8, ChatInstallStep
      <3>2. Taint({}) /\ UNCHANGED <<loaded, users, rows, missed>>
        BY <2>8 DEF ChatInstall, memory
      <3> QED
        BY <3>1, <3>2 DEF Ops, Clones, Places
    <2> QED
      BY <2>1, <2>2, <2>3, <2>4, <2>5, <2>6, <2>7, <2>8
  <1>2. Plain(jobs[j]) /\ Plain(jobs'[j])
    BY <1>1 DEF Plain, Became, Clones, Places, Loads
  <1>3. tainted \subseteq tainted'
    BY <1>1 DEF Taint
  <1> QED
    BY <1>1, <1>2, <1>3, QuietStep

LEMMA PlaceReach ==
  ASSUME TypeInv, TypeInv', PluginInv, PluginInv', ReachInv, NEW j \in Requests,
         \/ \E c \in Contents : Copied(j, c) \/ EndClone(j, c)
         \/ CleanStaging(j) \/ StartClone(j) \/ CloneFails(j) \/ GiveUp(j) \/ Validate(j) \/ Rename(j)
         \/ Pull(j) \/ RemoveFiles(j)
  PROVE  ReachInv'
  <1> DEFINE Moved == /\ Others(j) /\ \E pc \in Clones \cup Places : At(j, pc)
                      /\ Ended(j) \/ \E pc \in Clones \cup Places : \E d : Became(j, jobs[j].op, jobs[j].plugin, d, pc)
                      /\ tainted \subseteq tainted' /\ UNCHANGED <<loaded, users, rows, missed>>
  <1>1. Moved
    <2>1. ASSUME NEW c \in Contents, Copied(j, c) PROVE Moved
      <3>1. Others(j) /\ Goes(j, "load")
        BY <2>1, CopiedStep
      <3>2. At(j, "copy") /\ tainted \subseteq tainted' /\ UNCHANGED <<loaded, users, rows, missed>>
        BY <2>1 DEF Copied, Taint, memory
      <3> QED
        BY <3>1, <3>2 DEF Goes, Clones, Places
    <2>2. ASSUME NEW c \in Contents, EndClone(j, c) PROVE Moved
      <3>1. Others(j) /\ (\E pc \in {"cloned", "failed"} : Goes(j, pc))
        BY <2>2, EndStep
      <3>2. At(j, "cloning") /\ tainted \subseteq tainted' /\ UNCHANGED <<loaded, users, rows, missed>>
        BY <2>2 DEF EndClone, Taint, memory
      <3> QED
        BY <3>1, <3>2 DEF Goes, Clones, Places
    <2>3. CASE CleanStaging(j)
      <3>1. Others(j) /\ Goes(j, "clone")
        BY <2>3, CleanStep
      <3>2. At(j, "clean") /\ tainted \subseteq tainted' /\ UNCHANGED <<loaded, users, rows, missed>>
        BY <2>3 DEF CleanStaging, Taint, memory
      <3> QED
        BY <3>1, <3>2 DEF Goes, Clones, Places
    <2>4. CASE StartClone(j)
      <3>1. Others(j) /\ (\E pc \in {"cloning", "failed"} : Goes(j, pc))
        BY <2>4, StartStep
      <3>2. At(j, "clone") /\ tainted \subseteq tainted' /\ UNCHANGED <<loaded, users, rows, missed>>
        BY <2>4 DEF StartClone, Taint, memory
      <3> QED
        BY <3>1, <3>2 DEF Goes, Clones, Places
    <2>5. CASE CloneFails(j)
      <3>1. Others(j) /\ Goes(j, "failed")
        BY <2>5, CloneFailsStep
      <3>2. At(j, "cloning") /\ tainted \subseteq tainted' /\ UNCHANGED <<loaded, users, rows, missed>>
        BY <2>5 DEF CloneFails, Taint, memory
      <3> QED
        BY <3>1, <3>2 DEF Goes, Clones, Places
    <2>6. CASE GiveUp(j)
      <3>1. Others(j) /\ Ended(j)
        BY <2>6, GiveUpStep
      <3>2. At(j, "failed") /\ tainted \subseteq tainted' /\ UNCHANGED <<loaded, users, rows, missed>>
        BY <2>6 DEF GiveUp, Taint, memory
      <3> QED
        BY <3>1, <3>2 DEF Goes, Clones, Places
    <2>7. CASE Validate(j)
      <3>1. Others(j) /\ (Goes(j, "failed") \/ \E d : Became(j, jobs[j].op, jobs[j].plugin, d, "rename"))
        BY <2>7, ValidateStep
      <3>2. At(j, "cloned") /\ tainted \subseteq tainted' /\ UNCHANGED <<loaded, users, rows, missed>>
        BY <2>7 DEF Validate, Taint, memory
      <3> QED
        BY <3>1, <3>2 DEF Goes, Clones, Places
    <2>8. CASE Rename(j)
      <3>1. Others(j) /\ (Ended(j) \/ Goes(j, "load"))
        BY <2>8, RenameStep
      <3>2. At(j, "rename") /\ tainted \subseteq tainted' /\ UNCHANGED <<loaded, users, rows, missed>>
        BY <2>8 DEF Rename, Taint, memory
      <3> QED
        BY <3>1, <3>2 DEF Goes, Clones, Places
    <2>9. CASE Pull(j)
      <3>1. Others(j) /\ (Ended(j) \/ Goes(j, "unload"))
        BY <2>9, PullStep
      <3>2. At(j, "pull") /\ tainted \subseteq tainted' /\ UNCHANGED <<loaded, users, rows, missed>>
        BY <2>9 DEF Pull, Taint, memory
      <3> QED
        BY <3>1, <3>2 DEF Goes, Clones, Places
    <2>10. CASE RemoveFiles(j)
      <3>1. Others(j) /\ Ended(j)
        BY <2>10, RemoveStep
      <3>2. At(j, "rmtree") /\ tainted \subseteq tainted' /\ UNCHANGED <<loaded, users, rows, missed>>
        BY <2>10 DEF RemoveFiles, Taint, memory
      <3> QED
        BY <3>1, <3>2 DEF Goes, Clones, Places
    <2> QED
      BY <2>1, <2>2, <2>3, <2>4, <2>5, <2>6, <2>7, <2>8, <2>9, <2>10
  <1>2. PICK pc \in Clones \cup Places : At(j, pc)
    BY <1>1
  <1>3. jobs[j] # None /\ jobs[j].pc = pc /\ jobs[j].op \in Ops \ {"signup", "boot"}
    BY <1>2, FlowAt DEF Clones, Places
  <1>4. Plain(jobs[j]) /\ Plain(jobs'[j])
    BY <1>1, <1>3 DEF Plain, Became, Ended, Clones, Places, Loads
  <1> QED
    BY <1>1, <1>4, QuietStep

(* An unload takes a plugin out of the list before it deletes its rows.    *)
LEMMA UnloadReach ==
  ASSUME TypeInv, TypeInv', PluginInv, PluginInv', ReachInv, NEW j \in Requests, Unload(j) \/ Closed(j) \/ DeleteRows(j)
  PROVE  ReachInv'
  <1>1. PICK pc \in Unloads \cup {"unload"} : At(j, pc)
    BY DEF Unload, Closed, DeleteRows, Unloads
  <1>2. PICK old, new : old = jobs[j] /\ new = jobs'[j]
    OBVIOUS
  <1>3. /\ old # None /\ old.pc = pc /\ old.op \in {"update", "reload", "uninstall"} /\ Concerns(old, old.plugin)
        /\ pc = "unload" \/ (old.info # None /\ old.info.plugin = old.plugin)
    BY <1>1, <1>2, UnloadAt
  <1>4. Plain(old)
    BY <1>3 DEF Plain, Unloads, Loads
  <1> DEFINE Q == old.plugin
  <1>5. CASE Unload(j)
    <2>1. /\ Others(j) /\ UNCHANGED <<users, rows>> /\ missed' = missed
          /\ Gone(j) \/ \E to \in Unloads : \E info : Carries(j, to, info)
          /\ \A p \in Plugins \ {Q} : loaded'[p] = loaded[p]
          /\ loaded'[Q] \in {loaded[Q], None}
      BY <1>2, <1>5, UnloadStep DEF Unloads
    <2>2. tainted \subseteq tainted'
      <3>1. Taint({})
        BY <1>5, Zenon DEF Unload
      <3> QED
        BY <3>1 DEF Taint
    <2>3. Plain(new)
      BY <1>2, <1>3, <2>1 DEF Plain, Gone, Became, Carries, Unloads, Loads
    <2>4. \A p \in Plugins : Calm(p) \/ (loaded'[p] = None /\ Concerns(old, p))
      BY <1>3, <2>1, RowsSame
    <2> QED
      BY <1>2, <1>4, <2>1, <2>2, <2>3, <2>4, PlainStep
  <1>6. CASE Closed(j)
    <2>1. /\ Others(j) /\ UNCHANGED <<users, rows>> /\ missed' = missed /\ loaded' = loaded
          /\ Gone(j) \/ \E to \in Unloads : \E info : Carries(j, to, info)
      BY <1>2, <1>6, ClosedStep DEF Unloads
    <2>2. tainted \subseteq tainted'
      <3>1. Taint({})
        BY <1>6, Zenon DEF Closed
      <3> QED
        BY <3>1 DEF Taint
    <2>3. Plain(new)
      BY <1>2, <1>3, <2>1 DEF Plain, Gone, Became, Carries, Unloads, Loads
    <2> QED
      BY <1>2, <1>4, <2>1, <2>2, <2>3, QuietStep
  <1>7. CASE DeleteRows(j)
    <2>1. /\ Others(j) /\ Gone(j) /\ At(j, "delete") /\ UNCHANGED memory /\ users' = users /\ missed' = missed
          /\ \A u \in Users, n \in AgentNames : rows'[u][n] = rows[u][n] \/ n[1] = Q
      BY <1>2, <1>7, DeleteStep
    <2>2. tainted \subseteq tainted' /\ old.pc = "delete" /\ loaded' = loaded
      BY <1>2, <1>7, <2>1 DEF DeleteRows, Taint, At, memory
    <2>3. Plain(new)
      BY <1>2, <1>3, <2>1 DEF Plain, Gone, Became, Loads
    <2>4. ASSUME NEW p \in Plugins \ tainted' PROVE Calm(p) \/ (loaded'[p] = None /\ Concerns(old, p))
      <3>1. CASE p # Q
        BY <2>1, <2>2, <3>1 DEF Calm, RowsKept
      <3>2. CASE p = Q
        <4>1. Stage(old, p)
          BY <1>2, <1>3, <2>2, <3>2 DEF PluginInv, StagesOK
        <4>2. Now(old, p)
          BY <1>3, <3>2, <4>1 DEF Now
        <4>3. UnloadStage(old, p)
          <5>1. old.pc \in Unloads /\ old.op \notin {"boot", "signup"} /\ old.info # None /\ p = old.info.plugin
            BY <1>3, <2>2, <3>2 DEF Unloads
          <5> QED
            BY <1>3, <4>2, <5>1, UnloadStageNow
        <4> QED
          BY <1>3, <2>2, <3>2, <4>3 DEF UnloadStage
      <3> QED
        BY <3>1, <3>2
    <2> QED
      BY <1>2, <1>4, <2>1, <2>2, <2>3, <2>4, PlainStep
  <1> QED
    BY <1>5, <1>6, <1>7

(* A load serves the users of the plugin that it carries.                  *)
Carrying(job) == job # None /\ job.op \notin {"boot", "signup"} /\ job.pc \in Loads /\ job.info # None

LEMMA CarryingReach ==
  ASSUME NEW job, Carrying(job), NEW p
  PROVE  /\ p = job.info.plugin =>
              /\ Concerns(job, p) /\ (Reach(job, p) <=> LoadReach(job, p))
              /\ (Reach(job, p))' <=> (LoadReach(job, p))'
         /\ p # job.info.plugin =>
              /\ Reach(job, p) <=> Served(p)
              /\ (Reach(job, p))' <=> (Served(p))'
  BY DEF Carrying, Reach, Concerns

LEMMA StoppedReach ==
  ASSUME TypeInv, TypeInv', PluginInv, PluginInv', ReachInv, NEW j \in Requests, UnloadFails(j) \/ Stopped(j)
  PROVE  ReachInv'
  <1>1. PICK old, new : old = jobs[j] /\ new = jobs'[j]
    OBVIOUS
  <1>2. /\ Others(j) /\ new = None
        /\ old # None /\ old.op \notin {"boot", "signup"} /\ old.pc \in Loads \cup Unloads
        /\ loaded' = loaded /\ users' = users /\ missed' = missed
    BY <1>1, StoppedStep DEF Ended, memory
  <1>3. PICK info \in Infos :
          /\ info = old.info /\ info.plugin \in Plugins /\ Taint({info.plugin})
          /\ \A u \in Users, n \in AgentNames :
               \/ rows'[u][n] = rows[u][n]
               \/ rows'[u][n] = None /\ n[1] = info.plugin /\ ~Owned(rows[u][n])
    BY <1>1, StoppedStep
  <1>4. tainted \subseteq tainted' /\ info.plugin \in tainted'
    BY <1>3 DEF Taint
  <1>5. ASSUME NEW p \in Plugins \ tainted' PROVE Calm(p) /\ p # old.info.plugin
    BY <1>2, <1>3, <1>4 DEF Calm, RowsKept
  <1>6. ASSUME NEW p \in Plugins \ (tainted' \cup missed'), p \notin missed => Reach(old, p)
        PROVE  (Reach(new, p))'
    <2>1. Reach(old, p) /\ p # old.info.plugin /\ Calm(p)
      BY <1>2, <1>5, <1>6
    <2>2. Served(p)
      BY <1>2, <2>1 DEF Reach
    <2>3. (Served(p))'
      BY <1>2, <2>1, <2>2, ServedKept
    <2> QED
      BY <1>2, <2>3 DEF Reach, Concerns
  <1> QED
    BY <1>1, <1>2, <1>4, <1>5, <1>6, ReachStep

LEMMA LoadReachStep ==
  ASSUME TypeInv, TypeInv', PluginInv, PluginInv', ReachInv, NEW j \in Requests, Others(j), tainted \subseteq tainted',
         users' = users, NEW q \in Plugins, missed \ {q} \subseteq missed',
         \A p \in Plugins \ {q} : Calm(p),
         NEW old, old = jobs[j], NEW new, new = jobs'[j],
         Plain(old) \/ (Carrying(old) /\ old.info.plugin = q),
         Plain(new) \/ (Carrying(new) /\ new.info.plugin = q),
         q \in tainted' \cup missed' \/
           /\ Concerns(old, q) \/ Concerns(new, q)
           /\ (q \notin missed => Reach(old, q)) => (Reach(new, q))'
  PROVE  ReachInv'
  <1>1. ASSUME NEW p \in Plugins \ {q}, p \notin missed', p \notin missed => Reach(old, p) PROVE (Reach(new, p))'
    <2>1. Served(p)
      BY <1>1, PlainReach, CarryingReach
    <2>2. (Served(p))'
      BY <2>1, <1>1, ServedKept
    <2> QED
      BY <1>1, <2>2, PlainReach, CarryingReach
  <1>2. ASSUME NEW p \in Plugins \ (tainted' \cup missed'), ~Concerns(old, p), ~Concerns(new, p)
        PROVE  p \notin missed /\ Calm(p)
    BY <1>2
  <1>3. ASSUME NEW p \in Plugins \ (tainted' \cup missed'), Concerns(old, p) \/ Concerns(new, p),
               p \notin missed => Reach(old, p)
        PROVE  (Reach(new, p))'
    BY <1>1, <1>3
  <1> QED
    BY <1>2, <1>3, ReachStep

LEMMA CarriesOn ==
  ASSUME NEW j, jobs[j].op \notin {"boot", "signup"}, NEW pc \in Loads, NEW info \in Infos, Carries(j, pc, info)
  PROVE  Carrying(jobs'[j]) /\ jobs'[j].info = info /\ jobs'[j].pc = pc
  BY InfoFacts DEF Carrying, Carries

(* The commands and skills of a plugin are registered.                     *)
LEMMA RegisterReach ==
  ASSUME TypeInv, TypeInv', PluginInv, PluginInv', ReachInv, NEW j \in Requests, Others(j), tainted \subseteq tainted',
         UNCHANGED <<users, rows>>, NEW info \in Infos, missed \ {info.plugin} \subseteq missed',
         jobs[j].op \notin {"boot", "signup"},
         Plain(jobs[j]) \/ (Carrying(jobs[j]) /\ jobs[j].info = info),
         info.plugin \in tainted' \/ Concerns(jobs[j], info.plugin),
         \/ \E pc \in {"connect", "connecting", "users"} : Carries(j, pc, info) /\ UNCHANGED loaded
         \/ /\ info.agents = {} /\ Ended(j) /\ loaded'[info.plugin] = info
            /\ \A p \in Plugins \ {info.plugin} : loaded'[p] = loaded[p]
  PROVE  ReachInv'
  <1>1. PICK q \in Plugins : q = info.plugin
    BY InfoFacts
  <1>2. \A p \in Plugins \ {q} : Calm(p)
    BY <1>1, RowsSame
  <1>3. CASE \E pc \in {"connect", "connecting", "users"} : Carries(j, pc, info) /\ UNCHANGED loaded
    <2>1. PICK pc \in {"connect", "connecting", "users"} : Carries(j, pc, info)
      BY <1>3
    <2>2. Carrying(jobs'[j]) /\ jobs'[j].info = info /\ jobs'[j].pc = pc
      BY <2>1, CarriesOn DEF Loads
    <2>3. PICK new : new = jobs'[j]
      OBVIOUS
    <2>4. Carrying(new) /\ new.info.plugin = q /\ new.pc \notin {"sync", "commit"}
      BY <1>1, <2>2, <2>3
    <2>5. (LoadReach(new, q))'
      BY <2>4 DEF LoadReach
    <2>6. (Reach(new, q))' /\ Concerns(new, q)
      BY <2>4, <2>5, CarryingReach
    <2> QED
      BY <1>1, <1>2, <2>3, <2>4, <2>6, LoadReachStep
  <1>4. CASE /\ info.agents = {} /\ Ended(j) /\ loaded'[info.plugin] = info
             /\ \A p \in Plugins \ {info.plugin} : loaded'[p] = loaded[p]
    <2>1. jobs'[j] = None
      BY <1>4 DEF Ended
    <2>2. (Served(q))'
      BY <1>1, <1>4 DEF Served, AgentsOf, Has
    <2>3. Plain(None) /\ (Reach(None, q))'
      BY <2>2, PlainReach DEF Plain
    <2> QED
      BY <1>1, <1>2, <2>1, <2>3, LoadReachStep
  <1> QED
    BY <1>3, <1>4

LEMMA LoadReachInv ==
  ASSUME TypeInv, TypeInv', PluginInv, PluginInv', ReachInv, NEW j \in Requests, Load(j)
  PROVE  ReachInv'
  <1>1. At(j, "load")
    BY DEF Load
  <1>2. PICK old, d : old = jobs[j] /\ d = old.dir
    OBVIOUS
  <1>3. /\ old # None /\ old.pc = "load" /\ old.op \in Ops \ {"signup", "boot"}
        /\ \A p \in Plugins \ tainted : Home(p, d) => Concerns(old, p)
    BY <1>1, <1>2, PlaceAt DEF Places
  <1>4. Plain(old)
    BY <1>3 DEF Plain, Loads
  <1>5. /\ Others(j) /\ d \in Dirs /\ UNCHANGED <<users, rows>>
        /\ \/ Ended(j) /\ UNCHANGED loaded /\ UNCHANGED missed /\ Taint({})
           \/ \E info \in Infos :
                /\ disk[d] \in Contents /\ info = PluginInfo(disk[d], d)
                /\ missed' = missed \ {info.plugin} /\ Taint(Replaced(info))
                /\ \/ Carries(j, "connect", info) /\ UNCHANGED loaded
                   \/ info.agents # {} /\ Carries(j, "users", info) /\ UNCHANGED loaded
                   \/ info.agents = {} /\ Ended(j) /\ loaded'[info.plugin] = info
                         /\ \A p \in Plugins \ {info.plugin} : loaded'[p] = loaded[p]
    BY <1>2, LoadStep
  <1>6. tainted \subseteq tainted'
    BY <1>5 DEF Taint
  <1>7. CASE Ended(j) /\ UNCHANGED loaded /\ UNCHANGED missed
    <2>1. Plain(jobs'[j])
      BY <1>7 DEF Plain, Ended
    <2> QED
      BY <1>2, <1>4, <1>5, <1>6, <1>7, <2>1, QuietStep
  <1>8. ASSUME NEW info \in Infos, disk[d] \in Contents, info = PluginInfo(disk[d], d), missed' = missed \ {info.plugin},
               \/ Carries(j, "connect", info) /\ UNCHANGED loaded
               \/ info.agents # {} /\ Carries(j, "users", info) /\ UNCHANGED loaded
               \/ info.agents = {} /\ Ended(j) /\ loaded'[info.plugin] = info
                     /\ \A p \in Plugins \ {info.plugin} : loaded'[p] = loaded[p]
        PROVE  ReachInv'
    <2>1. info.plugin \in Plugins /\ Proper(info.plugin, d)
      BY <1>5, <1>8, LoadedFrom
    <2>2. info.plugin \in tainted' \/ Concerns(old, info.plugin)
      BY <1>3, <1>6, <2>1, HomeProper
    <2>3. \/ \E pc \in {"connect", "connecting", "users"} : Carries(j, pc, info) /\ UNCHANGED loaded
          \/ /\ info.agents = {} /\ Ended(j) /\ loaded'[info.plugin] = info
             /\ \A p \in Plugins \ {info.plugin} : loaded'[p] = loaded[p]
      BY <1>8
    <2> QED
      BY <1>2, <1>3, <1>4, <1>5, <1>6, <1>8, <2>2, <2>3, RegisterReach
  <1> QED
    BY <1>5, <1>7, <1>8

(* The job of a request that loads a plugin.                               *)
LEMMA CarryingAt ==
  ASSUME TypeInv, NEW j \in Requests, NEW pc \in Loads, At(j, pc), jobs[j].op # "signup"
  PROVE  /\ Carrying(jobs[j]) /\ jobs[j].info \in Infos /\ jobs[j].info.plugin \in Plugins /\ jobs[j].pc = pc
         /\ jobs[j].op \notin {"boot", "signup"} /\ FlowOK(jobs[j])
  <1>1. jobs[j] # None /\ jobs[j].pc = pc /\ Fits(jobs[j])
    BY AtFits
  <1>2. FlowOK(jobs[j]) /\ jobs[j].op # "boot"
    BY <1>1 DEF Fits
  <1> QED
    BY <1>1, <1>2, InfoFacts DEF FlowOK, Carrying

LEMMA ConnectReach ==
  ASSUME TypeInv, TypeInv', PluginInv, PluginInv', ReachInv, NEW j \in Requests,
         Connected(j) \/ \E s \in Servers : Connect(j, s)
  PROVE  ReachInv'
  <1>1. PICK pc \in {"connect", "connecting"} : At(j, pc)
    BY Zenon DEF Connected, Connect
  <1>2. Carrying(jobs[j]) /\ jobs[j].info \in Infos /\ jobs[j].op \notin {"boot", "signup"}
    <2>1. pc \in Loads /\ jobs[j].op # "signup"
      BY <1>1, FlowAt DEF Loads
    <2> QED
      BY <1>1, <2>1, CarryingAt
  <1>3. PICK info \in Infos : info = jobs[j].info
    BY <1>2
  <1>4. Concerns(jobs[j], info.plugin)
    BY <1>2, <1>3, CarryingReach
  <1>5. tainted \subseteq tainted'
    <2>1. Taint({})
      BY Zenon DEF Connected, Connect
    <2> QED
      BY <2>1 DEF Taint
  <1>6. /\ Others(j) /\ UNCHANGED <<users, rows>> /\ missed' = missed
        /\ \/ \E to \in {"connect", "connecting", "users"} : Carries(j, to, info) /\ UNCHANGED loaded
           \/ /\ info.agents = {} /\ Ended(j) /\ loaded'[info.plugin] = info
              /\ \A p \in Plugins \ {info.plugin} : loaded'[p] = loaded[p]
    <2>1. CASE Connected(j)
      BY <1>3, <2>1, ConnectedStep
    <2>2. CASE \E s \in Servers : Connect(j, s)
      BY <1>3, <2>2, ConnectStep
    <2> QED
      BY <2>1, <2>2
  <1> QED
    BY <1>2, <1>3, <1>4, <1>5, <1>6, RegisterReach

(* The job of a load at a given step, as the lemmas below need it.         *)
LEMMA LoaderAt ==
  ASSUME TypeInv, NEW j \in Requests, NEW pc \in Loads, At(j, pc), jobs[j].op # "signup",
         NEW old, old = jobs[j], NEW q, q = old.info.plugin
  PROVE  /\ Carrying(old) /\ old.info \in Infos /\ q \in Plugins /\ old.pc = pc
         /\ old.op \notin {"boot", "signup"} /\ FlowOK(old) /\ Concerns(old, q)
         /\ Reach(old, q) <=> LoadReach(old, q)
  <1>1. /\ Carrying(old) /\ old.info \in Infos /\ q \in Plugins /\ old.pc = pc
        /\ old.op \notin {"boot", "signup"} /\ FlowOK(old)
    BY CarryingAt
  <1> QED
    BY <1>1, CarryingReach

LEMMA LoadFailsReach ==
  ASSUME TypeInv, TypeInv', PluginInv, PluginInv', ReachInv, NEW j \in Requests, LoadFails(j)
  PROVE  ReachInv'
  <1>1. PICK old, q : old = jobs[j] /\ q = old.info.plugin
    OBVIOUS
  <1>2. /\ Others(j) /\ Ended(j) /\ Taint({q}) /\ UNCHANGED memory /\ UNCHANGED <<users, rows>> /\ UNCHANGED missed
    BY <1>1, LoadFailsStep
  <1>3. At(j, "users") /\ "users" \in Loads
    BY DEF LoadFails, Loads
  <1>4. jobs[j].op # "signup"
    BY <1>3, FlowAt DEF Loads
  <1>5. Carrying(old) /\ q \in Plugins
    BY <1>1, <1>3, <1>4, LoaderAt
  <1>6. tainted \subseteq tainted' /\ q \in tainted'
    BY <1>2 DEF Taint
  <1>7. \A p \in Plugins : Calm(p)
    BY <1>2, RowsSame DEF memory
  <1>8. Plain(jobs'[j])
    BY <1>2 DEF Plain, Ended
  <1> QED
    BY <1>1, <1>2, <1>5, <1>6, <1>7, <1>8, LoadReachStep

(* The users there are then are those that are served.                     *)
LEMMA SelectReach ==
  ASSUME TypeInv, TypeInv', PluginInv, PluginInv', ReachInv, NEW j \in Requests, SelectUsers(j)
  PROVE  ReachInv'
  <1>1. PICK old, q, info : old = jobs[j] /\ info = old.info /\ q = old.info.plugin
    OBVIOUS
  <1>2. /\ Others(j) /\ Carries(j, "sync", info) /\ jobs'[j].todo = users
        /\ UNCHANGED memory /\ UNCHANGED <<users, rows>> /\ UNCHANGED missed
    BY <1>1, SelectStep
  <1>3. At(j, "users") /\ "users" \in Loads /\ Taint({})
    BY DEF SelectUsers, Loads
  <1>4. jobs[j].op # "signup"
    BY <1>3, FlowAt DEF Loads
  <1>5. Carrying(old) /\ info \in Infos /\ q \in Plugins /\ old.op \notin {"boot", "signup"} /\ Concerns(old, q)
    BY <1>1, <1>3, <1>4, LoaderAt
  <1>6. tainted \subseteq tainted'
    BY <1>3 DEF Taint
  <1>7. \A p \in Plugins : Calm(p)
    BY <1>2, RowsSame DEF memory
  <1>8. PICK new : new = jobs'[j]
    OBVIOUS
  <1>9. Carrying(new) /\ new.info = info /\ new.pc = "sync"
    BY <1>1, <1>2, <1>5, <1>8, CarriesOn DEF Loads
  <1>10. (Has(q, new.info.agents, {}))'
    BY DEF Has
  <1>11. users' \ (Left(new))' = {}
    BY <1>2, <1>8, <1>9 DEF Left
  <1>12. (LoadReach(new, q))'
    BY <1>9, <1>10, <1>11 DEF LoadReach
  <1>13. (Reach(new, q))'
    BY <1>1, <1>9, <1>12, CarryingReach
  <1> QED
    BY <1>1, <1>2, <1>5, <1>6, <1>7, <1>8, <1>9, <1>13, LoadReachStep

(* The next user of a load.                                                *)
LEMMA ReadReach ==
  ASSUME TypeInv, TypeInv', PluginInv, PluginInv', ReachInv, NEW j \in Requests, NEW u \in Users, SyncRead(j, u)
  PROVE  ReachInv'
  <1>1. PICK old, q, info : old = jobs[j] /\ info = old.info /\ q = old.info.plugin
    OBVIOUS
  <1>2. /\ Others(j) /\ Carries(j, "commit", info) /\ old.op # "signup"
        /\ u \in old.todo /\ jobs'[j].todo = old.todo \ {u} /\ jobs'[j].user = u /\ jobs'[j].seen = rows[u]
        /\ UNCHANGED memory /\ UNCHANGED <<users, rows>> /\ UNCHANGED missed
    BY <1>1, ReadStep
  <1>3. At(j, "sync") /\ "sync" \in Loads /\ Taint({})
    BY DEF SyncRead, Loads
  <1>4. /\ Carrying(old) /\ info \in Infos /\ q \in Plugins /\ old.op \notin {"boot", "signup"} /\ old.pc = "sync"
        /\ Concerns(old, q) /\ (Reach(old, q) <=> LoadReach(old, q))
    BY <1>1, <1>2, <1>3, LoaderAt
  <1>5. tainted \subseteq tainted'
    BY <1>3 DEF Taint
  <1>6. \A p \in Plugins : Calm(p)
    BY <1>2, RowsSame DEF memory
  <1>7. PICK new : new = jobs'[j]
    OBVIOUS
  <1>8. Carrying(new) /\ new.info = info /\ new.pc = "commit"
    BY <1>1, <1>2, <1>4, <1>7, CarriesOn DEF Loads
  <1>9. ASSUME LoadReach(old, q) PROVE (LoadReach(new, q))'
    <2>1. PICK V : V = users \ Left(old)
      OBVIOUS
    <2>2. users' \ (Left(new))' = V
      BY <1>2, <1>4, <1>7, <1>8, <2>1 DEF Left
    <2>3. Has(q, info.agents, V)
      BY <1>1, <1>4, <1>9, <2>1 DEF LoadReach
    <2>4. (Has(q, info.agents, V))'
      BY <1>2, <2>3 DEF Has
    <2>5. (SeenStays(new))'
      BY <1>2, <1>7, <1>8 DEF SeenStays
    <2> QED
      BY <1>8, <2>2, <2>4, <2>5 DEF LoadReach
  <1>10. (q \notin missed => Reach(old, q)) => q \in tainted' \cup missed' \/ (Reach(new, q))'
    BY <1>1, <1>2, <1>4, <1>7, <1>8, <1>9, CarryingReach
  <1>11. q \in tainted' \cup missed' \/
           /\ Concerns(old, q) \/ Concerns(new, q)
           /\ (q \notin missed => Reach(old, q)) => (Reach(new, q))'
    BY <1>4, <1>10
  <1> QED
    BY <1>1, <1>2, <1>4, <1>5, <1>6, <1>7, <1>8, <1>11, LoadReachStep

LEMMA LoadedReach ==
  ASSUME TypeInv, TypeInv', PluginInv, PluginInv', ReachInv, NEW j \in Requests, Loaded(j)
  PROVE  ReachInv'
  <1>1. PICK old, q, info : old = jobs[j] /\ info = old.info /\ q = old.info.plugin
    OBVIOUS
  <1>2. /\ Others(j) /\ Ended(j) /\ UNCHANGED <<users, rows>> /\ UNCHANGED missed
        /\ loaded'[q] = info /\ \A p \in Plugins \ {q} : loaded'[p] = loaded[p]
    BY <1>1, LoadedStep
  <1>3. At(j, "sync") /\ "sync" \in Loads /\ Taint({}) /\ old.op # "signup" /\ old.todo = {}
    BY <1>1 DEF Loaded, Loads
  <1>4. /\ Carrying(old) /\ info \in Infos /\ q \in Plugins /\ old.op \notin {"boot", "signup"} /\ old.pc = "sync"
        /\ Concerns(old, q) /\ (Reach(old, q) <=> LoadReach(old, q))
    BY <1>1, <1>3, LoaderAt
  <1>5. tainted \subseteq tainted'
    BY <1>3 DEF Taint
  <1>6. \A p \in Plugins \ {q} : Calm(p)
    BY <1>2, RowsSame
  <1>7. jobs'[j] = None /\ Plain(None)
    BY <1>2 DEF Ended, Plain
  <1>8. ASSUME LoadReach(old, q) PROVE (Served(q))'
    <2>1. users \ Left(old) = users
      BY <1>3, <1>4 DEF Left
    <2>2. Has(q, info.agents, users)
      BY <1>1, <1>4, <1>8, <2>1 DEF LoadReach
    <2>3. (Has(q, info.agents, users))'
      BY <1>2, <2>2 DEF Has
    <2>4. (AgentsOf(loaded[q]))' = info.agents
      BY <1>2, <1>4, InfoFacts DEF AgentsOf
    <2> QED
      BY <2>3, <2>4 DEF Served
  <1>9. q \in tainted' \cup missed' \/ ((q \notin missed => Reach(old, q)) => (Reach(None, q))')
    BY <1>2, <1>4, <1>7, <1>8, PlainReach
  <1>10. q \in tainted' \cup missed' \/
           /\ Concerns(old, q) \/ Concerns(None, q)
           /\ (q \notin missed => Reach(old, q)) => (Reach(None, q))'
    BY <1>4, <1>9
  <1> QED
    BY <1>1, <1>2, <1>4, <1>5, <1>6, <1>7, <1>10, LoadReachStep

(* A transaction adds rows of its user, and takes none away.               *)
LEMMA CommitCalm ==
  ASSUME TypeInv, NEW j \in Requests, SyncCommit(j), NEW old, old = jobs[j]
  PROVE  /\ \A p : Calm(p)
         /\ SeenStays(old) => (Has(old.info.plugin, old.info.agents, {old.user}))'
  <1>1. PICK u, info, seen : u \in Users /\ u = jobs[j].user /\ info = jobs[j].info /\ seen = jobs[j].seen
    BY CommitStep
  <1>2. /\ loaded' = loaded
        /\ \A v \in Users, n \in AgentNames : rows'[v][n] # rows[v][n] => v = u /\ n \in Namespaced(info)
        /\ \A n \in AgentNames \cap Namespaced(info) : rows'[u][n] = None => seen[n] # None /\ rows[u][n] = None
    BY <1>1, CommitStep DEF memory
  <1>3. ASSUME NEW p PROVE RowsKept(p)
    <2>1. ASSUME NEW v \in Users, NEW n \in AgentNames, rows[v][n] # None, rows'[v][n] = None PROVE FALSE
      <3>1. v = u /\ n \in Namespaced(info)
        BY <1>2, <2>1
      <3>2. rows[u][n] = None
        BY <1>2, <2>1, <3>1
      <3> QED
        BY <2>1, <3>1, <3>2
    <2> QED
      BY <2>1 DEF RowsKept
  <1>4. ASSUME SeenStays(old), NEW n \in AgentNames, n[1] = info.plugin, n[2] \in info.agents, rows'[u][n] = None
        PROVE  FALSE
    <2>1. n = <<info.plugin, n[2]>>
      BY <1>4, NameFacts
    <2>2. n \in AgentNames \cap Namespaced(info)
      BY <1>4, <2>1 DEF Namespaced
    <2>3. seen[n] # None /\ rows[u][n] = None
      BY <1>2, <1>4, <2>2
    <2>4. seen[n] # None => rows[u][n] # None
      BY <1>1, <1>4, <2>2 DEF SeenStays
    <2> QED
      BY <2>3, <2>4
  <1>5. SeenStays(old) => (Has(info.plugin, info.agents, {u}))'
    BY <1>4 DEF Has
  <1> QED
    BY <1>1, <1>2, <1>3, <1>5 DEF Calm

(* A signup works on every plugin.                                         *)
LEMMA SignupConcerns ==
  ASSUME NEW job, job # None, job.op = "signup", NEW p
  PROVE  /\ Concerns(job, p) /\ (Reach(job, p) <=> SignupReach(job, p))
         /\ (Reach(job, p))' <=> (SignupReach(job, p))'
  BY DEF Concerns, Reach

LEMMA BothServed ==
  ASSUME NEW p, NEW A, NEW U, NEW u, Has(p, A, U \ {u}), Has(p, A, {u})
  PROVE  Has(p, A, U)
  BY DEF Has

LEMMA SignupReachStep ==
  ASSUME TypeInv, TypeInv', PluginInv, PluginInv', ReachInv, NEW j \in Requests, Others(j), tainted \subseteq tainted',
         missed \subseteq missed', users' = users,
         NEW old, old = jobs[j], old # None, old.op = "signup",
         NEW new, new = jobs'[j], new # None => new.op = "signup",
         \A p \in Plugins \ (tainted' \cup missed') :
           SignupReach(old, p) => IF new = None THEN (Served(p))' ELSE (SignupReach(new, p))'
  PROVE  ReachInv'
  <1>1. \A p : Concerns(old, p)
    BY SignupConcerns
  <1>2. ASSUME NEW p \in Plugins \ (tainted' \cup missed'), p \notin missed => Reach(old, p)
        PROVE  (Reach(new, p))'
    <2>1. SignupReach(old, p)
      BY <1>2, SignupConcerns
    <2>2. IF new = None THEN (Served(p))' ELSE (SignupReach(new, p))'
      BY <1>2, <2>1
    <2>3. CASE new = None
      <3>1. (Reach(None, p))' <=> (Served(p))'
        BY PlainReach DEF Plain
      <3> QED
        BY <2>2, <2>3, <3>1
    <2>4. CASE new # None
      BY <2>2, <2>4, SignupConcerns
    <2> QED
      BY <2>3, <2>4
  <1> QED
    BY <1>1, <1>2, ReachStep

LEMMA CommitReach ==
  ASSUME TypeInv, TypeInv', PluginInv, PluginInv', ReachInv, NEW j \in Requests, SyncCommit(j)
  PROVE  ReachInv'
  <1>1. PICK old, new, q, info, u : old = jobs[j] /\ new = jobs'[j] /\ info = old.info /\ q = info.plugin /\ u = old.user
    OBVIOUS
  <1>2. /\ Others(j) /\ Resumes(j) /\ At(j, "commit") /\ info \in Carried /\ u \in Users
        /\ loaded' = loaded /\ users' = users /\ missed' = missed
        /\ old.op = "signup" => new.user = u
    BY <1>1, CommitStep DEF memory
  <1>3. (\A p : Calm(p)) /\ (SeenStays(old) => (Has(q, info.agents, {u}))')
    BY <1>1, CommitCalm
  <1>4. tainted \subseteq tainted'
    BY DEF SyncCommit, Taint
  <1>5. old # None /\ old.pc = "commit" /\ new # None /\ new.info = info /\ new.op = old.op /\ new.todo = old.todo
        /\ new.pc = IF old.op = "signup" THEN "seed" ELSE "sync"
    BY <1>1, <1>2 DEF At, Resumes, Carries
  <1>6. CASE old.op # "signup"
    <2>1. /\ Carrying(old) /\ info \in Infos /\ q \in Plugins /\ old.op \notin {"boot", "signup"}
          /\ Concerns(old, q) /\ (Reach(old, q) <=> LoadReach(old, q))
      BY <1>1, <1>2, <1>6, LoaderAt DEF Loads
    <2>2. Carrying(new) /\ new.pc = "sync"
      BY <1>5, <1>6, <2>1, InfoFacts DEF Carrying, Loads
    <2>3. ASSUME LoadReach(old, q) PROVE (LoadReach(new, q))'
      <3>1. PICK U, A : U = users /\ A = info.agents
        OBVIOUS
      <3>2. Has(q, A, U \ (old.todo \cup {u})) /\ SeenStays(old)
        BY <1>1, <1>5, <2>3, <3>1 DEF LoadReach, Left
      <3>3. U \subseteq Users
        BY <3>1 DEF TypeInv, RowsOK
      <3>4. (Has(q, A, U \ (old.todo \cup {u})))'
        BY <1>3, <3>2, <3>3, HasKept DEF Calm
      <3>5. (Has(q, A, {u}))'
        BY <1>3, <3>1, <3>2
      <3>6. (Has(q, A, U \ old.todo))'
        BY <3>4, <3>5 DEF Has
      <3> QED
        BY <1>2, <1>5, <2>2, <3>1, <3>6 DEF LoadReach, Left
    <2>4. q \in tainted' \cup missed' \/
            /\ Concerns(old, q) \/ Concerns(new, q)
            /\ (q \notin missed => Reach(old, q)) => (Reach(new, q))'
      BY <1>1, <1>2, <1>5, <2>1, <2>2, <2>3, CarryingReach
    <2> QED
      BY <1>1, <1>2, <1>3, <1>4, <1>5, <2>1, <2>2, <2>4, LoadReachStep
  <1>7. CASE old.op = "signup"
    <2>1. ASSUME NEW p \in Plugins \ (tainted' \cup missed'), SignupReach(old, p) PROVE (SignupReach(new, p))'
      <3>1. PICK U, A : U = users /\ A = AgentsOf(loaded[p])
        OBVIOUS
      <3>2. U \subseteq Users /\ users' = U /\ (AgentsOf(loaded[p]))' = A
        BY <1>2, <3>1 DEF TypeInv, RowsOK, AgentsOf
      <3>3. (Has(p, A, U \ {u}))'
        BY <1>1, <1>3, <2>1, <3>1, <3>2, HasKept DEF SignupReach, Calm
      <3>4. loaded[p] \in old.todo \/ Writes(old, p) \/ Has(p, A, {u})
        BY <1>1, <1>5, <2>1, <3>1 DEF SignupReach
      <3>5. Has(p, A, {u}) => (Has(p, A, {u}))'
        BY <1>2, <1>3, HasKept DEF Calm
      <3>6. ASSUME Writes(old, p) PROVE (Has(p, A, {u}))'
        <4>1. A \subseteq info.agents /\ SeenStays(old) /\ p = q
          BY <1>1, <2>1, <3>1, <3>6 DEF SignupReach, Writes
        <4>2. (Has(q, info.agents, {u}))'
          BY <1>3, <4>1
        <4> QED
          BY <4>1, <4>2 DEF Has
      <3>7. ~Writes(new, p)
        BY <1>5, <1>7 DEF Writes
      <3> QED
        BY <1>2, <1>5, <1>7, <3>2, <3>3, <3>4, <3>5, <3>6, <3>7 DEF SignupReach, Writes
    <2> QED
      BY <1>1, <1>2, <1>4, <1>5, <1>7, <2>1, SignupReachStep
  <1> QED
    BY <1>6, <1>7

(* A transaction that fails is one that is remembered.                     *)
LEMMA SyncFailsReach ==
  ASSUME TypeInv, TypeInv', PluginInv, PluginInv', ReachInv, NEW j \in Requests, SyncFails(j)
  PROVE  ReachInv'
  <1>1. PICK old, new, q, info, u : old = jobs[j] /\ new = jobs'[j] /\ info = old.info /\ q = info.plugin /\ u = old.user
    OBVIOUS
  <1>2. /\ Others(j) /\ At(j, "commit") /\ loaded' = loaded /\ users' = users /\ rows' = rows
        /\ \/ old.op = "signup" /\ Ended(j)
           \/ old.op # "signup" /\ Resumes(j)
        /\ missed' = missed \cup {q} \cup (IF old.op = "signup" THEN {i.plugin : i \in old.todo} ELSE {})
    BY <1>1, SyncFailsStep DEF memory
  <1>3. \A p : Calm(p)
    BY <1>2, RowsSame
  <1>4. tainted \subseteq tainted' /\ missed \subseteq missed' /\ q \in missed'
    BY <1>2 DEF SyncFails, Taint
  <1>5. old # None /\ old.pc = "commit"
    BY <1>1, <1>2 DEF At
  <1>6. CASE old.op # "signup"
    <2>1. Carrying(old) /\ q \in Plugins /\ old.op \notin {"boot", "signup"}
      BY <1>1, <1>2, <1>6, LoaderAt DEF Loads
    <2>2. Carrying(new) /\ new.info = info
      BY <1>1, <1>2, <1>6, <2>1 DEF Carrying, Loads, Resumes, Carries
    <2> QED
      BY <1>1, <1>2, <1>3, <1>4, <2>1, <2>2, LoadReachStep
  <1>7. CASE old.op = "signup"
    <2>1. new = None
      BY <1>1, <1>2, <1>7 DEF Ended
    <2>2. ASSUME NEW p \in Plugins \ (tainted' \cup missed'), SignupReach(old, p) PROVE (Served(p))'
      <3>1. p # q /\ \A i \in old.todo : i.plugin # p
        BY <1>2, <1>7, <2>2
      <3>2. ~Writes(old, p)
        BY <1>1, <3>1 DEF Writes
      <3>3. CASE loaded[p] = None
        BY <1>2, <3>3, NothingToServe
      <3>4. CASE loaded[p] # None
        <4>1. loaded[p].plugin = p
          BY <3>4, LoadedInfo
        <4>2. Has(p, AgentsOf(loaded[p]), users \ {u}) /\ Has(p, AgentsOf(loaded[p]), {u})
          BY <1>1, <1>5, <2>2, <3>1, <3>2, <4>1 DEF SignupReach
        <4>3. Served(p)
          BY <4>2, BothServed DEF Served
        <4> QED
          BY <1>2, <1>3, <4>3, ServedKept
      <3> QED
        BY <3>3, <3>4
    <2> QED
      BY <1>1, <1>2, <1>4, <1>5, <1>7, <2>1, <2>2, SignupReachStep
  <1> QED
    BY <1>6, <1>7

(* A new account: every plugin in the list has served the others.          *)
LEMMA SignUpReach ==
  ASSUME TypeInv, TypeInv', PluginInv, PluginInv', ReachInv, NEW j \in Requests, NEW u \in Users, SignUp(j, u)
  PROVE  ReachInv'
  <1>1. PICK new : new = jobs'[j]
    OBVIOUS
  <1>2. /\ Others(j) /\ jobs[j] = None /\ new # None /\ new.op = "signup" /\ new.pc = "list"
        /\ new.user = u /\ u \notin users /\ users' = users \cup {u}
        /\ loaded' = loaded /\ rows' = rows /\ missed' = missed
    BY <1>1, SignUpStep DEF memory, Became
  <1>3. tainted \subseteq tainted'
    BY DEF SignUp, Taint
  <1>4. \A p \in Plugins : Concerns(new, p)
    BY <1>2, SignupConcerns
  <1>5. ASSUME NEW p \in Plugins \ (tainted' \cup missed'), p \notin missed => Reach(None, p)
        PROVE  (Reach(new, p))'
    <2>1. Served(p)
      BY <1>2, <1>5, PlainReach DEF Plain
    <2>2. PICK U, A : U = users /\ A = AgentsOf(loaded[p])
      OBVIOUS
    <2>3. U = users' \ {u} /\ (AgentsOf(loaded[p]))' = A
      BY <1>2, <2>2 DEF AgentsOf
    <2>4. (Has(p, A, U))'
      BY <1>2, <2>1, <2>2 DEF Served, Has
    <2>5. (SignupReach(new, p))'
      BY <1>2, <2>3, <2>4 DEF SignupReach, Writes
    <2> QED
      BY <1>2, <2>5, SignupConcerns
  <1> QED
    BY <1>1, <1>2, <1>3, <1>4, <1>5, ReachStep

LEMMA ListReach ==
  ASSUME TypeInv, TypeInv', PluginInv, PluginInv', ReachInv, NEW j \in Requests, ListPlugins(j)
  PROVE  ReachInv'
  <1>1. PICK old, new, u : old = jobs[j] /\ new = jobs'[j] /\ u = old.user
    OBVIOUS
  <1>2. /\ Others(j) /\ Carries(j, "seed", old.info) /\ old.op = "signup"
        /\ new.todo = list_plugins /\ new.user = u
        /\ loaded' = loaded /\ users' = users /\ rows' = rows /\ missed' = missed
    BY <1>1, ListStep DEF memory
  <1>3. At(j, "list") /\ tainted \subseteq tainted'
    BY DEF ListPlugins, Taint
  <1>4. old # None /\ new # None /\ new.op = "signup" /\ new.pc = "seed"
    BY <1>1, <1>2, <1>3 DEF At, Carries
  <1>5. ASSUME NEW p \in Plugins \ (tainted' \cup missed'), SignupReach(old, p) PROVE (SignupReach(new, p))'
    <2>1. PICK U, A, l : U = users /\ A = AgentsOf(loaded[p]) /\ l = loaded[p]
      OBVIOUS
    <2>2. users' = U /\ (AgentsOf(loaded[p]))' = A /\ loaded'[p] = l
      BY <1>2, <2>1 DEF AgentsOf
    <2>3. (Has(p, A, U \ {u}))'
      BY <1>1, <1>2, <1>5, <2>1 DEF SignupReach, Has
    <2>4. l \in list_plugins \/ (Has(p, A, {u}))'
      <3>1. CASE l = None
        BY <2>1, <3>1 DEF AgentsOf, Has
      <3>2. CASE l # None
        BY <2>1, <3>2 DEF list_plugins
      <3> QED
        BY <3>1, <3>2
    <2> QED
      BY <1>2, <1>4, <2>2, <2>3, <2>4 DEF SignupReach, Writes
  <1> QED
    BY <1>1, <1>2, <1>3, <1>4, <1>5, SignupReachStep

(* The directory of a plugin in the list has the agents of the list.       *)
LEMMA FoundFresh ==
  ASSUME TypeInv, NEW p \in Plugins, Fresh(p), NEW i, i = loaded[p], i # None
  PROVE  Found(i) = AgentsOf(i) /\ i.plugin = p
  <1>1. i \in Infos /\ i.plugin = p /\ i.dir \in Dirs
    BY LoadedInfo
  <1>2. disk[i.dir] \in Contents /\ i = PluginInfo(disk[i.dir], i.dir)
    BY DEF Fresh, InPlace
  <1>3. i.agents = Manifest[disk[i.dir]].agents
    BY <1>1, <1>2, InfoOf
  <1>4. \A a \in i.agents : <<i.plugin, a>> \in AgentNames
    BY <1>1, InfoNames DEF Namespaced
  <1> QED
    BY <1>1, <1>2, <1>3, <1>4 DEF Found, AgentsOf

(* The user of a signup gets the agents of one plugin after the other.     *)
LEMMA SeedReach ==
  ASSUME TypeInv, TypeInv', PluginInv, PluginInv', ReachInv, NEW j \in Requests, Seed(j)
  PROVE  ReachInv'
  <1>1. PICK old, new, u : old = jobs[j] /\ new = jobs'[j] /\ u = old.user
    OBVIOUS
  <1>2. /\ Others(j) /\ old.op = "signup" /\ old.pc = "seed"
        /\ loaded' = loaded /\ users' = users /\ rows' = rows /\ missed' = missed
        /\ \/ Ended(j) /\ old.todo = {}
           \/ \E i \in old.todo :
                /\ i \in Infos /\ new.todo = old.todo \ {i} /\ new.user = u
                /\ \/ Found(i) = {} /\ Carries(j, "seed", old.info)
                   \/ \E info \in Carried : /\ info.plugin = i.plugin /\ info.agents = Found(i)
                                            /\ Carries(j, "commit", info) /\ new.seen = rows[u]
    BY <1>1, SeedStep DEF memory
  <1>3. At(j, "seed") /\ Taint({})
    BY Zenon DEF Seed
  <1>4. old # None /\ tainted \subseteq tainted'
    BY <1>1, <1>3 DEF At, Taint
  <1>5. new # None => new.op = "signup"
    BY <1>1, <1>2 DEF Ended, Carries
  <1>6. ASSUME NEW p \in Plugins \ (tainted' \cup missed'), SignupReach(old, p)
        PROVE  IF new = None THEN (Served(p))' ELSE (SignupReach(new, p))'
    <2>1. SignupStage(old, p)
      <3>1. p \in Plugins \ tainted /\ Concerns(old, p)
        BY <1>2, <1>4, <1>6, SignupConcerns
      <3>2. Stage(old, p)
        BY <1>1, <3>1 DEF PluginInv, StagesOK
      <3> QED
        BY <1>2, <3>2 DEF Stage
    <2>2. PICK U, A, l : U = users /\ A = AgentsOf(loaded[p]) /\ l = loaded[p]
      OBVIOUS
    <2>3. users' = U /\ (AgentsOf(loaded[p]))' = A /\ loaded'[p] = l
      BY <1>2, <2>2 DEF AgentsOf
    <2>4. \A V : Has(p, A, V) => (Has(p, A, V))'
      BY <1>2 DEF Has
    <2>5. Has(p, A, U \ {u}) /\ (l \in old.todo \/ Has(p, A, {u}))
      BY <1>1, <1>2, <1>6, <2>2 DEF SignupReach, Writes
    <2>6. CASE Ended(j) /\ old.todo = {}
      <3>1. new = None /\ Has(p, A, U)
        BY <1>1, <2>5, <2>6, BothServed DEF Ended
      <3> QED
        BY <2>3, <2>4, <3>1 DEF Served
    <2>7. ASSUME NEW i \in old.todo, i \in Infos, new.todo = old.todo \ {i}, new.user = u,
                 \/ Found(i) = {} /\ Carries(j, "seed", old.info)
                 \/ \E info \in Carried : /\ info.plugin = i.plugin /\ info.agents = Found(i)
                                          /\ Carries(j, "commit", info) /\ new.seen = rows[u]
          PROVE  new # None /\ (SignupReach(new, p))'
      <3>1. ASSUME i.plugin = p \/ i = l PROVE Found(i) = A /\ i = l /\ i.plugin = p
        <4>1. i # None /\ (i.plugin = p => i = l)
          BY <2>1, <2>2, <2>7, InfoFacts DEF SignupStage
        <4>2. i = l
          BY <3>1, <4>1
        <4> QED
          BY <2>1, <2>2, <4>1, <4>2, FoundFresh DEF SignupStage
      <3>2. (Has(p, A, U \ {u}))'
        BY <2>4, <2>5
      <3>3. CASE Found(i) = {} /\ Carries(j, "seed", old.info)
        <4>1. new # None /\ new.pc = "seed"
          BY <1>1, <3>3 DEF Carries
        <4>2. l \in new.todo \/ Has(p, A, {u})
          <5>1. CASE i = l
            BY <3>1, <3>3, <5>1 DEF Has
          <5>2. CASE i # l
            BY <2>5, <2>7, <5>2
          <5> QED
            BY <5>1, <5>2
        <4> QED
          BY <2>3, <2>4, <2>7, <3>2, <4>1, <4>2 DEF SignupReach, Writes
      <3>4. ASSUME NEW info \in Carried, info.plugin = i.plugin, info.agents = Found(i), Carries(j, "commit", info),
                   new.seen = rows[u]
            PROVE  new # None /\ (SignupReach(new, p))'
        <4>1. new # None /\ new.pc = "commit" /\ new.info = info
          BY <1>1, <3>4 DEF Carries
        <4>2. l \in new.todo \/ Writes(new, p) \/ Has(p, A, {u})
          <5>1. CASE i = l
            BY <3>1, <3>4, <4>1, <5>1 DEF Writes
          <5>2. CASE i # l
            BY <2>5, <2>7, <5>2
          <5> QED
            BY <5>1, <5>2
        <4>3. (SeenStays(new))'
          BY <1>2, <2>7, <3>4 DEF SeenStays
        <4>4. Writes(new, p) => A \subseteq new.info.agents
          BY <3>1, <3>4, <4>1 DEF Writes
        <4> QED
          BY <2>3, <2>4, <2>7, <3>2, <4>1, <4>2, <4>3, <4>4 DEF SignupReach, Writes
      <3> QED
        BY <2>7, <3>3, <3>4
    <2> QED
      BY <1>2, <2>6, <2>7
  <1> QED
    BY <1>1, <1>2, <1>4, <1>5, <1>6, SignupReachStep

(* A user who deletes a row is remembered.                                 *)
LEMMA UserReach ==
  ASSUME TypeInv, ReachInv, UserStep
  PROVE  ReachInv'
  <1>1. PICK u, n, row :
          /\ u \in Users /\ n \in AgentNames
          /\ loaded' = loaded /\ users' = users /\ jobs' = jobs /\ tainted' = tainted /\ missed \subseteq missed'
          /\ rows'[u][n] = row /\ (row = None => n[1] \in missed')
          /\ \A v \in Users, m \in AgentNames : v # u \/ m # n => rows'[v][m] = rows[v][m]
    BY UserRow DEF memory
  <1>2. ASSUME NEW p \in Plugins \ missed' PROVE Calm(p) /\ p \in Plugins \ missed
    BY <1>1, <1>2 DEF Calm, RowsKept
  <1>3. ASSUME NEW p \in Plugins \ (tainted' \cup missed'), ~(Busy(p))' PROVE (Served(p))'
    <2>1. ~Busy(p) /\ p \in Plugins \ (tainted \cup missed)
      BY <1>1, <1>2, <1>3 DEF Busy
    <2>2. Served(p)
      BY <2>1 DEF ReachInv
    <2> QED
      BY <1>1, <1>2, <1>3, <2>2, ServedKept
  <1>4. ASSUME NEW p \in Plugins \ (tainted' \cup missed'), NEW k \in Requests \cup {Boot}, Concerns(jobs'[k], p)
        PROVE  (Reach(jobs[k], p))'
    <2>1. PICK job : job = jobs[k] /\ job = jobs'[k]
      BY <1>1
    <2>2. Reach(job, p)
      BY <1>1, <1>2, <1>4, <2>1 DEF ReachInv
    <2>3. (Reach(job, p))'
      BY <1>1, <1>2, <1>4, <2>1, <2>2, ReachKept
    <2> QED
      BY <2>1, <2>3
  <1> QED
    BY <1>3, <1>4 DEF ReachInv

(* Nothing is in the list when the process starts.                         *)
LEMMA RestartReach ==
  ASSUME TypeInv, ReachInv, Crash \/ Shutdown
  PROVE  ReachInv'
  <1>1. /\ jobs'[Boot] = Started /\ \A j \in Requests : jobs'[j] = None
        /\ \A p \in Plugins : loaded'[p] = None
    BY CrashStep, ShutdownStep
  <1>2. PICK job : job = Started
    OBVIOUS
  <1>3. job # None /\ job.op = "boot"
    BY <1>2, StartedFits
  <1>4. ASSUME NEW p \in Plugins PROVE (Served(p))' /\ (Reach(job, p))'
    <2>1. (Served(p))'
      BY <1>1, NothingToServe
    <2> QED
      BY <1>3, <2>1 DEF Reach
  <1>5. ASSUME NEW p \in Plugins, NEW k \in Requests \cup {Boot}, Concerns(jobs'[k], p)
        PROVE  (Reach(jobs[k], p))'
    <2>1. jobs'[k] = job
      BY <1>1, <1>2, <1>5 DEF Concerns
    <2> QED
      BY <1>4, <2>1
  <1> QED
    BY <1>4, <1>5 DEF ReachInv

(* The startup serves every user of a plugin that it loads.                *)
LEMMA BootReach ==
  ASSUME TypeInv, TypeInv', PluginInv, ReachInv, BootNext
  PROVE  ReachInv'
  <1>1. PICK old, new : old = jobs[Boot] /\ new = jobs'[Boot]
    OBVIOUS
  <1>2. /\ users' = users /\ old # None /\ old.op = "boot" /\ \A j \in Requests : jobs'[j] = None
        /\ \/ /\ old.todo = {} /\ new = None /\ UNCHANGED <<loaded, rows, missed>>
           \/ \E d \in old.todo, info \in Infos :
                /\ d \in Plugins /\ disk[d] \in Contents /\ info = PluginInfo(disk[d], d)
                /\ new # None /\ new.op = "boot" /\ new.todo = old.todo \ {d}
                /\ loaded'[info.plugin] = info /\ \A p \in Plugins \ {info.plugin} : loaded'[p] = loaded[p]
                /\ missed' = missed \ {info.plugin}
                /\ \A v \in Users, n \in AgentNames : rows'[v][n] # rows[v][n] => n \in Namespaced(info)
                /\ \A v \in users, n \in AgentNames \cap Namespaced(info) : rows'[v][n] # None
    BY <1>1, BootStep
  <1>3. Taint({})
    BY Zenon DEF BootNext
  <1>4. tainted \subseteq tainted'
    BY <1>3 DEF Taint
  <1>5. ASSUME NEW p \in Plugins \ (tainted \cup missed) PROVE p \in old.todo \/ Served(p)
    <2>1. Concerns(old, p)
      BY <1>2 DEF Concerns
    <2>2. Reach(old, p)
      BY <1>1, <1>5, <2>1 DEF ReachInv
    <2> QED
      BY <1>2, <2>1, <2>2 DEF Reach
  <1>6. ASSUME NEW p \in Plugins \ (tainted' \cup missed')
        PROVE  IF new = None THEN (Served(p))' ELSE new.op = "boot" /\ (p \in new.todo \/ (Served(p))')
    <2>1. CASE old.todo = {} /\ new = None /\ UNCHANGED <<loaded, rows, missed>>
      <3>1. Served(p) /\ Calm(p)
        BY <1>4, <1>5, <1>6, <2>1, RowsSame
      <3> QED
        BY <1>2, <2>1, <3>1, ServedKept
    <2>2. ASSUME NEW d \in old.todo, NEW info \in Infos,
                 d \in Plugins, disk[d] \in Contents, info = PluginInfo(disk[d], d),
                 new # None, new.op = "boot", new.todo = old.todo \ {d},
                 loaded'[info.plugin] = info, \A q \in Plugins \ {info.plugin} : loaded'[q] = loaded[q],
                 missed' = missed \ {info.plugin},
                 \A v \in Users, n \in AgentNames : rows'[v][n] # rows[v][n] => n \in Namespaced(info),
                 \A v \in users, n \in AgentNames \cap Namespaced(info) : rows'[v][n] # None
          PROVE  p \in new.todo \/ (Served(p))'
      <3>1. CASE p = info.plugin
        <4>1. ASSUME NEW v \in users, NEW n \in AgentNames, n[1] = p, n[2] \in info.agents PROVE rows'[v][n] # None
          <5>1. n = <<info.plugin, n[2]>>
            BY <3>1, <4>1, NameFacts
          <5>2. n \in Namespaced(info)
            BY <4>1, <5>1 DEF Namespaced
          <5> QED
            BY <2>2, <5>2
        <4>2. (Has(p, info.agents, users))'
          BY <1>2, <4>1 DEF Has
        <4>3. (AgentsOf(loaded[p]))' = info.agents
          BY <2>2, <3>1, InfoFacts DEF AgentsOf
        <4> QED
          BY <4>2, <4>3 DEF Served
      <3>2. CASE p # info.plugin
        <4>1. p \notin missed /\ p \notin tainted
          BY <1>4, <1>6, <2>2, <3>2
        <4>2. d # p
          <5>1. d \in Dirs
            BY <2>2 DEF Dirs
          <5>2. Proper(info.plugin, d)
            BY <2>2, <5>1, LoadedFrom
          <5> QED
            BY <2>2, <3>2, <4>1, <5>2, ExternalFacts DEF Proper
        <4>3. \A n \in Namespaced(info) : n[1] = info.plugin
          BY NamesOfInfo
        <4>4. Calm(p)
          BY <1>6, <2>2, <3>2, <4>3 DEF Calm, RowsKept
        <4> QED
          BY <1>2, <1>5, <2>2, <4>1, <4>2, <4>4, ServedKept
      <3> QED
        BY <3>1, <3>2
    <2> QED
      BY <1>2, <2>1, <2>2
  <1>7. DOMAIN jobs' = Requests \cup {Boot}
    BY Domain DEF TypeInv, JobsOK
  <1>8. ASSUME NEW p \in Plugins \ (tainted' \cup missed'), ~(Busy(p))' PROVE (Served(p))'
    <2>1. new = None
      <3>1. ASSUME new # None PROVE FALSE
        <4>1. Concerns(new, p)
          BY <1>6, <1>8, <3>1 DEF Concerns
        <4> QED
          BY <1>1, <1>7, <1>8, <4>1 DEF Busy
      <3> QED
        BY <3>1
    <2> QED
      BY <1>6, <1>8, <2>1
  <1>9. ASSUME NEW p \in Plugins \ (tainted' \cup missed'), NEW k \in Requests \cup {Boot}, Concerns(jobs'[k], p)
        PROVE  (Reach(jobs[k], p))'
    <2>1. jobs'[k] = new /\ new # None
      BY <1>1, <1>2, <1>9 DEF Concerns
    <2>2. (Reach(new, p))'
      BY <1>6, <1>9, <2>1 DEF Reach
    <2> QED
      BY <2>1, <2>2
  <1> QED
    BY <1>8, <1>9 DEF ReachInv

LEMMA StutterReach ==
  ASSUME ReachInv, UNCHANGED vars
  PROVE  ReachInv'
  <1>1. /\ loaded' = loaded /\ users' = users /\ rows' = rows /\ jobs' = jobs /\ tainted' = tainted /\ missed' = missed
    BY DEF vars, memory
  <1> QED
    BY <1>1 DEF ReachInv, Reach, SignupReach, LoadReach, Served, Has, SeenStays, AgentsOf, Busy, Concerns, Writes, Left

LEMMA InitReach == Init => ReachInv
  <1> SUFFICES ASSUME Init PROVE ReachInv
    OBVIOUS
  <1>1. \A p \in Plugins : loaded[p] = None
    BY DEF Init
  <1>2. \A p \in Plugins : Served(p)
    BY <1>1, NothingToServe
  <1>3. \A k \in Requests \cup {Boot} : \A p \in Plugins : ~Concerns(jobs[k], p)
    BY DEF Init, Concerns
  <1> QED
    BY <1>2, <1>3 DEF ReachInv

LEMMA RequestReach ==
  ASSUME TypeInv, TypeInv', PluginInv, PluginInv', ReachInv, NEW j \in Requests, Request(j)
  PROVE  ReachInv'
  BY ArrivalReach, SignUpReach DEF Request

LEMMA WorkReach ==
  ASSUME TypeInv, TypeInv', PluginInv, PluginInv', ReachInv, NEW j \in Requests, Work(j)
  PROVE  ReachInv'
  <1>1. CASE \/ \E c \in Contents : Copied(j, c) \/ EndClone(j, c)
             \/ CleanStaging(j) \/ StartClone(j) \/ CloneFails(j) \/ GiveUp(j) \/ Validate(j) \/ Rename(j)
             \/ Pull(j) \/ RemoveFiles(j)
    BY <1>1, PlaceReach
  <1>2. CASE Unload(j) \/ Closed(j) \/ DeleteRows(j)
    BY <1>2, UnloadReach
  <1>3. CASE Load(j) \/ Connected(j) \/ \E s \in Servers : Connect(j, s)
    BY <1>3, LoadReachInv, ConnectReach
  <1>4. CASE LoadFails(j) \/ SelectUsers(j) \/ Loaded(j) \/ \E u \in Users : SyncRead(j, u)
    BY <1>4, LoadFailsReach, SelectReach, LoadedReach, ReadReach
  <1>5. CASE SyncCommit(j) \/ SyncFails(j) \/ ListPlugins(j) \/ Seed(j)
    BY <1>5, CommitReach, SyncFailsReach, ListReach, SeedReach
  <1>6. CASE UnloadFails(j) \/ Stopped(j)
    BY <1>6, StoppedReach
  <1> QED
    BY <1>1, <1>2, <1>3, <1>4, <1>5, <1>6 DEF Work

LEMMA ReachInvariant == Spec => [](TypeInv /\ PluginInv /\ ReachInv)
  <1>1. TypeInv /\ TypeInv' /\ PluginInv /\ PluginInv' /\ ReachInv /\ [Next]_vars => ReachInv'
    <2> SUFFICES ASSUME TypeInv, TypeInv', PluginInv, PluginInv', ReachInv, [Next]_vars PROVE ReachInv'
      OBVIOUS
    <2>1. CASE Next
      BY <2>1, RequestReach, WorkReach, UserReach, RestartReach, BootReach DEF Next
    <2>2. CASE UNCHANGED vars
      BY <2>2, StutterReach
    <2> QED
      BY <2>1, <2>2
  <1> QED
    BY <1>1, PluginInvariant, InitReach, PTL DEF Spec

(* Every user has every agent of a loaded plugin, or a row of their own by *)
(* that name, for any number of plugins, users, signups and reloads in     *)
(* between, once nothing works on the plugin and unless its operations     *)
(* overlapped or a row of it was dropped since (plugin_loader.py           *)
(* _sync_plugin_agents, routes/auth.py register, server.py lifespan).      *)
THEOREM ReachCorrect == Spec => []AgentsReachEveryUser
  <1>1. TypeInv /\ ReachInv => AgentsReachEveryUser
    <2> SUFFICES ASSUME TypeInv, ReachInv, NEW p \in Plugins \ (tainted \cup missed), ~Busy(p), loaded[p] # None,
                        NEW u \in users, NEW a \in loaded[p].agents
                 PROVE  rows[u][<<p, a>>] # None
      BY DEF AgentsReachEveryUser
    <2>1. Has(p, loaded[p].agents, users)
      BY DEF ReachInv, Served, AgentsOf
    <2>2. loaded[p] \in Infos /\ loaded[p].plugin = p
      BY LoadedInfo
    <2>3. <<p, a>> \in AgentNames
      BY <2>2, InfoNames DEF Namespaced
    <2> QED
      BY <2>1, <2>3 DEF Has
  <1> QED
    BY <1>1, ReachInvariant, PTL
=============================================================================
