------------------------------ MODULE Registry ------------------------------
(***************************************************************************)
(* The Spec Context registry, src/features/context/service.ts over         *)
(* contextStore.ts: spec_contexts.json and the clones under repos/.        *)
(*                                                                         *)
(* Every command is a process of its own: it loads the whole registry,     *)
(* works on the clone of its context (git clone, rm -r, remote get-url)    *)
(* and saves the registry it loaded with one record replaced.  load reads  *)
(* a file and save renames one, so each is one step; nothing locks it.     *)
(*                                                                         *)
(* The registry is a function, because every lookup is by name and save    *)
(* sorts; branch and the time stamps are written and never tested.         *)
(***************************************************************************)
EXTENDS Naturals, FiniteSets

CONSTANTS
  Name,     \* context names that pass assertContextName
  Slug,     \* repo slugs that pass assertRepoSlug
  Url,      \* repository urls
  Call,     \* slots for commands that run at the same time
  Leftover, \* the clones that may lie under repos/ before any command
  Env,      \* what may go wrong, a subset of Hazards
  None      \* no record, no url, no clone, no command

(* "overlap": a second command may start before the first ends; "kill": a   *)
(* command may die half way; "share": two contexts may name the same slug.  *)
Hazards == {"overlap", "kill", "share"}

OptUrl == Url \cup {None}
Record == [slug : Slug, url : OptUrl, state : {"ALIVE", "DEAD"}]
Registries == [Name -> Record \cup {None}]
Clone == [url : OptUrl, whole : BOOLEAN]
Step == {"clone", "cloning", "remove", "removing", "save"}
Command == [name : Name, seen : Registries, rec : Record, at : Step]

ASSUME RegistryAssumption ==
  /\ Leftover \subseteq [url : OptUrl, whole : {TRUE}]
  /\ Env \subseteq Hazards
  /\ None \notin Url
  /\ None \notin Record
  /\ None \notin Clone
  /\ None \notin Command

VARIABLES
  registry,  \* spec_contexts.json
  clone,     \* repos/<slug>: None, or its origin and whether it is complete
  cmd,       \* each running command: what it loaded, what it will save
  dirty      \* history: slugs a killed, overlapping or stale command touched

regVars == <<registry, clone, cmd, dirty>>

Running(k) == cmd[k] # None
Target(k) == cmd[k].rec.slug
At(k, step) == Running(k) /\ cmd[k].at = step
Users(slug) == {n \in Name : registry[n] # None /\ registry[n].slug = slug}
Alone(k) == \A j \in Call \ {k} : Running(j) => Target(j) # Target(k)

RegInit ==
  /\ registry = [n \in Name |-> None]
  /\ clone \in [Slug -> {None} \cup Leftover]
  /\ cmd = [k \in Call |-> None]
  /\ dirty = {}

-----------------------------------------------------------------------------
(* load, and what the command tests before it does anything.               *)

Begin(k, n, step, rec) ==
  /\ ~Running(k)
  /\ "overlap" \in Env \/ \A j \in Call : ~Running(j)
  /\ cmd' = [cmd EXCEPT ![k] = [name |-> n, seen |-> registry, rec |-> rec, at |-> step]]
  /\ UNCHANGED <<registry, clone, dirty>>

(* create refuses a name on file and asks nothing about the slug.           *)
Create(k, n, slug, url) ==
  /\ registry[n] = None
  /\ "share" \in Env \/ Users(slug) = {}
  /\ Begin(k, n, "save", [slug |-> slug, url |-> url, state |-> "DEAD"])

(* Mutation: update does not look whether the name was found.               *)
UpdateUnknown(k, n, url) ==
  Begin(k, n, "save",
        IF registry[n] = None THEN [url |-> url] ELSE [registry[n] EXCEPT !.url = url])

(* update: an empty --repo-url is saved, and load drops it.                 *)
Update(k, n, url) ==
  /\ registry[n] # None
  /\ Begin(k, n, "save", [registry[n] EXCEPT !.url = url])

Alive(k, n) ==
  /\ registry[n] # None
  /\ Begin(k, n, "clone", [registry[n] EXCEPT !.state = "ALIVE"])

Dead(k, n) ==
  /\ registry[n] # None
  /\ Begin(k, n, "remove", [registry[n] EXCEPT !.state = "DEAD"])

-----------------------------------------------------------------------------
(* The work between load and save.                                         *)

(* git remote get-url; an incomplete clone may not have its origin yet.     *)
Origins(slug) == {clone[slug].url} \cup (IF clone[slug].whole THEN {} ELSE {None})

Learned(k) == IF cmd[k].rec.url # None THEN {cmd[k].rec.url} ELSE Origins(Target(k))

Work(k, step, url, dir) ==
  /\ cmd' = [cmd EXCEPT ![k].at = step, ![k].rec.url = url]
  /\ clone' = [clone EXCEPT ![Target(k)] = dir]
  /\ dirty' = IF Alone(k) THEN dirty ELSE dirty \cup {Target(k)}
  /\ UNCHANGED registry

(* The command throws: nothing is saved.                                    *)
Fail(k, dir) ==
  /\ cmd' = [cmd EXCEPT ![k] = None]
  /\ clone' = [clone EXCEPT ![Target(k)] = dir]
  /\ dirty' = IF Alone(k) THEN dirty ELSE dirty \cup {Target(k)}
  /\ UNCHANGED registry

(* alive: a directory that is there is not looked at any further.           *)
FindClone(k) ==
  /\ At(k, "clone")
  /\ clone[Target(k)] # None
  /\ \E url \in Learned(k) : Work(k, "save", url, clone[Target(k)])

CannotClone(k) ==
  /\ At(k, "clone")
  /\ clone[Target(k)] = None
  /\ cmd[k].rec.url = None
  /\ Fail(k, None)

StartClone(k) ==
  /\ At(k, "clone")
  /\ clone[Target(k)] = None
  /\ cmd[k].rec.url # None
  /\ Work(k, "cloning", cmd[k].rec.url, [url |-> cmd[k].rec.url, whole |-> FALSE])

(* Mutation: the exit code of git clone is not looked at.                   *)
FinishCloneUnchecked(k) ==
  /\ At(k, "cloning")
  /\ \E dir \in {None, [url |-> cmd[k].rec.url, whole |-> TRUE]} :
       Work(k, "save", cmd[k].rec.url, dir)

FinishClone(k) ==
  /\ At(k, "cloning")
  /\ Work(k, "save", cmd[k].rec.url, [url |-> cmd[k].rec.url, whole |-> TRUE])

(* git removes what it created when it fails.                               *)
FailClone(k) ==
  /\ At(k, "cloning")
  /\ Fail(k, None)

(* Mutation: the directory goes first and the origin is asked afterwards.   *)
StartRemoveFirst(k) ==
  /\ At(k, "remove")
  /\ clone[Target(k)] # None
  /\ Work(k, "removing", cmd[k].rec.url, [clone[Target(k)] EXCEPT !.whole = FALSE])

(* dead: the origin is asked before the directory goes.                     *)
StartRemove(k) ==
  /\ At(k, "remove")
  /\ clone[Target(k)] # None
  /\ \E url \in Learned(k) :
       Work(k, "removing", url, [clone[Target(k)] EXCEPT !.whole = FALSE])

FinishRemove(k) ==
  /\ At(k, "removing") \/ (At(k, "remove") /\ clone[Target(k)] = None)
  /\ Work(k, "save", cmd[k].rec.url, None)

-----------------------------------------------------------------------------
(* save: replaceContext over the registry that was loaded.                 *)

(* Mutation: the registry is built from the record alone.                   *)
SavedAlone(k) ==
  [n \in Name |-> IF n = cmd[k].name THEN cmd[k].rec ELSE None]

Saved(k) == [cmd[k].seen EXCEPT ![cmd[k].name] = cmd[k].rec]

(* What changed on file since the load: the save takes it back.             *)
Stale(k) == {n \in Name : registry[n] # cmd[k].seen[n]}
SlugsOf(reg, names) == {reg[n].slug : n \in {m \in names : reg[m] # None}}
Reverted(k) == SlugsOf(registry, Stale(k)) \cup SlugsOf(cmd[k].seen, Stale(k))

(* A dead that nobody crossed leaves nothing behind of an earlier mishap.   *)
Repaired(k) ==
  IF cmd[k].rec.state = "DEAD" /\ clone[Target(k)] = None /\ Alone(k)
  THEN {Target(k)} ELSE {}

Save(k) ==
  /\ At(k, "save")
  /\ cmd' = [cmd EXCEPT ![k] = None]
  /\ registry' = Saved(k)
  /\ dirty' = (dirty \ Repaired(k)) \cup Reverted(k) \cup (IF Alone(k) THEN {} ELSE {Target(k)})
  /\ UNCHANGED clone

(* The process dies.  A git child goes on without it, fails or dies too.    *)
Kill(k) ==
  /\ "kill" \in Env
  /\ Running(k)
  /\ cmd' = [cmd EXCEPT ![k] = None]
  /\ \E dir \in IF At(k, "cloning")
                THEN {None} \cup [url : {cmd[k].rec.url}, whole : BOOLEAN]
                ELSE {clone[Target(k)]} :
       clone' = [clone EXCEPT ![Target(k)] = dir]
  /\ dirty' = dirty \cup {Target(k)}
  /\ UNCHANGED registry

(* memoryBootstrap: the specs of the repository, or those of the workspace. *)
MemoryInClone(n) == registry[n].state = "ALIVE"

RegStep(k) ==
  \/ \E n \in Name, slug \in Slug, url \in OptUrl : Create(k, n, slug, url)
  \/ \E n \in Name, url \in OptUrl : Update(k, n, url)
  \/ \E n \in Name : Alive(k, n) \/ Dead(k, n)
  \/ FindClone(k) \/ CannotClone(k) \/ StartClone(k) \/ FinishClone(k) \/ FailClone(k)
  \/ StartRemove(k) \/ FinishRemove(k)
  \/ Save(k)
  \/ Kill(k)

RegNext == \E k \in Call : RegStep(k)
RegSpec == RegInit /\ [][RegNext]_regVars

-----------------------------------------------------------------------------
(* Types of the registry, the clones and the running commands of            *)
(* service.ts.                                                             *)
RegTypeOK ==
  /\ registry \in Registries
  /\ clone \in [Slug -> Clone \cup {None}]
  /\ cmd \in [Call -> Command \cup {None}]
  /\ dirty \subseteq Slug

(* The memory bootstrap of a session bound to n reads the clone that        *)
(* service.ts left behind: an ALIVE record whose slug is its own stands     *)
(* for a complete clone, unless a command on that slug was killed, crossed  *)
(* by another one, or saved over a newer registry, and no dead has cleaned  *)
(* up since.                                                               *)
BootstrapFindsClone ==
  \A n \in Name :
    LET slug == registry[n].slug IN
    ( /\ registry[n] # None
      /\ MemoryInClone(n)
      /\ Users(slug) = {n}
      /\ slug \notin dirty
      /\ \A k \in Call : Running(k) => Target(k) # slug )
    => clone[slug] # None /\ clone[slug].whole

(* Where the origin of a slug can be found: in a record on file, in a       *)
(* complete clone, or with a command that has it ready to save.             *)
Holds(k) == Running(k) /\ cmd[k].at \in {"removing", "save"} /\ cmd[k].rec.url # None
OriginKnown(slug) ==
  \/ \E n \in Users(slug) : registry[n].url # None
  \/ clone[slug] # None /\ clone[slug].whole /\ clone[slug].url # None
  \/ \E k \in Call : Holds(k) /\ Target(k) = slug

(* An update that is asked to clear the url.                                *)
Clears(k) ==
  LET old == cmd[k].seen[cmd[k].name] IN
  old # None /\ cmd[k].rec.state = old.state /\ cmd[k].rec.url = None

(* The origin of a repository outlives its clone: dead takes away the one   *)
(* copy that may be left and saves it later, and in between other commands  *)
(* clone, remove and save.  The origin is lost only when a command dies     *)
(* after it began to remove, or before it saves what it learned, when a     *)
(* save clears it or is stale, and when a command works on the directory of *)
(* a slug that is dirty already.                                           *)
OriginOutlivesClone ==
  [][\A slug \in Slug : OriginKnown(slug) =>
       \/ OriginKnown(slug)'
       \/ \E k \in Call : Holds(k) /\ Target(k) = slug /\ Kill(k)
       \/ \E k \in Call : Save(k) /\ (Stale(k) # {} \/ Clears(k))
       \/ slug \in dirty /\ clone'[slug] # clone[slug]]_regVars

(* A context or the url of a context leaves the file only by an update that *)
(* clears the url, or by a save whose registry was no longer the one on     *)
(* file.                                                                   *)
LossNeedsAStaleSave ==
  [][\A n \in Name : registry[n] # None =>
       \/ registry'[n] # None /\ (registry[n].url = None \/ registry'[n].url # None)
       \/ \E k \in Call : /\ At(k, "save") /\ ~Running(k)'
                          /\ \/ Stale(k) # {}
                             \/ cmd[k].name = n /\ cmd[k].rec.state = registry[n].state]_regVars
=============================================================================
