--------------------------- MODULE RegistryProofs ---------------------------
(***************************************************************************)
(* Theorems of Registry, for any number of commands at once and whatever   *)
(* may go wrong: the types, when saves lose a context or its url, what a    *)
(* clone is worth while nothing went wrong on its slug, and when the origin *)
(* of a clone is lost.                                                     *)
(***************************************************************************)
EXTENDS Registry, TLAPS

(* alive and dead never forget a url on their way to the save; only update  *)
(* may clear it, and update leaves the state alone.                         *)
KeepsUrl(c) ==
  c.seen[c.name] # None =>
    \/ c.rec.url # None
    \/ c.seen[c.name].url = None
    \/ c.rec.state = c.seen[c.name].state

(* A record keeps its slug, dead works on a DEAD record and alive on an     *)
(* ALIVE one.                                                              *)
StepFits(step, state) ==
  /\ step \in {"remove", "removing"} => state = "DEAD"
  /\ step \in {"clone", "cloning"} => state = "ALIVE"

Fits(c) ==
  /\ c.seen[c.name] # None => c.seen[c.name].slug = c.rec.slug
  /\ StepFits(c.at, c.rec.state)

CommandsFit == \A k \in Call : Running(k) => KeepsUrl(cmd[k]) /\ Fits(cmd[k])

RegInv == RegTypeOK /\ CommandsFit

-----------------------------------------------------------------------------

LEMMA CmdTyped ==
  ASSUME RegTypeOK, NEW k \in Call, Running(k)
  PROVE  /\ cmd[k] \in Command /\ cmd[k].name \in Name /\ cmd[k].seen \in Registries
         /\ cmd[k].rec \in Record /\ Target(k) \in Slug /\ cmd[k].rec.url \in OptUrl
  BY DEF RegTypeOK, Running, Command, Record, Target

(* Every command begins with a record of its own and what it loaded.        *)
LEMMA BeginStep ==
  ASSUME RegInv, NEW k \in Call, NEW n \in Name, NEW step \in Step, NEW rec \in Record,
         Begin(k, n, step, rec),
         registry[n] # None =>
           rec.url # None \/ registry[n].url = None \/ rec.state = registry[n].state,
         registry[n] # None => registry[n].slug = rec.slug, StepFits(step, rec.state)
  PROVE  RegInv'
  <1> DEFINE c == [name |-> n, seen |-> registry, rec |-> rec, at |-> step]
  <1>1. c \in Command
    BY DEF RegInv, RegTypeOK, Command
  <1>2. cmd' = [cmd EXCEPT ![k] = c] /\ UNCHANGED <<registry, clone, dirty>>
    BY DEF Begin
  <1>3. RegTypeOK'
    BY <1>1, <1>2 DEF RegInv, RegTypeOK
  <1>4. KeepsUrl(c) /\ Fits(c)
    BY DEF KeepsUrl, Fits
  <1>5. cmd'[k] = c /\ \A j \in Call \ {k} : cmd'[j] = cmd[j]
    BY <1>2 DEF RegInv, RegTypeOK
  <1>6. CommandsFit'
    <2> SUFFICES ASSUME NEW j \in Call, cmd'[j] # None PROVE KeepsUrl(cmd'[j]) /\ Fits(cmd'[j])
      BY DEF CommandsFit, Running, KeepsUrl, Fits
    <2>1. j # k => cmd[j] # None /\ KeepsUrl(cmd[j]) /\ Fits(cmd[j])
      BY <1>5 DEF RegInv, CommandsFit, Running
    <2> QED BY <1>4, <1>5, <2>1
  <1> QED BY <1>3, <1>6 DEF RegInv

(* Work on the clone changes the step and the url of the command.           *)
LEMMA WorkStep ==
  ASSUME RegInv, NEW k \in Call, Running(k), NEW step \in Step,
         NEW url \in OptUrl, NEW dir \in Clone \cup {None}, Work(k, step, url, dir),
         cmd[k].rec.url # None => url # None, StepFits(step, cmd[k].rec.state)
  PROVE  RegInv'
  <1> DEFINE r == [cmd[k].rec EXCEPT !.url = url]
             c == [cmd[k] EXCEPT !.at = step, !.rec = r]
  <1>1. /\ cmd[k] \in Command /\ cmd[k].rec \in Record /\ Target(k) \in Slug
    BY CmdTyped DEF RegInv
  <1>2. r \in Record
    BY <1>1 DEF Record
  <1>3. c \in Command
    BY <1>1, <1>2 DEF Command
  <1>4. cmd' = [cmd EXCEPT ![k] = c]
    BY DEF Work, RegInv, RegTypeOK
  <1>5. RegTypeOK'
    BY <1>1, <1>3, <1>4 DEF Work, RegInv, RegTypeOK
  <1>6. cmd'[k] = c /\ \A j \in Call \ {k} : cmd'[j] = cmd[j]
    BY <1>4 DEF RegInv, RegTypeOK
  <1>7. c.seen = cmd[k].seen /\ c.name = cmd[k].name /\ c.rec = r /\ c.at = step
    BY <1>1 DEF Command
  <1>8. r.url = url /\ r.state = cmd[k].rec.state /\ r.slug = cmd[k].rec.slug
    BY <1>1 DEF Record
  <1>9. KeepsUrl(c) /\ Fits(c)
    <2>1. KeepsUrl(cmd[k]) /\ Fits(cmd[k])
      BY DEF RegInv, CommandsFit
    <2> HIDE DEF c, r
    <2> QED BY <1>7, <1>8, <2>1 DEF KeepsUrl, Fits
  <1> HIDE DEF c
  <1>10. CommandsFit'
    <2> SUFFICES ASSUME NEW j \in Call, cmd'[j] # None PROVE KeepsUrl(cmd'[j]) /\ Fits(cmd'[j])
      BY DEF CommandsFit, Running, KeepsUrl, Fits
    <2>1. j # k => cmd[j] # None /\ KeepsUrl(cmd[j]) /\ Fits(cmd[j])
      BY <1>6 DEF RegInv, CommandsFit, Running
    <2> QED BY <1>6, <1>9, <2>1
  <1> QED BY <1>5, <1>10 DEF RegInv

(* A command that ends leaves the others as they are.                       *)
LEMMA EndStep ==
  ASSUME RegInv, NEW k \in Call, cmd' = [cmd EXCEPT ![k] = None],
         registry' \in Registries, clone' \in [Slug -> Clone \cup {None}], dirty' \subseteq Slug
  PROVE  RegInv'
  <1>1. RegTypeOK'
    BY DEF RegInv, RegTypeOK
  <1>2. \A j \in Call : cmd'[j] # None => cmd'[j] = cmd[j]
    BY DEF RegInv, RegTypeOK
  <1>3. CommandsFit'
    BY <1>2 DEF RegInv, CommandsFit, Running, KeepsUrl, Fits
  <1> QED BY <1>1, <1>3 DEF RegInv

-----------------------------------------------------------------------------

LEMMA BeginsKeep ==
  ASSUME RegInv, NEW k \in Call,
         \/ \E n \in Name, slug \in Slug, url \in OptUrl : Create(k, n, slug, url)
         \/ \E n \in Name, url \in OptUrl : Update(k, n, url)
         \/ \E n \in Name : Alive(k, n) \/ Dead(k, n)
  PROVE  RegInv'
  <1>1. ASSUME NEW n \in Name, NEW slug \in Slug, NEW url \in OptUrl, Create(k, n, slug, url)
        PROVE  RegInv'
    <2>1. [slug |-> slug, url |-> url, state |-> "DEAD"] \in Record
      BY DEF Record
    <2> QED BY <1>1, <2>1, BeginStep DEF Create, Step, StepFits
  <1>2. ASSUME NEW n \in Name, registry[n] # None
        PROVE  registry[n] \in Record
    BY <1>2 DEF RegInv, RegTypeOK, Registries
  <1>3. ASSUME NEW n \in Name, NEW url \in OptUrl, Update(k, n, url)
        PROVE  RegInv'
    <2> DEFINE r == [registry[n] EXCEPT !.url = url]
    <2>1. registry[n] \in Record /\ Begin(k, n, "save", r)
      BY <1>2, <1>3 DEF Update
    <2>2. r \in Record /\ r.state = registry[n].state /\ r.slug = registry[n].slug
      BY <2>1 DEF Record
    <2> HIDE DEF r
    <2> QED BY <2>1, <2>2, BeginStep DEF Step, StepFits
  <1>4. ASSUME NEW n \in Name, Alive(k, n)
        PROVE  RegInv'
    <2> DEFINE r == [registry[n] EXCEPT !.state = "ALIVE"]
    <2>1. registry[n] \in Record /\ Begin(k, n, "clone", r)
      BY <1>2, <1>4 DEF Alive
    <2>2. r \in Record /\ r.url = registry[n].url /\ r.slug = registry[n].slug /\ r.state = "ALIVE"
      BY <2>1 DEF Record
    <2> HIDE DEF r
    <2> QED BY <2>1, <2>2, BeginStep DEF Step, StepFits
  <1>5. ASSUME NEW n \in Name, Dead(k, n)
        PROVE  RegInv'
    <2> DEFINE r == [registry[n] EXCEPT !.state = "DEAD"]
    <2>1. registry[n] \in Record /\ Begin(k, n, "remove", r)
      BY <1>2, <1>5 DEF Dead
    <2>2. r \in Record /\ r.url = registry[n].url /\ r.slug = registry[n].slug /\ r.state = "DEAD"
      BY <2>1 DEF Record
    <2> HIDE DEF r
    <2> QED BY <2>1, <2>2, BeginStep DEF Step, StepFits
  <1> QED BY <1>1, <1>3, <1>4, <1>5

(* The origin that a command learns is one it may save.                     *)
LEMMA LearnedTyped ==
  ASSUME RegTypeOK, NEW k \in Call, Running(k), clone[Target(k)] # None, NEW url \in Learned(k)
  PROVE  /\ url \in OptUrl /\ (cmd[k].rec.url # None => url # None)
         /\ clone[Target(k)] \in Clone
         /\ [clone[Target(k)] EXCEPT !.whole = FALSE] \in Clone
  <1>1. clone[Target(k)] \in Clone
    BY CmdTyped DEF RegTypeOK
  <1>2. [clone[Target(k)] EXCEPT !.whole = FALSE] \in Clone
    BY <1>1 DEF Clone
  <1>3. clone[Target(k)].url \in OptUrl
    BY <1>1 DEF Clone
  <1> QED BY <1>1, <1>2, <1>3, CmdTyped DEF Learned, Origins, OptUrl

LEMMA WorkKeeps ==
  ASSUME RegInv, NEW k \in Call,
         \/ FindClone(k) \/ StartClone(k) \/ FinishClone(k)
         \/ StartRemove(k) \/ FinishRemove(k)
  PROVE  RegInv'
  <1>0. RegTypeOK /\ Running(k)
    BY DEF RegInv, FindClone, StartClone, FinishClone, StartRemove, FinishRemove, At
  <1>u. cmd[k].rec.url \in OptUrl
    BY <1>0, CmdTyped
  <1>f. StepFits(cmd[k].at, cmd[k].rec.state)
    BY <1>0 DEF RegInv, CommandsFit, Fits
  <1>1. CASE FindClone(k)
    BY <1>0, <1>1, <1>f, LearnedTyped, WorkStep DEF FindClone, Step, StepFits, At
  <1>2. CASE StartClone(k)
    <2>1. [url |-> cmd[k].rec.url, whole |-> FALSE] \in Clone
      BY <1>u DEF Clone
    <2> QED BY <1>0, <1>2, <1>f, <1>u, <2>1, WorkStep DEF StartClone, Step, StepFits, At
  <1>3. CASE FinishClone(k)
    <2>1. [url |-> cmd[k].rec.url, whole |-> TRUE] \in Clone
      BY <1>u DEF Clone
    <2> QED BY <1>0, <1>3, <1>f, <1>u, <2>1, WorkStep DEF FinishClone, Step, StepFits, At
  <1>4. CASE StartRemove(k)
    BY <1>0, <1>4, <1>f, LearnedTyped, WorkStep DEF StartRemove, Step, StepFits, At
  <1>5. CASE FinishRemove(k)
    BY <1>0, <1>5, <1>f, <1>u, WorkStep DEF FinishRemove, Step, StepFits, At
  <1> QED BY <1>1, <1>2, <1>3, <1>4, <1>5

LEMMA SlugsTyped ==
  ASSUME NEW reg \in Registries, NEW names \in SUBSET Name
  PROVE  SlugsOf(reg, names) \subseteq Slug
  BY DEF SlugsOf, Registries, Record

LEMMA EndsKeep ==
  ASSUME RegInv, NEW k \in Call, CannotClone(k) \/ FailClone(k) \/ Save(k) \/ Kill(k)
  PROVE  RegInv'
  <1>1. RegTypeOK /\ Running(k)
    BY DEF RegInv, CannotClone, FailClone, Save, Kill, At
  <1>2. /\ Target(k) \in Slug /\ cmd[k].seen \in Registries /\ cmd[k].name \in Name
        /\ cmd[k].rec \in Record /\ cmd[k].rec.url \in OptUrl
    BY <1>1, CmdTyped
  <1>3. CASE CannotClone(k) \/ FailClone(k)
    BY <1>1, <1>2, <1>3, EndStep DEF CannotClone, FailClone, Fail, RegTypeOK
  <1>4. CASE Save(k)
    <2>1. registry' \in Registries
      BY <1>2, <1>4 DEF Save, Saved, Registries
    <2>2. Reverted(k) \subseteq Slug
      BY <1>1, <1>2, SlugsTyped DEF Reverted, Stale, RegTypeOK
    <2>3. dirty' \subseteq Slug
      BY <1>1, <1>2, <1>4, <2>2 DEF Save, RegTypeOK
    <2> QED BY <1>1, <1>4, <2>1, <2>3, EndStep DEF Save, RegTypeOK
  <1>5. CASE Kill(k)
    <2>1. \A dir \in {None} \cup [url : {cmd[k].rec.url}, whole : BOOLEAN] : dir \in Clone \cup {None}
      BY <1>2 DEF Clone
    <2>2. clone[Target(k)] \in Clone \cup {None}
      BY <1>1, <1>2 DEF RegTypeOK
    <2>3. clone' \in [Slug -> Clone \cup {None}]
      BY <1>1, <1>2, <1>5, <2>1, <2>2 DEF Kill, RegTypeOK
    <2> QED BY <1>1, <1>2, <1>5, <2>3, EndStep DEF Kill, RegTypeOK
  <1> QED BY <1>3, <1>4, <1>5

LEMMA RegInvHolds == RegSpec => []RegInv
  <1>1. RegInit => RegInv
    <2> SUFFICES ASSUME RegInit PROVE RegInv
      OBVIOUS
    <2>1. Leftover \subseteq Clone
      BY RegistryAssumption DEF Clone
    <2>2. RegTypeOK
      BY <2>1 DEF RegInit, RegTypeOK, Registries
    <2> QED BY <2>2 DEF RegInit, RegInv, CommandsFit, Running
  <1>2. RegInv /\ [RegNext]_regVars => RegInv'
    <2> SUFFICES ASSUME RegInv, [RegNext]_regVars PROVE RegInv'
      OBVIOUS
    <2>1. CASE UNCHANGED regVars
      BY <2>1 DEF regVars, RegInv, RegTypeOK, CommandsFit, Running, KeepsUrl, Fits
    <2> QED BY <2>1, BeginsKeep, WorkKeeps, EndsKeep DEF RegNext, RegStep
  <1> QED BY <1>1, <1>2, PTL DEF RegSpec

-----------------------------------------------------------------------------

(* spec_contexts.json, the clones and the commands of service.ts hold       *)
(* values of their kind, whatever overlaps or dies.                         *)
THEOREM RegTypeCorrect == RegSpec => []RegTypeOK
  <1>1. RegInv => RegTypeOK
    BY DEF RegInv
  <1> QED BY <1>1, RegInvHolds, PTL

(* A save of service.ts loses a context or its url only when the registry   *)
(* it loaded was no longer the one on file, or when update was asked to:    *)
(* for any number of commands side by side.                                *)
THEOREM LossNeedsAStaleSaveHolds == RegSpec => LossNeedsAStaleSave
  <1> DEFINE Lost(n, k) == /\ At(k, "save") /\ ~Running(k)'
                           /\ \/ Stale(k) # {}
                              \/ cmd[k].name = n /\ cmd[k].rec.state = registry[n].state
             Kept(n) == registry'[n] # None /\ (registry[n].url = None \/ registry'[n].url # None)
  <1>1. ASSUME RegInv, [RegNext]_regVars, NEW n \in Name, registry[n] # None
        PROVE  Kept(n) \/ \E k \in Call : Lost(n, k)
    <2>1. CASE registry' = registry
      BY <1>1, <2>1
    <2>2. ASSUME NEW k \in Call, Save(k)
          PROVE  Kept(n) \/ Lost(n, k)
      <3>1. At(k, "save") /\ Running(k)
        BY <2>2 DEF Save, At
      <3>2. ~Running(k)'
        BY <1>1, <2>2 DEF Save, Running, RegInv, RegTypeOK
      <3>3. /\ cmd[k].seen \in Registries /\ cmd[k].rec \in Record /\ cmd[k].name \in Name
            /\ KeepsUrl(cmd[k])
        BY <1>1, <3>1, CmdTyped DEF RegInv, CommandsFit
      <3>4. CASE Stale(k) # {}
        BY <3>1, <3>2, <3>4
      <3>5. CASE Stale(k) = {}
        <4>1. registry[n] = cmd[k].seen[n]
          BY <3>5 DEF Stale
        <4>2. registry'[n] = IF n = cmd[k].name THEN cmd[k].rec ELSE cmd[k].seen[n]
          BY <2>2, <3>3 DEF Save, Saved, Registries
        <4>3. CASE n = cmd[k].name
          <5>1. registry'[n] # None
            BY <3>3, <4>2, <4>3, RegistryAssumption
          <5> QED BY <1>1, <3>1, <3>2, <3>3, <4>1, <4>2, <4>3, <5>1 DEF KeepsUrl
        <4>4. CASE n # cmd[k].name
          BY <1>1, <4>1, <4>2, <4>4
        <4> QED BY <4>3, <4>4
      <3> QED BY <3>4, <3>5
    <2> QED BY <1>1, <2>1, <2>2 DEF RegNext, RegStep, regVars, Create, Update, Alive, Dead, Begin,
               FindClone, CannotClone, StartClone, FinishClone, FailClone, StartRemove,
               FinishRemove, Work, Fail, Kill
  <1>2. RegInv /\ [RegNext]_regVars =>
          [\A n \in Name : registry[n] # None =>
             \/ registry'[n] # None /\ (registry[n].url = None \/ registry'[n].url # None)
             \/ \E k \in Call : /\ At(k, "save") /\ ~Running(k)'
                                /\ \/ Stale(k) # {}
                                   \/ cmd[k].name = n /\ cmd[k].rec.state = registry[n].state]_regVars
    BY <1>1
  <1> QED BY <1>2, RegInvHolds, PTL DEF RegSpec, LossNeedsAStaleSave

-----------------------------------------------------------------------------
(* How far the commands on a slug are, while nothing went wrong on it.      *)

Crew(slug) == {k \in Call : Running(k) /\ Target(k) = slug}
Whole(slug) == clone[slug] # None /\ clone[slug].whole

(* A clone is incomplete only while a command makes it or removes it.       *)
HalfDone(slug) ==
  clone[slug] # None /\ ~clone[slug].whole =>
    \E k \in Crew(slug) : cmd[k].at \in {"cloning", "removing"}

CloningIsNew(k) == cmd[k].at = "cloning" => ~Whole(Target(k))

OriginIsHeld(k) ==
  cmd[k].at = "removing" =>
    \/ cmd[k].rec.url # None
    \/ clone[Target(k)] = None
    \/ clone[Target(k)].url = None

SeenUsers(k) == {n \in Name : cmd[k].seen[n] # None /\ cmd[k].seen[n].slug = Target(k)}

(* Who is about to save an ALIVE record of its own has a clone for it.      *)
SavesAClone(k) ==
  cmd[k].at = "save" /\ cmd[k].rec.state = "ALIVE" /\ SeenUsers(k) \subseteq {cmd[k].name} =>
    ~Alone(k) \/ Whole(Target(k))

CrewKnows(slug) == \A k \in Crew(slug) : CloningIsNew(k) /\ OriginIsHeld(k) /\ SavesAClone(k)

(* The only user of a slug may be ALIVE without a clone while a dead on it  *)
(* has not saved yet, or two commands on it are about to cross.             *)
Excuses(k) ==
  ~Alone(k) \/ cmd[k].at = "removing" \/ (cmd[k].at = "save" /\ cmd[k].rec.state = "DEAD")

OnlyAlive(n, slug) ==
  registry[n] # None /\ registry[n].state = "ALIVE" /\ Users(slug) = {n} /\ registry[n].slug = slug

AliveIsWhole(slug) ==
  \A n \in Name : OnlyAlive(n, slug) => Whole(slug) \/ \E k \in Crew(slug) : Excuses(k)

Settled(slug) == HalfDone(slug) /\ CrewKnows(slug) /\ AliveIsWhole(slug)

SlugInv == \A slug \in Slug : slug \in dirty \/ Settled(slug)

-----------------------------------------------------------------------------

(* What every step of a running command leaves alone, and what it must own  *)
(* up to when another command runs on its slug.                             *)
Touches(k) ==
  /\ Running(k) /\ Target(k) \in Slug
  /\ \A j \in Call \ {k} : cmd'[j] = cmd[j]
  /\ cmd'[k] # None => cmd'[k].rec.slug = cmd[k].rec.slug
  /\ \A slug \in Slug \ {Target(k)} : clone'[slug] = clone[slug]
  /\ \A slug \in Slug \ {Target(k)} : slug \in dirty => slug \in dirty'
  /\ ~Alone(k) => Target(k) \in dirty'

LEMMA WorkTouches ==
  ASSUME RegInv, NEW k \in Call, Running(k), NEW step \in Step, NEW url \in OptUrl,
         NEW dir, Work(k, step, url, dir)
  PROVE  /\ Touches(k) /\ dirty \subseteq dirty' /\ registry' = registry
         /\ clone'[Target(k)] = dir
         /\ cmd'[k] # None /\ cmd'[k].at = step /\ cmd'[k].rec.url = url
         /\ cmd'[k].rec.state = cmd[k].rec.state /\ cmd'[k].rec.slug = cmd[k].rec.slug
         /\ cmd'[k].seen = cmd[k].seen /\ cmd'[k].name = cmd[k].name
  <1>1. cmd[k] \in Command /\ cmd[k].rec \in Record /\ Target(k) \in Slug
    BY CmdTyped DEF RegInv
  <1> DEFINE r == [cmd[k].rec EXCEPT !.url = url]
             c == [cmd[k] EXCEPT !.at = step, !.rec = r]
  <1>2. cmd' = [cmd EXCEPT ![k] = c]
    BY DEF Work, RegInv, RegTypeOK
  <1>3. cmd'[k] = c /\ \A j \in Call \ {k} : cmd'[j] = cmd[j]
    BY <1>2 DEF RegInv, RegTypeOK
  <1>4. r.url = url /\ r.state = cmd[k].rec.state /\ r.slug = cmd[k].rec.slug
    BY <1>1 DEF Record
  <1>5. c.seen = cmd[k].seen /\ c.name = cmd[k].name /\ c.rec = r /\ c.at = step
    BY <1>1 DEF Command
  <1>6. c # None
    <2>1. r \in Record
      BY <1>1 DEF Record
    <2>2. c \in Command
      BY <1>1, <2>1 DEF Command
    <2> QED BY <2>2, RegistryAssumption
  <1>7. /\ clone'[Target(k)] = dir
        /\ \A slug \in Slug \ {Target(k)} : clone'[slug] = clone[slug]
    BY <1>1 DEF Work, RegInv, RegTypeOK
  <1>8. dirty \subseteq dirty' /\ (~Alone(k) => Target(k) \in dirty') /\ registry' = registry
    BY DEF Work
  <1> HIDE DEF r, c
  <1> QED BY <1>1, <1>3, <1>4, <1>5, <1>6, <1>7, <1>8 DEF Touches, Target

LEMMA EndTouches ==
  ASSUME RegInv, NEW k \in Call, CannotClone(k) \/ FailClone(k) \/ Save(k) \/ Kill(k)
  PROVE  Touches(k) /\ cmd'[k] = None
  <1>1. Running(k) /\ Target(k) \in Slug
    BY CmdTyped DEF RegInv, CannotClone, FailClone, Save, Kill, At
  <1>2. cmd' = [cmd EXCEPT ![k] = None]
    BY DEF CannotClone, FailClone, Fail, Save, Kill
  <1>3. cmd'[k] = None /\ \A j \in Call \ {k} : cmd'[j] = cmd[j]
    BY <1>2 DEF RegInv, RegTypeOK
  <1>4. \A slug \in Slug \ {Target(k)} : clone'[slug] = clone[slug]
    BY <1>1 DEF RegInv, RegTypeOK, CannotClone, FailClone, Fail, Save, Kill
  <1>5. \A slug \in Slug \ {Target(k)} : slug \in dirty => slug \in dirty'
    BY DEF CannotClone, FailClone, Fail, Save, Kill, Repaired
  <1>6. ~Alone(k) => Target(k) \in dirty'
    BY DEF CannotClone, FailClone, Fail, Save, Kill
  <1> QED BY <1>1, <1>3, <1>4, <1>5, <1>6 DEF Touches

(* On the other slugs nothing moves.                                        *)
LEMMA Elsewhere ==
  ASSUME NEW k \in Call, Touches(k), NEW slug \in Slug, slug # Target(k)
  PROVE  /\ Crew(slug)' = Crew(slug)
         /\ \A j \in Crew(slug) : j \in Call /\ cmd'[j] = cmd[j] /\ (Alone(j)' <=> Alone(j))
         /\ clone'[slug] = clone[slug]
         /\ slug \in dirty => slug \in dirty'
  <1>1. /\ \A j \in Call \ {k} : cmd'[j] = cmd[j]
        /\ cmd[k] # None /\ cmd[k].rec.slug # slug
        /\ cmd'[k] # None => cmd'[k].rec.slug # slug
    BY DEF Touches, Target, Running
  <1>2. Crew(slug)' = Crew(slug)
    BY <1>1 DEF Crew, Running, Target
  <1>3. ASSUME NEW j \in Crew(slug)
        PROVE  j \in Call /\ cmd'[j] = cmd[j] /\ (Alone(j)' <=> Alone(j))
    BY <1>1, <1>3 DEF Crew, Running, Target, Alone
  <1> QED BY <1>2, <1>3 DEF Touches

LEMMA ElsewhereSettled ==
  ASSUME NEW k \in Call, Touches(k), NEW slug \in Slug, slug # Target(k)
  PROVE  /\ HalfDone(slug) => HalfDone(slug)'
         /\ CrewKnows(slug) => CrewKnows(slug)'
         /\ registry' = registry /\ AliveIsWhole(slug) => AliveIsWhole(slug)'
  <1> USE Elsewhere
  <1>1. HalfDone(slug) => HalfDone(slug)'
    BY DEF HalfDone
  <1>2. CrewKnows(slug) => CrewKnows(slug)'
    <2> SUFFICES ASSUME CrewKnows(slug), NEW j \in Crew(slug)
                 PROVE  (CloningIsNew(j) /\ OriginIsHeld(j) /\ SavesAClone(j))'
      BY DEF CrewKnows
    <2>1. cmd'[j] = cmd[j] /\ cmd[j].rec.slug = slug /\ (Alone(j)' <=> Alone(j))
      BY DEF Crew, Target
    <2>2. CloningIsNew(j) /\ OriginIsHeld(j) /\ SavesAClone(j)
      BY DEF CrewKnows
    <2> QED BY <2>1, <2>2 DEF CloningIsNew, OriginIsHeld, SavesAClone, SeenUsers, Whole, Target
  <1>3. registry' = registry /\ AliveIsWhole(slug) => AliveIsWhole(slug)'
    BY DEF AliveIsWhole, OnlyAlive, Users, Whole, Excuses
  <1> QED BY <1>1, <1>2, <1>3

(* A slug that stays clean has only the command that touches it.            *)
LEMMA AloneAtHome ==
  ASSUME NEW k \in Call, Touches(k), NEW slug \in Slug, slug = Target(k), slug \notin dirty'
  PROVE  /\ Alone(k) /\ Crew(slug) = {k}
         /\ cmd'[k] # None => Crew(slug)' = {k} /\ Alone(k)'
         /\ cmd'[k] = None => Crew(slug)' = {}
  <1>1. Alone(k) /\ cmd[k] # None /\ cmd[k].rec.slug = slug
    BY DEF Touches, Running, Target
  <1>2. \A j \in Call : cmd'[j] # None /\ cmd'[j].rec.slug = slug => j = k
    BY <1>1 DEF Touches, Alone, Running, Target
  <1>3. Crew(slug) = {k}
    BY <1>1 DEF Alone, Crew, Running, Target
  <1>4. cmd'[k] # None => cmd'[k].rec.slug = slug
    BY <1>1 DEF Touches
  <1>5. cmd'[k] # None => Alone(k)'
    BY <1>2, <1>4 DEF Alone, Running, Target
  <1>6. /\ cmd'[k] # None => Crew(slug)' = {k}
        /\ cmd'[k] = None => Crew(slug)' = {}
    BY <1>2, <1>4 DEF Crew, Running, Target
  <1> QED BY <1>1, <1>3, <1>5, <1>6

-----------------------------------------------------------------------------

(* The four steps of a lone command over the slug it works on.              *)
LEMMA WorkSettles ==
  ASSUME RegInv, NEW k \in Call, NEW slug \in Slug, slug = Target(k),
         slug \notin dirty', Settled(slug),
         NEW step \in Step, NEW url \in OptUrl, NEW dir, Work(k, step, url, dir), Running(k),
         dir # None /\ ~dir.whole => step \in {"cloning", "removing"},
         step = "cloning" => dir # None /\ ~dir.whole,
         step = "removing" => url # None \/ dir = None \/ dir.url = None,
         step = "save" /\ cmd[k].rec.state = "ALIVE" => dir # None /\ dir.whole,
         \/ dir # None /\ dir.whole
         \/ step = "removing"
         \/ step = "save" /\ cmd[k].rec.state = "DEAD"
         \/ ~Whole(slug) /\ ~Excuses(k)
  PROVE  Settled(slug)'
  <1>1. /\ Touches(k) /\ registry' = registry
        /\ clone'[slug] = dir
        /\ cmd'[k] # None /\ cmd'[k].at = step /\ cmd'[k].rec.url = url
        /\ cmd'[k].rec.state = cmd[k].rec.state /\ cmd'[k].rec.slug = slug
    BY WorkTouches DEF Target
  <1>2. Crew(slug) = {k} /\ Crew(slug)' = {k} /\ Alone(k)'
    BY <1>1, AloneAtHome
  <1>3. HalfDone(slug)'
    BY <1>1, <1>2 DEF HalfDone
  <1>4. CrewKnows(slug)'
    <2>1. (CloningIsNew(k) /\ OriginIsHeld(k) /\ SavesAClone(k))'
      BY <1>1, <1>2 DEF CloningIsNew, OriginIsHeld, SavesAClone, Whole, Target
    <2> QED BY <1>2, <2>1 DEF CrewKnows
  <1>5. AliveIsWhole(slug)'
    <2> SUFFICES ASSUME NEW n \in Name, OnlyAlive(n, slug)
                 PROVE  (Whole(slug) \/ \E j \in Crew(slug) : Excuses(j))'
      BY <1>1 DEF AliveIsWhole, OnlyAlive, Users
    <2>1. Whole(slug) \/ Excuses(k)
      BY <1>2 DEF Settled, AliveIsWhole
    <2>2. (Whole(slug) \/ Excuses(k))'
      BY <1>1, <2>1 DEF Whole, Excuses
    <2> QED BY <1>2, <2>2
  <1> QED BY <1>3, <1>4, <1>5 DEF Settled

LEMMA WorkKeepsSlugs ==
  ASSUME RegInv, SlugInv, NEW k \in Call,
         \/ FindClone(k) \/ StartClone(k) \/ FinishClone(k)
         \/ StartRemove(k) \/ FinishRemove(k)
  PROVE  SlugInv'
  <1> DEFINE t == Target(k)
  <1>0. RegTypeOK /\ Running(k)
    BY DEF RegInv, FindClone, StartClone, FinishClone, StartRemove, FinishRemove, At
  <1>1. t \in Slug /\ cmd[k].rec.url \in OptUrl
    BY <1>0, CmdTyped
  <1>2. StepFits(cmd[k].at, cmd[k].rec.state)
    BY <1>0 DEF RegInv, CommandsFit, Fits
  <1>3. PICK step \in Step, url \in OptUrl : \E dir : Work(k, step, url, dir)
    <2>1. CASE FindClone(k)
      BY <1>0, <2>1, LearnedTyped DEF FindClone, Step
    <2>2. CASE StartRemove(k)
      BY <1>0, <2>2, LearnedTyped DEF StartRemove, Step
    <2> QED BY <1>1, <2>1, <2>2 DEF StartClone, FinishClone, FinishRemove, Step
  <1>4. Touches(k) /\ dirty \subseteq dirty' /\ registry' = registry
    BY <1>0, <1>3, WorkTouches
  <1>5. ASSUME NEW slug \in Slug \ {t}
        PROVE  slug \in dirty' \/ Settled(slug)'
    BY <1>4, <1>5, Elsewhere, ElsewhereSettled DEF SlugInv, Settled
  <1>6. ASSUME NEW slug \in Slug, slug = t, slug \notin dirty'
        PROVE  Settled(slug)'
    <2>1. Settled(slug)
      BY <1>4, <1>6 DEF SlugInv
    <2>2. Alone(k) /\ Crew(slug) = {k}
      BY <1>4, <1>6, AloneAtHome
    <2>3. /\ clone[slug] # None /\ ~clone[slug].whole => cmd[k].at \in {"cloning", "removing"}
          /\ CloningIsNew(k) /\ OriginIsHeld(k)
      BY <2>1, <2>2 DEF Settled, HalfDone, CrewKnows
    <2>4. CASE FindClone(k)
      <3>1. At(k, "clone") /\ clone[slug] # None /\ clone[slug].whole
        BY <1>6, <2>3, <2>4 DEF FindClone, At
      <3> QED BY <1>0, <1>2, <1>6, <2>1, <2>4, <3>1, LearnedTyped, WorkSettles
              DEF FindClone, At, Step, StepFits
    <2>5. CASE StartClone(k)
      <3>1. ~Whole(slug) /\ ~Excuses(k)
        BY <1>6, <2>2, <2>5 DEF StartClone, At, Whole, Excuses
      <3> DEFINE dir == [url |-> cmd[k].rec.url, whole |-> FALSE]
      <3>2. /\ dir \in Clone /\ dir.whole = FALSE
            /\ Work(k, "cloning", cmd[k].rec.url, dir)
        <4>1. Work(k, "cloning", cmd[k].rec.url, dir)
          BY <2>5 DEF StartClone
        <4>2. dir \in Clone
          BY <1>1 DEF Clone
        <4> QED BY <4>1, <4>2
      <3> HIDE DEF dir
      <3>3. dir # None
        BY <3>2, RegistryAssumption
      <3> QED BY <1>0, <1>1, <1>6, <2>1, <3>1, <3>2, <3>3, WorkSettles DEF Step
    <2>6. CASE FinishClone(k)
      <3> DEFINE dir == [url |-> cmd[k].rec.url, whole |-> TRUE]
      <3>1. /\ dir \in Clone /\ dir.whole = TRUE
            /\ Work(k, "save", cmd[k].rec.url, dir)
        <4>1. Work(k, "save", cmd[k].rec.url, dir)
          BY <2>6 DEF FinishClone
        <4>2. dir \in Clone
          BY <1>1 DEF Clone
        <4> QED BY <4>1, <4>2
      <3> HIDE DEF dir
      <3>2. dir # None
        BY <3>1, RegistryAssumption
      <3> QED BY <1>0, <1>1, <1>6, <2>1, <3>1, <3>2, WorkSettles DEF Step
    <2>7. CASE StartRemove(k)
      <3>1. At(k, "remove") /\ clone[slug] # None /\ clone[slug].whole /\ clone[slug] \in Clone
        BY <1>0, <1>6, <2>3, <2>7, LearnedTyped DEF StartRemove, At
      <3> DEFINE dir == [clone[slug] EXCEPT !.whole = FALSE]
      <3>2. PICK u \in Learned(k) : Work(k, "removing", u, dir)
        BY <1>6, <2>7 DEF StartRemove
      <3>3. u \in OptUrl
        BY <1>0, <1>6, <3>1, LearnedTyped
      <3>4. dir # None /\ dir.whole = FALSE /\ dir.url = clone[slug].url
        <4>1. dir \in Clone /\ dir.whole = FALSE /\ dir.url = clone[slug].url
          BY <3>1 DEF Clone
        <4> QED BY <4>1, RegistryAssumption
      <3>5. u # None \/ clone[slug].url = None
        BY <1>6, <3>1 DEF Learned, Origins
      <3> HIDE DEF dir
      <3> QED BY <1>0, <1>6, <2>1, <3>2, <3>3, <3>4, <3>5, WorkSettles DEF Step
    <2>8. CASE FinishRemove(k)
      <3>1. cmd[k].rec.state = "DEAD" /\ Work(k, "save", cmd[k].rec.url, None)
        BY <1>2, <2>8 DEF FinishRemove, At, StepFits
      <3> QED BY <1>0, <1>1, <1>6, <2>1, <3>1, WorkSettles DEF Step
    <2> QED BY <2>4, <2>5, <2>6, <2>7, <2>8
  <1> QED BY <1>1, <1>5, <1>6 DEF SlugInv

(* A command that begins joins the crew of its slug.                        *)
LEMMA BeginKeepsSlugs ==
  ASSUME RegInv, SlugInv, NEW k \in Call, NEW n \in Name, NEW step \in {"save", "clone", "remove"},
         NEW rec \in Record, Begin(k, n, step, rec),
         step = "save" /\ rec.state = "ALIVE" =>
           registry[n] # None /\ registry[n].slug = rec.slug /\ registry[n].state = "ALIVE"
  PROVE  SlugInv'
  <1> DEFINE c == [name |-> n, seen |-> registry, rec |-> rec, at |-> step]
  <1>1. /\ cmd' = [cmd EXCEPT ![k] = c] /\ UNCHANGED <<registry, clone, dirty>>
        /\ cmd[k] = None
    BY DEF Begin, Running
  <1>2. cmd'[k] = c /\ \A j \in Call \ {k} : cmd'[j] = cmd[j]
    BY <1>1 DEF RegInv, RegTypeOK
  <1> SUFFICES ASSUME NEW slug \in Slug, slug \notin dirty, Settled(slug)
               PROVE  Settled(slug)'
    BY <1>1 DEF SlugInv
  <1>4. \A j \in Crew(slug) : /\ j \in Call /\ j # k /\ cmd'[j] = cmd[j] /\ cmd[j].rec.slug = slug
                              /\ j \in Crew(slug)' /\ (~Alone(j) => ~Alone(j)')
    BY <1>1, <1>2 DEF Crew, Running, Target, Alone
  <1>5. \A j \in Crew(slug)' : j \in Crew(slug) \/ (j = k /\ rec.slug = slug)
    BY <1>2 DEF Crew, Running, Target
  <1>6. HalfDone(slug)'
    BY <1>1, <1>4 DEF HalfDone, Settled
  <1>7. AliveIsWhole(slug)'
    <2> SUFFICES ASSUME NEW o \in Name, OnlyAlive(o, slug)
                 PROVE  (Whole(slug) \/ \E j \in Crew(slug) : Excuses(j))'
      BY <1>1 DEF AliveIsWhole, OnlyAlive, Users
    <2>1. Whole(slug) \/ \E j \in Crew(slug) : Excuses(j)
      BY DEF Settled, AliveIsWhole
    <2>2. \A j \in Crew(slug) : Excuses(j) => Excuses(j)'
      BY <1>4 DEF Excuses
    <2> QED BY <1>1, <1>4, <2>1, <2>2 DEF Whole
  <1>8. ASSUME NEW j \in Crew(slug)
        PROVE  (CloningIsNew(j) /\ OriginIsHeld(j) /\ SavesAClone(j))'
    <2>1. CloningIsNew(j) /\ OriginIsHeld(j) /\ SavesAClone(j)
      BY DEF Settled, CrewKnows
    <2> QED BY <1>1, <1>4, <2>1
            DEF CloningIsNew, OriginIsHeld, SavesAClone, SeenUsers, Whole, Target
  <1>9. ASSUME rec.slug = slug
        PROVE  (CloningIsNew(k) /\ OriginIsHeld(k) /\ SavesAClone(k))'
    <2>1. /\ cmd'[k].name = n /\ cmd'[k].seen = registry
          /\ cmd'[k].rec = rec /\ cmd'[k].at = step
      BY <1>2
    <2>2. (CloningIsNew(k) /\ OriginIsHeld(k))'
      BY <2>1 DEF CloningIsNew, OriginIsHeld
    <2>3. ASSUME step = "save", rec.state = "ALIVE", SeenUsers(k)' \subseteq {n}, Alone(k)'
          PROVE  Whole(slug)'
      <3>1. OnlyAlive(n, slug)
        BY <1>9, <2>1, <2>3 DEF OnlyAlive, Users, SeenUsers, Target
      <3>2. Crew(slug) = {}
        BY <1>4, <1>9, <2>1, <2>3 DEF Alone, Crew, Running, Target
      <3> QED BY <1>1, <3>1, <3>2 DEF Settled, AliveIsWhole, Whole
    <2> QED BY <1>9, <2>1, <2>2, <2>3 DEF SavesAClone, Target, Whole
  <1>10. CrewKnows(slug)'
    BY <1>5, <1>8, <1>9 DEF CrewKnows
  <1> QED BY <1>6, <1>7, <1>10 DEF Settled

(* A command that fails leaves no clone, one that dies a slug in doubt.     *)
LEMMA FailKeepsSlugs ==
  ASSUME RegInv, SlugInv, NEW k \in Call, CannotClone(k) \/ FailClone(k) \/ Kill(k)
  PROVE  SlugInv'
  <1>1. Touches(k) /\ cmd'[k] = None /\ registry' = registry /\ dirty \subseteq dirty'
    BY EndTouches DEF CannotClone, FailClone, Fail, Kill
  <1>2. ASSUME NEW slug \in Slug, slug # Target(k)
        PROVE  slug \in dirty' \/ Settled(slug)'
    BY <1>1, <1>2, Elsewhere, ElsewhereSettled DEF SlugInv, Settled
  <1>3. ASSUME NEW slug \in Slug, slug = Target(k), slug \notin dirty'
        PROVE  Settled(slug)'
    <2>1. Settled(slug) /\ Alone(k) /\ Crew(slug) = {k} /\ Crew(slug)' = {}
      BY <1>1, <1>3, AloneAtHome DEF SlugInv
    <2>2. CannotClone(k) \/ FailClone(k)
      BY <1>3 DEF Kill
    <2>3. clone'[slug] = None /\ ~Whole(slug) /\ ~Excuses(k)
      BY <1>3, <2>1, <2>2 DEF CannotClone, FailClone, Fail, At, Excuses, Whole, Settled,
         CrewKnows, CloningIsNew, RegInv, RegTypeOK
    <2>4. \A n \in Name : ~OnlyAlive(n, slug)
      BY <2>1, <2>3 DEF Settled, AliveIsWhole
    <2> QED BY <1>1, <2>1, <2>3, <2>4 DEF Settled, HalfDone, CrewKnows, AliveIsWhole,
            OnlyAlive, Users
  <1> QED BY <1>2, <1>3 DEF SlugInv

(* A save takes back what changed since its load, and owns up to it.        *)
LEMMA SaveKeepsSlugs ==
  ASSUME RegInv, SlugInv, NEW k \in Call, Save(k)
  PROVE  SlugInv'
  <1>1. At(k, "save") /\ Touches(k) /\ cmd'[k] = None /\ clone' = clone
    BY EndTouches DEF Save
  <1>2. Running(k) /\ cmd[k].at = "save" /\ RegTypeOK
    BY <1>1 DEF At, RegInv
  <1> DEFINE m == cmd[k].name
  <1>3. /\ cmd[k].seen \in Registries /\ m \in Name /\ cmd[k].rec \in Record
        /\ Target(k) \in Slug
        /\ cmd[k].seen[m] # None => cmd[k].seen[m].slug = Target(k)
    BY <1>2, CmdTyped DEF RegInv, CommandsFit, Fits, Target
  <1>4. \A n \in Name : registry'[n] = IF n = m THEN cmd[k].rec ELSE cmd[k].seen[n]
    BY <1>3 DEF Save, Saved, Registries
  <1>5. registry'[m] # None /\ registry'[m].slug = Target(k)
    BY <1>3, <1>4, RegistryAssumption DEF Target
  <1>6. ASSUME NEW slug \in Slug, slug # Target(k), slug \notin dirty'
        PROVE  Settled(slug)'
    <2>1. slug \notin dirty /\ Settled(slug) /\ slug \notin Reverted(k)
      BY <1>1, <1>6, Elsewhere DEF SlugInv, Save
    <2>2. ASSUME NEW n \in Name, OnlyAlive(n, slug)'
          PROVE  OnlyAlive(n, slug)
      <3>1. n # m /\ registry'[n] = cmd[k].seen[n] /\ cmd[k].seen[n] # None
            /\ cmd[k].seen[n].slug = slug
        BY <1>4, <1>5, <1>6, <2>2 DEF OnlyAlive
      <3>2. registry[n] = cmd[k].seen[n]
        BY <2>1, <3>1 DEF Reverted, SlugsOf, Stale
      <3>3. ASSUME NEW o \in Name, registry[o] # None, registry[o].slug = slug
            PROVE  o = n
        <4>1. registry[o] = cmd[k].seen[o]
          BY <2>1, <3>3 DEF Reverted, SlugsOf, Stale
        <4>2. o # m
          BY <1>3, <1>6, <3>3, <4>1
        <4>3. registry'[o] = registry[o]
          BY <1>4, <4>1, <4>2
        <4> QED BY <2>2, <3>3, <4>3 DEF OnlyAlive, Users
      <3>4. Users(slug) = {n}
        BY <3>1, <3>2, <3>3 DEF Users
      <3> QED BY <2>2, <3>1, <3>2, <3>4 DEF OnlyAlive
    <2>3. AliveIsWhole(slug)'
      <3> SUFFICES ASSUME NEW n \in Name, OnlyAlive(n, slug)'
                   PROVE  (Whole(slug) \/ \E j \in Crew(slug) : Excuses(j))'
        BY DEF AliveIsWhole
      <3>1. Whole(slug) \/ \E j \in Crew(slug) : Excuses(j)
        BY <2>1, <2>2 DEF Settled, AliveIsWhole
      <3> QED BY <1>1, <1>6, <3>1, Elsewhere DEF Whole, Excuses
    <2> QED BY <1>1, <1>6, <2>1, <2>3, ElsewhereSettled DEF Settled
  <1>7. ASSUME NEW slug \in Slug, slug = Target(k), slug \notin dirty'
        PROVE  Settled(slug)'
    <2>1. Alone(k) /\ Crew(slug) = {k} /\ Crew(slug)' = {}
      BY <1>1, <1>7, AloneAtHome
    <2>2. ASSUME NEW n \in Name, OnlyAlive(n, slug)'
          PROVE  n = m /\ cmd[k].rec.state = "ALIVE" /\ SeenUsers(k) \subseteq {m}
      <3>1. n = m
        BY <1>3, <1>5, <1>7, <2>2 DEF OnlyAlive, Users
      <3> QED BY <1>4, <1>7, <2>2, <3>1 DEF OnlyAlive, Users, SeenUsers
    <2>3. CASE slug \in dirty
      <3>1. cmd[k].rec.state = "DEAD" /\ clone[slug] = None
        BY <1>7, <2>3 DEF Save, Repaired
      <3> QED BY <1>1, <2>1, <2>2, <3>1 DEF Settled, HalfDone, CrewKnows, AliveIsWhole
    <2>4. CASE slug \notin dirty
      <3>1. HalfDone(slug) /\ SavesAClone(k)
        BY <2>1, <2>4 DEF SlugInv, Settled, CrewKnows
      <3>2. clone[slug] # None => clone[slug].whole
        BY <1>2, <2>1, <3>1 DEF HalfDone
      <3>3. \A n \in Name : OnlyAlive(n, slug)' => Whole(slug)'
        BY <1>1, <1>2, <1>7, <2>1, <2>2, <3>1 DEF SavesAClone, Whole
      <3> QED BY <1>1, <2>1, <3>2, <3>3 DEF Settled, HalfDone, CrewKnows, AliveIsWhole
    <2> QED BY <2>3, <2>4
  <1> QED BY <1>6, <1>7 DEF SlugInv

LEMMA BeginsKeepSlugs ==
  ASSUME RegInv, SlugInv, NEW k \in Call,
         \/ \E n \in Name, slug \in Slug, url \in OptUrl : Create(k, n, slug, url)
         \/ \E n \in Name, url \in OptUrl : Update(k, n, url)
         \/ \E n \in Name : Alive(k, n) \/ Dead(k, n)
  PROVE  SlugInv'
  <1>1. ASSUME NEW n \in Name, NEW slug \in Slug, NEW url \in OptUrl, Create(k, n, slug, url)
        PROVE  SlugInv'
    <2>1. [slug |-> slug, url |-> url, state |-> "DEAD"] \in Record
      BY DEF Record
    <2> QED BY <1>1, <2>1, BeginKeepsSlugs DEF Create
  <1>2. ASSUME NEW n \in Name, registry[n] # None
        PROVE  registry[n] \in Record
    BY <1>2 DEF RegInv, RegTypeOK, Registries
  <1>3. ASSUME NEW n \in Name, NEW url \in OptUrl, Update(k, n, url)
        PROVE  SlugInv'
    <2> DEFINE r == [registry[n] EXCEPT !.url = url]
    <2>1. registry[n] # None /\ registry[n] \in Record /\ Begin(k, n, "save", r)
      BY <1>2, <1>3 DEF Update
    <2>2. r \in Record /\ r.state = registry[n].state /\ r.slug = registry[n].slug
      BY <2>1 DEF Record
    <2> HIDE DEF r
    <2> QED BY <2>1, <2>2, BeginKeepsSlugs
  <1>4. ASSUME NEW n \in Name, NEW s \in {"ALIVE", "DEAD"}, NEW step \in {"clone", "remove"},
               registry[n] # None, Begin(k, n, step, [registry[n] EXCEPT !.state = s])
        PROVE  SlugInv'
    <2>1. [registry[n] EXCEPT !.state = s] \in Record
      BY <1>2, <1>4 DEF Record
    <2> QED BY <1>4, <2>1, BeginKeepsSlugs
  <1> QED BY <1>1, <1>3, <1>4 DEF Alive, Dead

LEMMA SlugInvHolds == RegSpec => [](RegInv /\ SlugInv)
  <1>1. RegInit => SlugInv
    <2> SUFFICES ASSUME RegInit, NEW slug \in Slug PROVE Settled(slug)
      BY DEF SlugInv
    <2>1. clone[slug] = None \/ clone[slug].whole = TRUE
      <3>1. clone[slug] \in {None} \cup Leftover
        BY DEF RegInit
      <3>2. \A dir \in Leftover : dir.whole = TRUE
        BY RegistryAssumption
      <3> QED BY <3>1, <3>2
    <2>2. /\ \A n \in Name : registry[n] = None
          /\ \A k \in Call : cmd[k] = None
      BY DEF RegInit
    <2> QED BY <2>1, <2>2 DEF Settled, HalfDone, CrewKnows, Crew, Running, AliveIsWhole, OnlyAlive
  <1>2. RegInv /\ SlugInv /\ [RegNext]_regVars => SlugInv'
    <2> SUFFICES ASSUME RegInv, SlugInv, [RegNext]_regVars PROVE SlugInv'
      OBVIOUS
    <2>1. CASE UNCHANGED regVars
      BY <2>1 DEF regVars, SlugInv, Settled, HalfDone, CrewKnows, AliveIsWhole, Crew, Whole,
         Running, Target, CloningIsNew, OriginIsHeld, SavesAClone, SeenUsers, Excuses, Alone,
         OnlyAlive, Users
    <2> QED BY <2>1, BeginsKeepSlugs, WorkKeepsSlugs, FailKeepsSlugs, SaveKeepsSlugs
            DEF RegNext, RegStep
  <1> QED BY <1>1, <1>2, RegInvHolds, PTL DEF RegSpec

-----------------------------------------------------------------------------

(* The memory bootstrap finds the clone of an ALIVE context, for any number *)
(* of commands of service.ts side by side, as long as nothing went wrong on *)
(* its slug since the last dead that cleaned up.                            *)
THEOREM BootstrapFindsCloneHolds == RegSpec => []BootstrapFindsClone
  <1>1. RegInv /\ SlugInv => BootstrapFindsClone
    <2> SUFFICES ASSUME RegInv, SlugInv, NEW n \in Name, NEW slug, slug = registry[n].slug,
                        registry[n] # None, MemoryInClone(n), Users(slug) = {n},
                        slug \notin dirty, \A k \in Call : Running(k) => Target(k) # slug
                 PROVE  Whole(slug)
      BY DEF BootstrapFindsClone, Whole
    <2>1. slug \in Slug
      BY DEF RegInv, RegTypeOK, Registries, Record
    <2>2. OnlyAlive(n, slug) /\ Crew(slug) = {}
      BY DEF OnlyAlive, MemoryInClone, Crew
    <2> QED BY <2>1, <2>2 DEF SlugInv, Settled, AliveIsWhole
  <1> QED BY <1>1, SlugInvHolds, PTL

HasOrigin(slug) == clone[slug] # None /\ clone[slug].whole /\ clone[slug].url # None

(* Work on a clone keeps its origin known: the directory stays as it is, or *)
(* the command has learned the url first.                                   *)
LEMMA WorkKnowsOrigin ==
  ASSUME RegInv, NEW k \in Call, Running(k), NEW slug \in Slug, OriginKnown(slug),
         NEW step \in Step, NEW url \in OptUrl, NEW dir, Work(k, step, url, dir),
         Holds(k) => step \in {"removing", "save"} /\ url # None,
         slug = Target(k) /\ HasOrigin(slug) =>
           \/ dir = clone[slug]
           \/ step \in {"removing", "save"} /\ url # None
  PROVE  OriginKnown(slug)'
  <1>1. /\ Touches(k) /\ registry' = registry /\ clone'[Target(k)] = dir
        /\ cmd'[k] # None /\ cmd'[k].at = step /\ cmd'[k].rec.url = url
        /\ cmd'[k].rec.slug = cmd[k].rec.slug
    BY WorkTouches
  <1>2. step \in {"removing", "save"} /\ url # None /\ Target(k) = slug => OriginKnown(slug)'
    BY <1>1 DEF OriginKnown, Holds, Running, Target
  <1>3. CASE \E n \in Users(slug) : registry[n].url # None
    BY <1>1, <1>3 DEF OriginKnown, Users
  <1>4. CASE HasOrigin(slug)
    <2>1. slug # Target(k) => clone'[slug] = clone[slug]
      BY <1>1 DEF Touches
    <2>2. clone'[slug] = clone[slug] => OriginKnown(slug)'
      BY <1>4 DEF HasOrigin, OriginKnown
    <2> QED BY <1>1, <1>2, <1>4, <2>1, <2>2
  <1>5. ASSUME NEW j \in Call, Holds(j), Target(j) = slug
        PROVE  OriginKnown(slug)'
    <2>1. CASE j = k
      BY <1>2, <1>5, <2>1
    <2>2. CASE j # k
      <3>1. cmd'[j] = cmd[j]
        BY <1>1, <2>2 DEF Touches
      <3> QED BY <1>5, <3>1 DEF OriginKnown, Holds, Running, Target
    <2> QED BY <2>1, <2>2
  <1> QED BY <1>3, <1>4, <1>5 DEF OriginKnown, HasOrigin

(* A command that ends without a save, and had nothing ready to save.       *)
LEMMA EndKnowsOrigin ==
  ASSUME NEW k \in Call, cmd'[k] = None, Touches(k), NEW slug \in Slug, OriginKnown(slug),
         registry' = registry, Holds(k) => Target(k) # slug,
         HasOrigin(slug) => clone'[slug] = clone[slug]
  PROVE  OriginKnown(slug)'
  <1>1. \A j \in Call : Holds(j) /\ Target(j) = slug => cmd'[j] = cmd[j]
    BY DEF Touches
  <1> QED BY <1>1 DEF OriginKnown, HasOrigin, Holds, Running, Target, Users

(* A save puts the url of its record on file and, unless it is stale, takes *)
(* no other away.                                                           *)
LEMMA SaveKnowsOrigin ==
  ASSUME RegInv, NEW k \in Call, Save(k), Stale(k) = {}, ~Clears(k),
         NEW slug \in Slug, OriginKnown(slug)
  PROVE  OriginKnown(slug)'
  <1> DEFINE m == cmd[k].name
  <1>1. At(k, "save") /\ Running(k) /\ Touches(k) /\ cmd'[k] = None /\ clone' = clone
    BY EndTouches DEF Save, At
  <1>2. /\ cmd[k].seen \in Registries /\ m \in Name /\ cmd[k].rec \in Record
        /\ KeepsUrl(cmd[k])
        /\ cmd[k].seen[m] # None => cmd[k].seen[m].slug = Target(k)
    BY <1>1, CmdTyped DEF RegInv, CommandsFit, Fits, Target
  <1>3. \A n \in Name : cmd[k].seen[n] = registry[n]
    BY DEF Stale
  <1>4. \A n \in Name : registry'[n] = IF n = m THEN cmd[k].rec ELSE registry[n]
    BY <1>2, <1>3 DEF Save, Saved, Registries
  <1>5. registry'[m] = cmd[k].rec /\ registry'[m] # None
    BY <1>2, <1>4, RegistryAssumption
  <1>6. ASSUME NEW n \in Users(slug), registry[n].url # None
        PROVE  OriginKnown(slug)'
    <2>1. n \in Name /\ registry[n] # None /\ registry[n].slug = slug
      BY <1>6 DEF Users
    <2>2. CASE n # m
      BY <1>4, <1>6, <2>1, <2>2 DEF OriginKnown, Users
    <2>3. CASE n = m
      <3>1. cmd[k].rec.url # None /\ cmd[k].rec.slug = slug
        BY <1>2, <1>3, <1>6, <2>1, <2>3 DEF KeepsUrl, Clears, Target
      <3> QED BY <1>2, <1>5, <3>1 DEF OriginKnown, Users
    <2> QED BY <2>2, <2>3
  <1>7. CASE HasOrigin(slug)
    BY <1>1, <1>7 DEF OriginKnown, HasOrigin
  <1>8. ASSUME NEW j \in Call, Holds(j), Target(j) = slug
        PROVE  OriginKnown(slug)'
    <2>1. CASE j = k
      BY <1>2, <1>5, <1>8, <2>1 DEF OriginKnown, Users, Holds, Target
    <2>2. CASE j # k
      <3>1. cmd'[j] = cmd[j]
        BY <1>1, <2>2 DEF Touches
      <3> QED BY <1>8, <3>1 DEF OriginKnown, Holds, Running, Target
    <2> QED BY <2>1, <2>2
  <1> QED BY <1>6, <1>7, <1>8 DEF OriginKnown, HasOrigin

LEMMA BeginKnowsOrigin ==
  ASSUME RegInv, NEW k \in Call, NEW n \in Name, NEW step, NEW rec, Begin(k, n, step, rec),
         NEW slug \in Slug, OriginKnown(slug)
  PROVE  OriginKnown(slug)'
  <1>1. /\ \A j \in Call : Holds(j) => cmd'[j] = cmd[j]
        /\ UNCHANGED <<registry, clone>>
    BY DEF Begin, Holds, RegInv, RegTypeOK
  <1> QED BY <1>1 DEF OriginKnown, Holds, Running, Target, Users

(* The origin of a repository is lost in no other way than the four of      *)
(* OriginOutlivesClone, a death of dead between removal and save            *)
(* (service.ts:117-140) the worst of them: for any number of commands, and  *)
(* whatever may go wrong.                                                   *)
THEOREM OriginOutlivesCloneHolds == RegSpec => OriginOutlivesClone
  <1>1. ASSUME RegInv, SlugInv, [RegNext]_regVars, NEW slug \in Slug, OriginKnown(slug),
               ~ \E k \in Call : Holds(k) /\ Target(k) = slug /\ Kill(k),
               ~ \E k \in Call : Save(k) /\ (Stale(k) # {} \/ Clears(k)),
               ~ (slug \in dirty /\ clone'[slug] # clone[slug])
        PROVE  OriginKnown(slug)'
    <2>1. CASE UNCHANGED regVars
      BY <1>1, <2>1 DEF regVars, OriginKnown, Holds, Running, Target, Users
    <2>2. ASSUME NEW k \in Call,
                 \/ \E n \in Name, s \in Slug, url \in OptUrl : Create(k, n, s, url)
                 \/ \E n \in Name, url \in OptUrl : Update(k, n, url)
                 \/ \E n \in Name : Alive(k, n) \/ Dead(k, n)
          PROVE  OriginKnown(slug)'
      BY <1>1, <2>2, BeginKnowsOrigin DEF Create, Update, Alive, Dead
    <2>3. ASSUME NEW k \in Call, Save(k)
          PROVE  OriginKnown(slug)'
      BY <1>1, <2>3, SaveKnowsOrigin
    <2>4. ASSUME NEW k \in Call, CannotClone(k) \/ FailClone(k) \/ Kill(k)
          PROVE  OriginKnown(slug)'
      <3>1. Touches(k) /\ cmd'[k] = None /\ registry' = registry
        BY <1>1, <2>4, EndTouches DEF CannotClone, FailClone, Fail, Kill
      <3>2. Holds(k) => Target(k) # slug
        BY <1>1, <2>4 DEF CannotClone, FailClone, At, Holds
      <3>3. HasOrigin(slug) => clone'[slug] = clone[slug]
        <4>1. CASE slug # Target(k)
          BY <3>1, <4>1 DEF Touches
        <4>2. CASE slug \in dirty
          BY <1>1, <4>2
        <4>3. CASE slug = Target(k) /\ slug \notin dirty
          <5>1. cmd[k].at = "cloning" => ~HasOrigin(slug)
            BY <1>1, <3>1, <4>3 DEF SlugInv, Settled, CrewKnows, Crew, CloningIsNew, Whole,
               HasOrigin, Touches
          <5>2. cmd[k].at # "cloning" => CannotClone(k) \/ Kill(k)
            BY <2>4 DEF FailClone, At
          <5>3. cmd[k].at # "cloning" => clone'[slug] = clone[slug] \/ ~HasOrigin(slug)
            BY <1>1, <3>1, <4>3, <5>2 DEF CannotClone, Fail, Kill, At, HasOrigin, RegInv,
               RegTypeOK
          <5> QED BY <5>1, <5>3
        <4> QED BY <4>1, <4>2, <4>3
      <3> QED BY <1>1, <3>1, <3>2, <3>3, EndKnowsOrigin
    <2>5. ASSUME NEW k \in Call, FindClone(k) \/ StartClone(k) \/ FinishClone(k)
                                 \/ StartRemove(k) \/ FinishRemove(k)
          PROVE  OriginKnown(slug)'
      <3>1. RegTypeOK /\ Running(k) /\ cmd[k].rec.url \in OptUrl
        BY <1>1, <2>5, CmdTyped DEF RegInv, FindClone, StartClone, FinishClone, StartRemove,
           FinishRemove, At
      <3>2. slug \notin dirty /\ slug = Target(k) => CloningIsNew(k) /\ OriginIsHeld(k)
        BY <1>1, <3>1 DEF SlugInv, Settled, CrewKnows, Crew
      <3>3. slug \in dirty /\ slug = Target(k) => clone'[slug] = clone[slug]
        BY <1>1
      <3>4. CASE FindClone(k)
        <4>1. PICK url \in Learned(k) : Work(k, "save", url, clone[Target(k)])
          BY <3>4 DEF FindClone
        <4>2. url \in OptUrl /\ ~Holds(k)
          BY <3>1, <3>4, LearnedTyped DEF FindClone, At, Holds
        <4> QED BY <1>1, <3>1, <4>1, <4>2, WorkKnowsOrigin DEF Step
      <3>5. CASE StartClone(k)
        <4> DEFINE dir == [url |-> cmd[k].rec.url, whole |-> FALSE]
        <4>1. Work(k, "cloning", cmd[k].rec.url, dir) /\ ~Holds(k) /\ clone[Target(k)] = None
          BY <3>5 DEF StartClone, At, Holds
        <4> HIDE DEF dir
        <4> QED BY <1>1, <3>1, <4>1, WorkKnowsOrigin DEF Step, HasOrigin
      <3>6. CASE FinishClone(k)
        <4> DEFINE dir == [url |-> cmd[k].rec.url, whole |-> TRUE]
        <4>1. /\ Work(k, "save", cmd[k].rec.url, dir)
              /\ ~Holds(k) /\ cmd[k].at = "cloning"
          BY <3>6 DEF FinishClone, At, Holds
        <4> HIDE DEF dir
        <4>2. clone'[Target(k)] = dir
          BY <1>1, <3>1, <4>1, WorkTouches DEF Step
        <4>3. slug = Target(k) /\ HasOrigin(slug) => dir = clone[slug]
          BY <3>2, <3>3, <4>1, <4>2 DEF CloningIsNew, Whole, HasOrigin
        <4> QED BY <1>1, <3>1, <4>1, <4>3, WorkKnowsOrigin DEF Step
      <3>7. CASE StartRemove(k)
        <4> DEFINE dir == [clone[Target(k)] EXCEPT !.whole = FALSE]
        <4>1. PICK url \in Learned(k) : Work(k, "removing", url, dir)
          BY <3>7 DEF StartRemove
        <4>2. url \in OptUrl /\ ~Holds(k)
          BY <3>1, <3>7, LearnedTyped DEF StartRemove, At, Holds
        <4>3. slug = Target(k) /\ HasOrigin(slug) => url # None
          BY <4>1 DEF Learned, Origins, HasOrigin
        <4> HIDE DEF dir
        <4> QED BY <1>1, <3>1, <4>1, <4>2, <4>3, WorkKnowsOrigin DEF Step
      <3>8. CASE FinishRemove(k)
        <4>1. Work(k, "save", cmd[k].rec.url, None)
          BY <3>8 DEF FinishRemove
        <4>2. cmd[k].at = "removing" \/ clone[Target(k)] = None
          BY <3>8 DEF FinishRemove, At
        <4>3. clone'[Target(k)] = None
          BY <1>1, <3>1, <4>1, WorkTouches DEF Step
        <4>4. slug = Target(k) /\ HasOrigin(slug) => cmd[k].rec.url # None
          BY <3>2, <3>3, <4>2, <4>3 DEF OriginIsHeld, HasOrigin
        <4>5. Holds(k) => cmd[k].rec.url # None
          BY DEF Holds
        <4> QED BY <1>1, <3>1, <4>1, <4>4, <4>5, WorkKnowsOrigin DEF Step
      <3> QED BY <2>5, <3>4, <3>5, <3>6, <3>7, <3>8
    <2> QED BY <1>1, <2>1, <2>2, <2>3, <2>4, <2>5 DEF RegNext, RegStep
  <1>2. RegInv /\ SlugInv /\ [RegNext]_regVars =>
          [\A slug \in Slug : OriginKnown(slug) =>
             \/ OriginKnown(slug)'
             \/ \E k \in Call : Holds(k) /\ Target(k) = slug /\ Kill(k)
             \/ \E k \in Call : Save(k) /\ (Stale(k) # {} \/ Clears(k))
             \/ slug \in dirty /\ clone'[slug] # clone[slug]]_regVars
    BY <1>1
  <1> QED BY <1>2, SlugInvHolds, PTL DEF RegSpec, OriginOutlivesClone

-----------------------------------------------------------------------------
(* The registry as the map its users take it for.                          *)

Map == INSTANCE ContextMap WITH contexts <- registry

(* What a command will save is one change of the map it loaded: it enrolls  *)
(* the name, or keeps the slug and either the state or the url it found.    *)
Enrols(c) == c.seen[c.name] = None /\ c.rec.state = "DEAD" /\ c.at = "save"

Changes(c) ==
  /\ c.seen[c.name] # None
  /\ c.rec.slug = c.seen[c.name].slug
  /\ \/ c.at = "save" /\ c.rec.state = c.seen[c.name].state
     \/ c.seen[c.name].url # None => c.rec.url = c.seen[c.name].url

OneChangeEach == \A k \in Call : Running(k) => Enrols(cmd[k]) \/ Changes(cmd[k])

LEMMA OthersKeepTheirChange ==
  ASSUME RegTypeOK, OneChangeEach, NEW k \in Call, NEW c, cmd' = [cmd EXCEPT ![k] = c],
         c # None => Enrols(c) \/ Changes(c)
  PROVE  OneChangeEach'
  <1> SUFFICES ASSUME NEW j \in Call, cmd'[j] # None
               PROVE  Enrols(cmd'[j]) \/ Changes(cmd'[j])
    BY DEF OneChangeEach, Running, Enrols, Changes
  <1>1. cmd'[j] = IF j = k THEN c ELSE cmd[j]
    BY DEF RegTypeOK
  <1> QED BY <1>1 DEF OneChangeEach, Running

LEMMA BeginsWithOneChange ==
  ASSUME RegTypeOK, OneChangeEach, NEW k \in Call, NEW n \in Name, NEW step, NEW rec,
         Begin(k, n, step, rec),
         \/ registry[n] = None /\ rec.state = "DEAD" /\ step = "save"
         \/ /\ registry[n] # None /\ rec.slug = registry[n].slug
            /\ \/ step = "save" /\ rec.state = registry[n].state
               \/ rec.url = registry[n].url
  PROVE  OneChangeEach'
  <1> DEFINE c == [name |-> n, seen |-> registry, rec |-> rec, at |-> step]
  <1>1. Enrols(c) \/ Changes(c)
    BY DEF Enrols, Changes
  <1> QED BY <1>1, OthersKeepTheirChange DEF Begin

LEMMA WorkKeepsOneChange ==
  ASSUME RegTypeOK, OneChangeEach, NEW k \in Call, Running(k), cmd[k].at # "save",
         NEW step, NEW url, NEW dir, Work(k, step, url, dir),
         cmd[k].rec.url # None => url = cmd[k].rec.url
  PROVE  OneChangeEach'
  <1> DEFINE r == [cmd[k].rec EXCEPT !.url = url]
             c == [cmd[k] EXCEPT !.at = step, !.rec = r]
  <1>1. cmd[k] \in Command /\ cmd[k].rec \in Record
    BY CmdTyped
  <1>2. cmd' = [cmd EXCEPT ![k] = c]
    BY DEF Work, RegTypeOK
  <1>3. /\ c.seen = cmd[k].seen /\ c.name = cmd[k].name
        /\ c.rec.slug = cmd[k].rec.slug /\ c.rec.url = url
    BY <1>1 DEF Command, Record
  <1>4. Changes(cmd[k])
    BY DEF OneChangeEach, Enrols
  <1> HIDE DEF c
  <1>5. Changes(c)
    BY <1>3, <1>4 DEF Changes
  <1> QED BY <1>2, <1>5, OthersKeepTheirChange

LEMMA OneChangeHolds == RegSpec => [](RegInv /\ OneChangeEach)
  <1>1. RegInit => OneChangeEach
    BY DEF RegInit, OneChangeEach, Running
  <1>2. RegInv /\ OneChangeEach /\ [RegNext]_regVars => OneChangeEach'
    <2> SUFFICES ASSUME RegTypeOK, OneChangeEach, [RegNext]_regVars PROVE OneChangeEach'
      BY DEF RegInv
    <2>1. CASE UNCHANGED regVars
      BY <2>1 DEF regVars, OneChangeEach, Running, Enrols, Changes
    <2>2. ASSUME NEW n \in Name, registry[n] # None PROVE registry[n] \in Record
      BY <2>2 DEF RegTypeOK, Registries
    <2>3. ASSUME NEW k \in Call, NEW n \in Name, NEW slug \in Slug, NEW url \in OptUrl,
                 Create(k, n, slug, url)
          PROVE  OneChangeEach'
      BY <2>3, BeginsWithOneChange DEF Create
    <2>4. ASSUME NEW k \in Call, NEW n \in Name, NEW url \in OptUrl, Update(k, n, url)
          PROVE  OneChangeEach'
      <3> DEFINE r == [registry[n] EXCEPT !.url = url]
      <3>1. registry[n] # None /\ Begin(k, n, "save", r)
        BY <2>4 DEF Update
      <3>2. r.state = registry[n].state /\ r.slug = registry[n].slug
        BY <2>2, <3>1 DEF Record
      <3> HIDE DEF r
      <3> QED BY <3>1, <3>2, BeginsWithOneChange
    <2>5. ASSUME NEW k \in Call, NEW n \in Name, Alive(k, n)
          PROVE  OneChangeEach'
      <3> DEFINE r == [registry[n] EXCEPT !.state = "ALIVE"]
      <3>1. registry[n] # None /\ Begin(k, n, "clone", r)
        BY <2>5 DEF Alive
      <3>2. r.url = registry[n].url /\ r.slug = registry[n].slug
        BY <2>2, <3>1 DEF Record
      <3> HIDE DEF r
      <3> QED BY <3>1, <3>2, BeginsWithOneChange
    <2>6. ASSUME NEW k \in Call, NEW n \in Name, Dead(k, n)
          PROVE  OneChangeEach'
      <3> DEFINE r == [registry[n] EXCEPT !.state = "DEAD"]
      <3>1. registry[n] # None /\ Begin(k, n, "remove", r)
        BY <2>6 DEF Dead
      <3>2. r.url = registry[n].url /\ r.slug = registry[n].slug
        BY <2>2, <3>1 DEF Record
      <3> HIDE DEF r
      <3> QED BY <3>1, <3>2, BeginsWithOneChange
    <2>7. ASSUME NEW k \in Call, FindClone(k) \/ StartRemove(k) PROVE OneChangeEach'
      BY <2>7, WorkKeepsOneChange DEF FindClone, StartRemove, At, Learned
    <2>8. ASSUME NEW k \in Call, StartClone(k) \/ FinishClone(k) \/ FinishRemove(k)
          PROVE  OneChangeEach'
      BY <2>8, WorkKeepsOneChange DEF StartClone, FinishClone, FinishRemove, At
    <2>9. ASSUME NEW k \in Call, CannotClone(k) \/ FailClone(k) \/ Save(k) \/ Kill(k)
          PROVE  OneChangeEach'
      BY <2>9, OthersKeepTheirChange DEF CannotClone, FailClone, Fail, Save, Kill
    <2> QED BY <2>1, <2>3, <2>4, <2>5, <2>6, <2>7, <2>8, <2>9 DEF RegNext, RegStep
  <1> QED BY <1>1, <1>2, RegInvHolds, PTL DEF RegSpec

(* A save over the registry that was loaded changes the map by one step.    *)
LEMMA FreshSaveIsMapStep ==
  ASSUME RegInv, OneChangeEach, NEW k \in Call, Save(k), Stale(k) = {}
  PROVE  Map!MapNext
  <1> DEFINE n == cmd[k].name
             r == cmd[k].rec
  <1>1. n \in Name /\ r \in Record /\ cmd[k].seen \in Registries /\ At(k, "save")
    BY CmdTyped DEF RegInv, Save, At
  <1>2. registry \in Registries
    BY DEF RegInv, RegTypeOK
  <1>3. cmd[k].seen = registry
    BY <1>1, <1>2 DEF Stale, Registries
  <1>4. registry' = [registry EXCEPT ![n] = r]
    BY <1>3 DEF Save, Saved
  <1>5. r = [slug |-> r.slug, url |-> r.url, state |-> r.state]
        /\ r.slug \in Slug /\ r.url \in OptUrl /\ r.state \in {"ALIVE", "DEAD"}
    BY <1>1 DEF Record
  <1>6. Enrols(cmd[k]) \/ Changes(cmd[k])
    BY <1>1 DEF OneChangeEach, At
  <1> HIDE DEF n, r
  <1>7. Map!Put(n, r.slug, r.url, r.state)
    BY <1>4, <1>5 DEF Map!Put
  <1>8. Map!OptUrl = OptUrl /\ Map!State = {"ALIVE", "DEAD"}
    BY DEF Map!OptUrl, OptUrl, Map!State
  <1>9. CASE Enrols(cmd[k])
    <2>1. registry[n] = None /\ r.state = "DEAD"
      BY <1>3, <1>9 DEF Enrols, n, r
    <2> QED BY <1>1, <1>5, <1>7, <1>8, <2>1 DEF Map!MapNext, Map!Enrol
  <1>10. CASE Changes(cmd[k])
    <2>1. /\ registry[n] # None /\ r.slug = registry[n].slug
          /\ \/ r.state = registry[n].state
             \/ registry[n].url # None => r.url = registry[n].url
      BY <1>3, <1>10 DEF Changes, n, r
    <2>2. CASE r.state = registry[n].state
      BY <1>1, <1>5, <1>7, <1>8, <2>1, <2>2 DEF Map!MapNext, Map!SetUrl
    <2>3. CASE registry[n].url # None => r.url = registry[n].url
      BY <1>1, <1>5, <1>7, <1>8, <2>1, <2>3 DEF Map!MapNext, Map!SetState
    <2> QED BY <2>1, <2>2, <2>3
  <1> QED BY <1>6, <1>9, <1>10

(* The registry changes in saves only.                                      *)
LEMMA OnlySavesChange ==
  ASSUME [RegNext]_regVars
  PROVE  registry' = registry \/ \E k \in Call : Save(k)
  BY DEF RegNext, RegStep, regVars, Create, Update, Alive, Dead, Begin, FindClone, CannotClone,
         StartClone, FinishClone, FailClone, Fail, StartRemove, FinishRemove, Work, Kill

(* However many commands of service.ts run at once, a step changes the      *)
(* registry as the map may change, unless it saves over a registry that is  *)
(* no longer the one on file.                                              *)
THEOREM FreshSavesFollowTheMap ==
  RegSpec => [][(\A k \in Call : Save(k) => Stale(k) = {}) =>
                  Map!MapNext \/ UNCHANGED registry]_regVars
  <1>1. RegInv /\ OneChangeEach /\ [RegNext]_regVars =>
          [(\A k \in Call : Save(k) => Stale(k) = {}) =>
             Map!MapNext \/ UNCHANGED registry]_regVars
    BY OnlySavesChange, FreshSaveIsMapStep
  <1> QED BY <1>1, OneChangeHolds, PTL DEF RegSpec

-----------------------------------------------------------------------------
(* One command of service.ts at a time: the next begins when the one before *)
(* has ended or died.                                                      *)

OneCommand == \A j, k \in Call : Running(j) /\ Running(k) => j = k
SeenIsOnFile == \A k \in Call : Running(k) => cmd[k].seen = registry
Serial == RegTypeOK /\ OneCommand /\ SeenIsOnFile

LEMMA SerialHolds ==
  ASSUME "overlap" \notin Env
  PROVE  RegSpec => []Serial
  <1>1. RegInit => OneCommand /\ SeenIsOnFile
    BY DEF RegInit, OneCommand, SeenIsOnFile, Running
  <1>2. RegTypeOK /\ RegTypeOK' /\ Serial /\ [RegNext]_regVars => Serial'
    <2> SUFFICES ASSUME RegTypeOK, RegTypeOK', OneCommand, SeenIsOnFile, [RegNext]_regVars
                 PROVE  OneCommand' /\ SeenIsOnFile'
      BY DEF Serial
    <2>1. CASE UNCHANGED regVars
      BY <2>1 DEF regVars, OneCommand, SeenIsOnFile, Running
    <2>2. ASSUME NEW k \in Call, NEW c, cmd' = [cmd EXCEPT ![k] = c], registry' = registry,
                 \A j \in Call \ {k} : ~Running(j),
                 c # None => c.seen = registry
          PROVE  OneCommand' /\ SeenIsOnFile'
      <3>1. \A j \in Call : cmd'[j] = IF j = k THEN c ELSE cmd[j]
        BY <2>2 DEF RegTypeOK
      <3> QED BY <2>2, <3>1 DEF OneCommand, SeenIsOnFile, Running
    <2>3. ASSUME NEW k \in Call, NEW n \in Name, NEW step, NEW rec, Begin(k, n, step, rec)
          PROVE  OneCommand' /\ SeenIsOnFile'
      BY <2>2, <2>3 DEF Begin
    <2>4. ASSUME NEW k \in Call, Running(k) PROVE \A j \in Call \ {k} : ~Running(j)
      BY <2>4 DEF OneCommand
    <2>5. ASSUME NEW k \in Call, Running(k), NEW step, NEW url, NEW dir,
                 Work(k, step, url, dir)
          PROVE  OneCommand' /\ SeenIsOnFile'
      <3> DEFINE c == [cmd[k] EXCEPT !.at = step, !.rec.url = url]
      <3>1. cmd[k] \in Command /\ cmd[k].seen = registry
        BY <2>5, CmdTyped DEF SeenIsOnFile
      <3>2. c.seen = registry
        BY <3>1 DEF Command
      <3>3. cmd' = [cmd EXCEPT ![k] = c]
        BY <2>5, <3>1 DEF Work, RegTypeOK, Command
      <3> HIDE DEF c
      <3> QED BY <2>2, <2>4, <2>5, <3>2, <3>3 DEF Work
    <2>6. ASSUME NEW k \in Call, Running(k), cmd' = [cmd EXCEPT ![k] = None]
          PROVE  OneCommand' /\ SeenIsOnFile'
      <3>1. \A j \in Call : cmd'[j] = None
        BY <2>4, <2>6 DEF RegTypeOK, Running
      <3> QED BY <3>1 DEF OneCommand, SeenIsOnFile, Running
    <2>7. ASSUME NEW k \in Call,
                 \/ \E n \in Name, slug \in Slug, url \in OptUrl : Create(k, n, slug, url)
                 \/ \E n \in Name, url \in OptUrl : Update(k, n, url)
                 \/ \E n \in Name : Alive(k, n) \/ Dead(k, n)
          PROVE  OneCommand' /\ SeenIsOnFile'
      BY <2>3, <2>7 DEF Create, Update, Alive, Dead
    <2>8. ASSUME NEW k \in Call,
                 \/ FindClone(k) \/ StartClone(k) \/ FinishClone(k)
                 \/ StartRemove(k) \/ FinishRemove(k)
          PROVE  OneCommand' /\ SeenIsOnFile'
      BY <2>5, <2>8 DEF FindClone, StartClone, FinishClone, StartRemove, FinishRemove, At
    <2>9. ASSUME NEW k \in Call, CannotClone(k) \/ FailClone(k) \/ Save(k) \/ Kill(k)
          PROVE  OneCommand' /\ SeenIsOnFile'
      BY <2>6, <2>9 DEF CannotClone, FailClone, Fail, Save, Kill, At
    <2> QED BY <2>1, <2>7, <2>8, <2>9 DEF RegNext, RegStep
  <1>3. RegTypeOK /\ OneCommand /\ SeenIsOnFile => Serial
    BY DEF Serial
  <1> QED BY <1>1, <1>2, <1>3, RegTypeCorrect, PTL DEF RegSpec

(* Used by one command at a time, killed or not, service.ts implements the  *)
(* map: no name and no slug is ever lost, and a url goes only when an       *)
(* update clears it.                                                       *)
THEOREM SerialRegistryIsTheMap ==
  ASSUME "overlap" \notin Env
  PROVE  RegSpec => Map!MapSpec
  <1>1. RegInit => Map!MapInit
    BY DEF RegInit, Map!MapInit
  <1>2. RegInv /\ OneChangeEach /\ Serial /\ [RegNext]_regVars => [Map!MapNext]_registry
    <2> SUFFICES ASSUME RegInv, OneChangeEach, Serial, [RegNext]_regVars,
                        NEW k \in Call, Save(k)
                 PROVE  Map!MapNext
      BY OnlySavesChange
    <2>1. Stale(k) = {}
      BY DEF Stale, Serial, SeenIsOnFile, Save, At
    <2> QED BY <2>1, FreshSaveIsMapStep
  <1> QED BY <1>1, <1>2, OneChangeHolds, SerialHolds, PTL DEF RegSpec, Map!MapSpec

(* Commands of service.ts that neither overlap nor die leave no slug dirty. *)
Clean == dirty = {}

LEMMA NothingIsDirty ==
  ASSUME "overlap" \notin Env, "kill" \notin Env
  PROVE  RegSpec => []Clean
  <1>1. RegInit => Clean
    BY DEF RegInit, Clean
  <1>2. Serial /\ Clean /\ [RegNext]_regVars => Clean'
    <2> SUFFICES ASSUME Serial, dirty = {}, RegNext PROVE dirty' = {}
      BY DEF regVars, Clean
    <2>1. PICK k \in Call : RegStep(k)
      BY DEF RegNext
    <2>2. CASE dirty' = dirty
      BY <2>2
    <2>3. Running(k) => Alone(k)
      BY DEF Serial, OneCommand, Alone
    <2>4. CASE Save(k)
      <3>1. Stale(k) = {}
        BY <2>4 DEF Stale, Serial, SeenIsOnFile, Save, At
      <3>2. Reverted(k) = {}
        BY <3>1 DEF Reverted, SlugsOf
      <3> QED BY <2>3, <2>4, <3>2 DEF Save, At
    <2> QED
      BY <2>1, <2>2, <2>3, <2>4 DEF RegStep, Create, Update, Alive, Dead, Begin, FindClone,
         CannotClone, StartClone, FinishClone, FailClone, Fail, StartRemove, FinishRemove, Work,
         Kill, At
  <1> QED BY <1>1, <1>2, SerialHolds, PTL DEF RegSpec

(* Then an ALIVE context that shares its slug with no other has a complete  *)
(* clone whenever no command is at work, with no excuse at all.             *)
AliveHasItsClone ==
  (\A k \in Call : ~Running(k)) =>
    \A n \in Name :
      (registry[n] # None /\ registry[n].state = "ALIVE" /\ Users(registry[n].slug) = {n})
        => clone[registry[n].slug] # None /\ clone[registry[n].slug].whole

THEOREM AliveHasItsCloneHolds ==
  ASSUME "overlap" \notin Env, "kill" \notin Env
  PROVE  RegSpec => []AliveHasItsClone
  <1>1. BootstrapFindsClone /\ Clean => AliveHasItsClone
    BY DEF Clean, BootstrapFindsClone, MemoryInClone, AliveHasItsClone
  <1> QED BY <1>1, BootstrapFindsCloneHolds, NothingIsDirty, PTL

=============================================================================
