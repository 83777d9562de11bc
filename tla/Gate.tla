-------------------------------- MODULE Gate --------------------------------
(***************************************************************************)
(* The gate of src/dadaia_pi/gate.py: what evaluate_gate makes of the      *)
(* paths a tool call would write and of the binding of its session, on top *)
(* of the lease.                                                           *)
(*                                                                         *)
(* A call that the gate denies before it comes to the lease, or allows     *)
(* without one, changes nothing and is left out; Admit is the part of      *)
(* evaluate_gate from the classification to the call of acquire_lease, and *)
(* the rest is the actions of Lease.  The gate reads one shared file       *)
(* before the lease, the binding, because a registered context keeps its   *)
(* name and its repoSlug; so Admit is one step.                            *)
(***************************************************************************)
EXTENDS Lease

CONSTANTS
  SlugOf,        \* the registry: repoSlug of each registered context name
  Requests       \* the sets of paths a tool call or shell command may name

(* A path is a repository (None outside repos/), the area of it the path is *)
(* in, and whether it is the directory of the area itself.  Slugs and       *)
(* context names are both members of Context: the gate looks one up as the  *)
(* other.                                                                   *)
Area == {"state", "reports", "backlog", "memory", "archive", "specs", "source"}
Path == [repo : Context \cup {None}, area : Area, whole : BOOLEAN]

(* BOUND_IMPLEMENTATION and BOUND_REVIEW, which the gate does not tell       *)
(* apart, are one mode.                                                    *)
Mode == {"READ", "BOUND"}
Binding == [ctx : Context, mode : Mode]

ASSUME GateAssumption ==
  /\ DOMAIN SlugOf \subseteq Context
  /\ SlugOf \in [DOMAIN SlugOf -> Context]
  /\ Requests \subseteq (SUBSET Path) \ {{}}
  /\ None \notin Context
  /\ None \notin Binding

VARIABLES
  binding,   \* sessions/<session>.json
  aim,       \* the paths each call would write
  rebound    \* the calls under way whose session was bound anew or released
             \* since they were admitted (history)

gateVars == <<vars, binding, aim, rebound>>

-----------------------------------------------------------------------------
(* Path classes.                                                           *)

(* The prefixes of classify_relative end in a slash: they match what is     *)
(* below a directory, and the directory itself falls to a later rule.       *)
RelativeClass(path) ==
  CASE path.area = "state"              -> IF path.whole THEN "UNGATED" ELSE "PROTECTED"
    [] path.area = "reports"            -> IF path.whole THEN "UNGATED" ELSE "ADDITIVE"
    [] path.area = "backlog"            -> IF path.whole THEN "MUTATING" ELSE "ADDITIVE"
    [] path.area = "memory"             -> IF path.whole THEN "MUTATING" ELSE "MEMORY"
    [] path.area = "archive"            -> IF path.whole THEN "MUTATING" ELSE "FROZEN"
    [] path.area = "specs"              -> IF path.whole THEN "UNGATED" ELSE "MUTATING"
    [] path.area = "source"             -> "UNGATED"

(* In a repository all but the repository directory is at least MUTATING.   *)
PathClass(path) ==
  LET class == RelativeClass(path)
      isRepoRoot == path.area = "source" /\ path.whole
  IN  IF path.repo # None /\ class = "UNGATED" /\ ~ isRepoRoot THEN "MUTATING" ELSE class

Rank == [PROTECTED |-> 1, FROZEN |-> 2, MEMORY |-> 3, MUTATING |-> 4, ADDITIVE |-> 5, UNGATED |-> 6]

Gated(path) == PathClass(path) \in {"MEMORY", "MUTATING"}

(* The most restrictive paths.  The sort is stable, so the first of them in *)
(* the order of the command decides, and that may be any of them.           *)
Tops(T) == {t \in T : \A u \in T : Rank[PathClass(t)] <= Rank[PathClass(u)]}

-----------------------------------------------------------------------------
(* evaluate_gate.                                                          *)

(* Mutations: READ is not asked; the binding goes before the path.          *)
AnyMode(s) == binding[s] # None
BoundContext(s, top) == IF binding[s] # None THEN binding[s].ctx ELSE top.repo

(* A session without a binding counts as BOUND_IMPLEMENTATION and has no    *)
(* release, so it is denied like a READ session; no session is bound to     *)
(* another mode without a release.                                         *)
MayMutate(s) == binding[s] # None /\ binding[s].mode # "READ"

(* The repository of the path, taken for a context name, or else the        *)
(* context of the binding.                                                  *)
GateContext(s, top) == IF top.repo # None THEN top.repo ELSE binding[s].ctx

(* show_context raises for a name that is not registered, and the call is   *)
(* not cleared.                                                             *)
Admit(k, s, T) ==
  \E top \in Tops(T) :
    /\ Gated(top)
    /\ MayMutate(s)
    /\ GateContext(s, top) \in DOMAIN SlugOf
    /\ Begin(k, s, GateContext(s, top))
    /\ aim' = [aim EXCEPT ![k] = T]
    /\ UNCHANGED <<binding, rebound>>

(* The lease part of the call, and everything around it.                    *)
RunLease ==
  /\ Running
  /\ aim' = [k \in Call |-> IF job'[k] = None THEN {} ELSE aim[k]]
  /\ rebound' = {k \in rebound : InFlight(k)'}
  /\ UNCHANGED binding

(* A terminal or another tool binds while bridge processes of the session   *)
(* are under way; they have read the old record.                            *)
Rebind(s, b) ==
  /\ binding' = [binding EXCEPT ![s] = b]
  /\ rebound' = rebound \cup {k \in OpenCalls(s) : InFlight(k)}
  /\ UNCHANGED <<vars, aim>>

(* /dadaia-bind, or `context bind --session`: the session record is the     *)
(* first of the four files bind_context writes, and the only one the gate   *)
(* reads.  Nothing asks which lease the session holds.                      *)
Bind(s, b) ==
  /\ b.ctx \in DOMAIN SlugOf
  /\ Rebind(s, b)

(* /dadaia-release: the session record goes, the lease stays.               *)
ReleaseBinding(s) ==
  /\ binding[s] # None
  /\ Rebind(s, None)

GateInit ==
  /\ Init
  /\ binding = [s \in Session |-> None]
  /\ aim = [k \in Call |-> {}]
  /\ rebound = {}

GateNext ==
  \/ RunLease
  \/ \E k \in Call, s \in Session, T \in Requests : Admit(k, s, T)
  \/ \E s \in Session, b \in Binding : Bind(s, b)
  \/ \E s \in Session : ReleaseBinding(s)

GateSpec == GateInit /\ [][GateNext]_gateVars

-----------------------------------------------------------------------------
(* Properties.                                                             *)

(* Bindings and aims hold values of their kind, and a call has an aim       *)
(* exactly while it is open.                                                *)
GateTypeOK ==
  /\ TypeOK
  /\ binding \in [Session -> Binding \cup {None}]
  /\ aim \in [Call -> Requests \cup {{}}]
  /\ rebound \subseteq Call
  /\ \A k \in Call : aim[k] = {} <=> pc[k] = "idle"

GatedRepos(k) == {t.repo : t \in {u \in aim[k] : Gated(u)}} \ {None}

(* One writer per repository: two calls that are cleared to write gated     *)
(* paths of the same repository belong to the same session.  The lease is   *)
(* per context name, and only of the context the most restrictive path is   *)
(* in; this relates it to what the calls really write.                      *)
RepoExclusion ==
  \A j, k \in Call :
    Granted(j) /\ Granted(k) /\ GatedRepos(j) \cap GatedRepos(k) # {} =>
      job[j].sess = job[k].sess

(* What the gate clears, the commit hook accepts: the hook finds the        *)
(* context of a repository by its repoSlug (hooks._context_for_repo) and    *)
(* asks whether the session holds the lease of that context.                *)
ClearedIsCommittable ==
  \A k \in Call : Granted(k) =>
    \A r \in GatedRepos(k), c \in DOMAIN SlugOf :
      SlugOf[c] = r => (lock[c] # None /\ lock[c].sess = job[k].sess)

(* READ mode is non-acquiring: no session gets a lease it did not have      *)
(* while its binding says READ, whenever it was bound, except by a call     *)
(* that was admitted under an earlier binding and went on beside the        *)
(* rebind.                                                                 *)
ReadNeverAcquires ==
  [][\A s \in Session, c \in Context :
       (binding[s] # None /\ lock'[c] # None) =>
         ((binding[s].mode = "READ" /\ lock'[c].sess = s) =>
            \/ lock[c] # None /\ lock[c].sess = s
            \/ \E k \in rebound : job[k].sess = s /\ WriteLease(k))]_gateVars

=============================================================================
