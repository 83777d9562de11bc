----------------------------- MODULE ContextMap -----------------------------
(***************************************************************************)
(* What the Spec Context registry promises to who uses it alone: a map     *)
(* from names to records that changes one record at a time.  A name is     *)
(* enrolled once, as a DEAD context, and stays; its slug never changes; a   *)
(* change of state may add a url that was missing and takes none away.     *)
(***************************************************************************)
CONSTANTS Name, Slug, Url, None

VARIABLE contexts   \* None, or the record of each name

OptUrl == Url \cup {None}
State == {"ALIVE", "DEAD"}

MapInit == contexts = [n \in Name |-> None]

Put(n, slug, url, state) ==
  contexts' = [contexts EXCEPT ![n] = [slug |-> slug, url |-> url, state |-> state]]

Enrol(n) ==
  /\ contexts[n] = None
  /\ \E slug \in Slug, url \in OptUrl : Put(n, slug, url, "DEAD")

SetUrl(n) ==
  /\ contexts[n] # None
  /\ \E url \in OptUrl : Put(n, contexts[n].slug, url, contexts[n].state)

SetState(n) ==
  /\ contexts[n] # None
  /\ \E url \in OptUrl, state \in State :
       /\ contexts[n].url # None => url = contexts[n].url
       /\ Put(n, contexts[n].slug, url, state)

MapNext == \E n \in Name : Enrol(n) \/ SetUrl(n) \/ SetState(n)
MapSpec == MapInit /\ [][MapNext]_contexts

=============================================================================
