----------------------------- MODULE WriterLock -----------------------------
(***************************************************************************)
(* What the mutating lease promises: the sessions cleared to write in a    *)
(* context at any one time are one session at most.  A session enters a    *)
(* context, and may enter it again while it is inside (Pi can have several *)
(* cleared tool calls of a session open); it leaves any set of contexts in *)
(* one step, as it does when its process ends.                             *)
(***************************************************************************)
CONSTANTS Session, Context

VARIABLE cleared    \* the sessions cleared to write in each context

LockInit == cleared = [c \in Context |-> {}]

Enter(s, c) ==
  /\ cleared[c] \subseteq {s}
  /\ cleared' = [cleared EXCEPT ![c] = @ \cup {s}]

Leave(s, C) ==
  cleared' = [c \in Context |-> IF c \in C THEN cleared[c] \ {s} ELSE cleared[c]]

LockNext ==
  \E s \in Session :
    \/ \E C \in SUBSET Context : Leave(s, C)
    \/ \E c \in Context : Enter(s, c)

LockSpec == LockInit /\ [][LockNext]_cleared

=============================================================================
