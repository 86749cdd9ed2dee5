--------------------------- MODULE ClaimedDirectory ---------------------------
(***************************************************************************)
(* What a run directory promises the processes that compute its run,       *)
(* without saying how they find out: whoever makes it is the only one to   *)
(* change it, until its result names it, it leaves or it frees it again,   *)
(* and what is there then stays as it is.                                  *)
(***************************************************************************)
CONSTANT Proc

VARIABLES
  taken,      \* the directory exists
  writers,    \* the processes at work in it
  published,  \* the processes whose result names it
  content     \* what is in it

vars == <<taken, writers, published, content>>

Init == ~ taken /\ writers = {} /\ published = {}

\* Only a directory that is not there can be made.
Take(p) ==
  /\ ~ taken /\ writers = {}
  /\ taken' = TRUE /\ writers' = {p}
  /\ UNCHANGED <<published, content>>

\* The one process inside writes or removes files.
Change(p) ==
  /\ taken /\ writers = {p}
  /\ UNCHANGED <<taken, writers, published>>

\* Its result names the directory, as the only one that ever will.
Publish(p) ==
  /\ taken /\ writers = {p} /\ published = {}
  /\ writers' = {} /\ published' = {p}
  /\ UNCHANGED <<taken, content>>

\* It ends without a result that names it, or dies: what it wrote stays.
Leave(p) ==
  /\ taken /\ writers = {p}
  /\ writers' = {}
  /\ UNCHANGED <<taken, published, content>>

\* It has cleaned up after itself, so another may take the directory.
Free(p) ==
  /\ taken /\ writers = {p}
  /\ taken' = FALSE /\ writers' = {}
  /\ UNCHANGED <<published, content>>

Next == \E p \in Proc : Take(p) \/ Change(p) \/ Publish(p) \/ Leave(p) \/ Free(p)

Spec == Init /\ [][Next]_vars
===============================================================================
