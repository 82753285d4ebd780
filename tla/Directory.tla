----------------------------- MODULE Directory -----------------------------
(***************************************************************************)
(* What a client directory promises to those who use it, whatever happens  *)
(* to the files in it: it has at most one owner, the init that made it; it *)
(* is absent, partial, whole, or safe: whole and on disk as a whole, when  *)
(* only the user takes it back; a command serves the owner.  ClientDir     *)
(* implements it.                                                          *)
(***************************************************************************)
CONSTANTS Inits, Readers, NoOne

VARIABLES
  owner,  \* the init whose directory it is
  stage,  \* "absent", "partial", "whole" or "safe"
  serves  \* serves[r]: whom command r acts for

vars == <<owner, stage, serves>>

Nobody == [r \in Readers |-> NoOne]

Init ==
  /\ owner = NoOne
  /\ stage = "absent"
  /\ serves = Nobody

Begin(i) ==
  /\ stage = "absent"
  /\ owner' = i
  /\ stage' = "partial"
  /\ UNCHANGED serves

Finish ==
  /\ stage = "partial"
  /\ stage' \in {"whole", "safe"}
  /\ UNCHANGED <<owner, serves>>

WriteBack ==
  /\ stage = "whole"
  /\ stage' = "safe"
  /\ UNCHANGED <<owner, serves>>

Serve(r) ==
  /\ serves[r] = NoOne
  /\ owner # NoOne
  /\ serves' = [serves EXCEPT ![r] = owner]
  /\ UNCHANGED <<owner, stage>>

\* All commands end; what is not safe may be gone, or be left in part; what is
\* left is on disk.
PowerLoss ==
  /\ serves' = Nobody
  /\ \/ stage # "whole" /\ UNCHANGED <<owner, stage>>
     \/ stage = "whole" /\ stage' \in {"partial", "safe"} /\ owner' = owner
     \/ stage \in {"partial", "whole"} /\ owner' = NoOne /\ stage' = "absent"

\* The user's decision, while nothing runs.
Erase ==
  /\ serves = Nobody
  /\ owner' = NoOne
  /\ stage' = "absent"
  /\ UNCHANGED serves

Next ==
  \/ \E i \in Inits : Begin(i)
  \/ Finish
  \/ WriteBack
  \/ \E r \in Readers : Serve(r)
  \/ PowerLoss
  \/ Erase

Spec == Init /\ [][Next]_vars
=============================================================================
