---------------------------- MODULE MCJobSelect ----------------------------
(***************************************************************************)
(* JobSelect for TLC: boards of up to three jobs.  Widths are scaled to    *)
(* MaxU64 = 31: rewards around the floor (2), in the middle and at the top *)
(* of i64, specs from nothing to one whose cost does not fit a u64.        *)
(***************************************************************************)
EXTENDS JobSelect, SequencesExt

Foreign(reward, bytes) ==
  [status |-> "open", owner |-> "them", reward |-> reward,
   task_pda |-> "task", parcel_uid |-> "parcel", spec_bytes |-> bytes,
   title |-> "title", short_description |-> "what it does"]

Odd == { [Foreign(15, 0) EXCEPT !.status = "claimed"],
         [Foreign(15, 0) EXCEPT !.owner = "us"],
         [Foreign(15, 0) EXCEPT !.task_pda = ""],
         [Foreign(15, 0) EXCEPT !.parcel_uid = ""] }

\* Every job of a board has its own task.
Tasks == <<"task1", "task2", "task3">>
Posted(board) ==
  [i \in DOMAIN board |->
     [board[i] EXCEPT !.task_pda = IF @ = "" THEN @ ELSE Tasks[i]]]

MCBoards == {Posted(b) : b \in
  BoundedSeq(Odd \union {Foreign(r, b) : r \in {-1, 1, 2, 4, 11, 15},
                                         b \in {0, 4, 5, 12, 44}}, 2)
    \union
  BoundedSeq({Foreign(r, b) : r \in {1, 4, 15}, b \in {0, 4, 12, 44}}, 3)
    \union
  BoundedSeq({[Foreign(4, 4) EXCEPT !.title = t, !.short_description = d] :
                t \in {"", " ", "title"}, d \in {"", " ", "what it does"}}, 1)}
=============================================================================
