------------------------------ MODULE TaskFifo ------------------------------
(***************************************************************************)
(* What the task queue is meant to be (the abstract specification that     *)
(* TaskQueue is compared with): one bounded sequence of tasks; the         *)
(* thread kept for short commands takes the oldest short task, the other   *)
(* threads the oldest long task or, when no long task waits, the oldest    *)
(* task of all.                                                            *)
(*                                                                         *)
(* `broken' records that the promise has ended.  It ends in one way only:  *)
(* the task taken is the oldest of several.                                *)
(***************************************************************************)
EXTENDS Naturals, Sequences, SequencesExt

CONSTANTS Tasks, IsLong(_), MaxSize

VARIABLES tasks, broken

vars == <<tasks, broken>>

Init == tasks = <<>> /\ ~broken

(* A full queue refuses the task. *)
Put(t) ==
    /\ ~broken
    /\ tasks' = IF Len(tasks) < MaxSize THEN Append(tasks, t) ELSE tasks
    /\ UNCHANGED broken

(* Where the task for the short-command thread, or for another one, stands *)
(* (0: nowhere).                                                           *)
Target(short) == SelectInSeq(tasks, LAMBDA t : IsLong(t) # short)

Take(i) ==
    /\ ~broken
    /\ i \in 1..Len(tasks)
    /\ tasks' = RemoveAt(tasks, i)
    /\ UNCHANGED broken

TakeForShort == Target(TRUE) # 1 /\ Take(Target(TRUE))
TakeForLong ==
    IF Target(FALSE) = 0 THEN Take(1) ELSE Target(FALSE) # 1 /\ Take(Target(FALSE))
TakeLast == Len(tasks) = 1 /\ Take(1)

(* The oldest of several tasks is taken by search: nothing is promised of  *)
(* the queue from here on.                                                 *)
Break ==
    /\ ~broken
    /\ Len(tasks) > 1
    /\ \E short \in BOOLEAN : Target(short) = 1
    /\ tasks' = <<>>
    /\ broken' = TRUE

Next ==
    \/ \E t \in Tasks : Put(t)
    \/ TakeForShort
    \/ TakeForLong
    \/ TakeLast
    \/ Break

Spec == Init /\ [][Next]_vars

=============================================================================
