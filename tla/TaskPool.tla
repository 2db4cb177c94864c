------------------------------ MODULE TaskPool -------------------------------
(***************************************************************************)
(* What a pool of workers promises, whatever threads and queues it has:    *)
(* tasks are taken while the pool is open, each runs once, and the pool is *)
(* closed only when every task that was taken has run.                     *)
(***************************************************************************)
CONSTANT Task

VARIABLES open, taken, done

tpvars == <<open, taken, done>>

TaskInit == open = FALSE /\ taken = {} /\ done = {}

Open == ~ open /\ open' = TRUE /\ UNCHANGED <<taken, done>>

Take(t) ==
  /\ open /\ t \notin taken
  /\ taken' = taken \cup {t}
  /\ UNCHANGED <<open, done>>

Run(t) ==
  /\ t \in taken \ done
  /\ done' = done \cup {t}
  /\ UNCHANGED <<open, taken>>

Close == open /\ done = taken /\ open' = FALSE /\ UNCHANGED <<taken, done>>

TaskNext == Open \/ Close \/ \E t \in Task : Take(t) \/ Run(t)

TaskSpec == TaskInit /\ [][TaskNext]_tpvars
==============================================================================
