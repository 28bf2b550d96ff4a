----------------------------- MODULE SerialWorker -----------------------------
(* What mlx/mlxthread promises its callers: functions run one at a time on   *)
(* one thread, each at most once; a call that is refused does not run its    *)
(* function, now or later; nothing runs after a cleanup; and a Stop that     *)
(* reports success without running its cleanup found the thread closed.      *)
CONSTANTS Dos, Stops, NoCall

VARIABLES open, current, outcome
vars == <<open, current, outcome>>

Calls == Dos \cup Stops
Outcomes == {"none", "ran", "refused", "joined"}

Init == open = TRUE /\ current = NoCall /\ outcome = [c \in Calls |-> "none"]

Run(c) ==
  /\ open /\ current = NoCall /\ outcome[c] = "none"
  /\ current' = c
  /\ UNCHANGED <<open, outcome>>

\* The end of a cleanup closes the thread.
Finish ==
  /\ current # NoCall
  /\ outcome' = [outcome EXCEPT ![current] = "ran"]
  /\ open' = (current \in Dos)
  /\ current' = NoCall

Refuse(c) ==
  /\ outcome[c] = "none" /\ c # current
  /\ outcome' = [outcome EXCEPT ![c] = "refused"]
  /\ UNCHANGED <<open, current>>

Join(s) ==
  /\ ~open /\ outcome[s] = "none"
  /\ outcome' = [outcome EXCEPT ![s] = "joined"]
  /\ UNCHANGED <<open, current>>

\* The function given to Start failed: there is no thread.
NeverStarts ==
  /\ open /\ current = NoCall /\ \A c \in Calls : outcome[c] = "none"
  /\ open' = FALSE
  /\ UNCHANGED <<current, outcome>>

Next ==
  \/ \E c \in Calls : Run(c) \/ Refuse(c)
  \/ \E s \in Stops : Join(s)
  \/ Finish \/ NeverStarts

Spec == Init /\ [][Next]_vars
=============================================================================
