--------------------------- MODULE MCErrorWindow ---------------------------
(* ErrorWindow for TLC: one group of up to two instances. *)
EXTENDS ErrorWindow

Nothing == [instances |-> Unset, status |-> Unset, killsig |-> NULL, age |-> 0,
            heartbeat |-> FALSE, fatal |-> FALSE, command |-> FALSE, ids |-> FALSE]
StartTwo == [Nothing EXCEPT !.command = TRUE, !.status = STATUS_RUNNING, !.instances = 2]

AllUpdates == {[Nothing EXCEPT !.status = STATUS_RUNNING],
               [Nothing EXCEPT !.status = STATUS_STOPPED],
               [Nothing EXCEPT !.status = STATUS_BROKEN],
               [Nothing EXCEPT !.instances = 1], [Nothing EXCEPT !.instances = 2]}

NoUpdates == {}
=============================================================================
