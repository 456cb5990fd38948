------------------------------ MODULE Startup ------------------------------
(***************************************************************************)
(* How a server takes the socket (cmd_server): it looks for a server that  *)
(* answers, removes a socket nobody answers on, binds its own and listens. *)
(* Several servers may do this at the same time; nothing locks.            *)
(*                                                                         *)
(* Failures that have nothing to do with the socket (directory, log file)  *)
(* end the process, as Stopped does.                                       *)
(*                                                                         *)
(* The processes of a dump are started before the listening socket gets    *)
(* FD_CLOEXEC (cmd_server.c:2466): they hold it for as long as they run,   *)
(* and nobody accepts there once the server has ended.                     *)
(***************************************************************************)
EXTENDS Integers

CONSTANTS Servers,    \* processes that run "ubervisor server", one life at a time
          Nobody      \* no server

\* A socket is the one that a server bound in its life of that number.
Sockets == Servers \X Nat

ASSUME ServersAssumption == Nobody \notin Sockets

VARIABLES pc,      \* by server: where it is in cmd_server
          socket,  \* the socket in the file system, or Nobody when there is none
          heirs,   \* the sockets that processes of a dump have inherited
          peer,    \* by server: the socket it has connected to, or Nobody when it
                   \* has not, or reads the end of the stream
          earlier, \* by server: who listened on the socket when it connected, until
                   \* it has its own
          starts   \* by server: how often it has been started

startupVars == <<pc, socket, heirs, peer, earlier, starts>>

Phases == {"off", "connect", "helo", "stat", "unlink", "bind", "listen",
           "load", "restore", "serve"}
Listening(s) == pc[s] \in {"load", "restore", "serve"}

StartupInit ==
    /\ pc = [s \in Servers |-> "off"]
    /\ socket = Nobody
    /\ heirs = {}
    /\ peer = [s \in Servers |-> Nobody]
    /\ earlier = [s \in Servers |-> {}]
    /\ starts = [s \in Servers |-> 0]

Go(s, phase) == pc' = [pc EXCEPT ![s] = phase]

Sock(s) == <<s, starts[s]>>

\* The server that listens on the socket k, if it has not ended.
ListensOn(t, k) == k = Sock(t) /\ Listening(t)

Start(s) ==
    /\ pc[s] = "off"
    /\ Go(s, "connect") /\ starts' = [starts EXCEPT ![s] = @ + 1]
    /\ UNCHANGED <<socket, heirs, peer, earlier>>

\* connect(2) succeeds as soon as the other one listens, and as long as anyone
\* holds its socket; that it is ever accepted is another matter.
sock_connect(s) ==
    /\ pc[s] = "connect"
    /\ LET here == {t \in Servers : ListensOn(t, socket)}
       IN  /\ IF here # {} \/ socket \in heirs
              THEN Go(s, "helo") /\ peer' = [peer EXCEPT ![s] = socket]
              ELSE Go(s, "stat") /\ UNCHANGED peer
           /\ earlier' = [earlier EXCEPT ![s] = here]
    /\ UNCHANGED <<socket, heirs, starts>>

\* Of those connected to the socket k, these read the end of the stream.
CutOff(gone) == peer' = [t \in Servers |-> IF t \in gone THEN Nobody ELSE peer[t]]

\* When a process ends, those it has accepted read the end of the stream, and
\* the others too unless its socket has been inherited.  The socket stays in
\* the file system.
Stopped(s) ==
    /\ Go(s, "off")
    /\ LET connected == {t \in Servers : peer[t] = Sock(s)}
       IN  \E left \in SUBSET connected :
              /\ Sock(s) \notin heirs => left = {}
              /\ pc[s] # "serve" /\ Sock(s) \in heirs => left = connected
              /\ CutOff((connected \ left) \cup {s})
    /\ earlier' = [t \in Servers |-> IF t = s THEN {} ELSE earlier[t] \ {s}]
    /\ UNCHANGED <<socket, heirs, starts>>

\* The last process of a dump that held this socket ends.
HeirsEnd(k) ==
    /\ k \in heirs
    /\ heirs' = heirs \ {k}
    /\ CutOff({t \in Servers : peer[t] = k /\ \A u \in Servers : ~ListensOn(u, k)})
    /\ UNCHANGED <<pc, socket, earlier, starts>>

\* read_reply blocks until the other one answers ("server running?"), or the
\* stream ends.
HeloAnswered(s) == \E t \in Servers : peer[s] = Sock(t) /\ pc[t] = "serve"
HeloRefused_Slow(s)  == peer[s] = Nobody \/ \E t \in Servers : peer[s] = Sock(t) /\ pc[t] = "load"
HeloRefused_Never(s) == FALSE
HeloRefused(s) == peer[s] = Nobody

sock_send_helo(s) ==
    /\ pc[s] = "helo"
    /\ \/ HeloAnswered(s) /\ Stopped(s)
       \/ HeloRefused(s) /\ Go(s, "stat") /\ UNCHANGED <<socket, heirs, peer, earlier, starts>>

stat(s) ==
    /\ pc[s] = "stat"
    /\ Go(s, IF socket = Nobody THEN "bind" ELSE "unlink")
    /\ UNCHANGED <<socket, heirs, peer, earlier, starts>>

\* Whatever socket is there now.
unlink(s) ==
    /\ pc[s] = "unlink"
    /\ \/ /\ socket # Nobody
          /\ socket' = Nobody
          /\ Go(s, "bind")
          /\ UNCHANGED <<heirs, peer, earlier, starts>>
       \/ socket = Nobody /\ Stopped(s)

bind(s) ==
    /\ pc[s] = "bind"
    /\ \/ /\ socket = Nobody
          /\ socket' = Sock(s)
          /\ Go(s, "listen")
          /\ earlier' = [earlier EXCEPT ![s] = {}]
          /\ UNCHANGED <<heirs, peer, starts>>
       \/ socket # Nobody /\ Stopped(s)      \* EADDRINUSE

listen(s) ==
    /\ pc[s] = "listen"
    /\ Go(s, "load")
    /\ UNCHANGED <<socket, heirs, peer, earlier, starts>>

\* The part of cmd_server before the dump is loaded.
TakeSocket(s) ==
    sock_connect(s) \/ sock_send_helo(s) \/ stat(s) \/ unlink(s) \/ bind(s) \/ listen(s)
=============================================================================
