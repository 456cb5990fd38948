----------------------------- MODULE MCSession -----------------------------
(***************************************************************************)
(* Session for TLC: two ways to build and start a server that differ in    *)
(* every option, a build with assertions, and an event mask.               *)
(***************************************************************************)
EXTENDS Session

Plain   == [allow_exit |-> TRUE,  auto_dump |-> FALSE, ndebug |-> TRUE]
Careful == [allow_exit |-> FALSE, auto_dump |-> TRUE,  ndebug |-> FALSE]
Debug   == [allow_exit |-> TRUE,  auto_dump |-> FALSE, ndebug |-> FALSE]

BothOptions == {Plain, Careful}
DebugBuild  == {Debug}
LogAndCfg   == {{"log", "cfg"}}
AllEvents   == {Events}
=============================================================================
