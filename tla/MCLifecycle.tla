---------------------------- MODULE MCLifecycle ----------------------------
(***************************************************************************)
(* Lifecycle for TLC: two names with one bucket, and the ways to start     *)
(* servers: one again and again, or two against each other.                *)
(***************************************************************************)
EXTENDS Lifecycle, TLC

CONSTANTS a, b, s1, s2

Collide == a :> 1 @@ b :> 3

AfterEachOther   == s1 :> 3 @@ s2 :> 0
AgainstEachOther == s1 :> 2 @@ s2 :> 1
Twice            == s1 :> 2 @@ s2 :> 0
AtOnce           == s1 :> 1 @@ s2 :> 1

Way(auto_dump, load_latest, config, lives) ==
    [auto_dump |-> auto_dump, load_latest |-> load_latest, config |-> config, lives |-> lives]

SomeOptions ==
    { Way(FALSE, FALSE, File("whole", <<a, a>>, 1, 1), AgainstEachOther),
      Way(FALSE, FALSE, File("part", <<>>, 1, 1), Twice),
      Way(TRUE, TRUE, NoConfig, AfterEachOther),
      Way(TRUE, TRUE, NoConfig, AtOnce),
      Way(TRUE, TRUE, File("whole", <<b, a>>, 1, 1), Twice),
      Way(FALSE, TRUE, NoConfig, Twice) }
=============================================================================
