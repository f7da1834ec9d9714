------------------------------- MODULE MCPlayers -------------------------------
(* Projects for four questions: a scene that plays or loops while the player *)
(* is renamed and deleted and the clock is put right once; scenes that change*)
(* under a player that plays; what two players and their scenes become after *)
(* many changes; and a scene that is selected as the player stops.           *)
EXTENDS Players

CONSTANTS a, b, one, two, verse, chorus

Scene(nm, mode, length) ==
  [player |-> 1, name |-> nm, mode |-> mode, start |-> 1, length |-> length]

Project(other, paths, its, sessions, time, leaps, changes) ==
  [name |-> [p \in Players |-> IF p = 1 THEN a ELSE other], scenes |-> its,
   left |-> [sessions |-> sessions, time |-> time, leaps |-> leaps, changes |-> changes,
             players |-> {1}, paths |-> paths]]

Both == [s \in {one, two} |-> IF s = one THEN Scene(verse, "play", 2) ELSE Scene(chorus, "loop", 2)]
Single(mode, length) == [s \in {one} |-> Scene(verse, mode, length)]

MCProjects ==
  {Project(Nowhere, {a}, Both, 2, 3, 1, 0),
   Project(Nowhere, {a, b}, Both, 2, 2, 0, 0),
   Project(Nowhere, {a}, Single("play", 1), 2, 1, 0, 1),
   Project(Nowhere, {a}, Single("hold", 1), 1, 0, 0, 2),
   Project(b, {}, Single("loop", 1), 1, 0, 0, 1)}

StopProjects == {Project(Nowhere, {a}, Single("play", 2), 2, 2, 0, 0)}

MCLeaps == {-3, 3}
MCStarts == {-3, 3}
=============================================================================
