---------------------------- MODULE MCCoreClient ----------------------------
(* CoreClient with two conversations, in two directories: a page or a      *)
(* terminal by itself, or both with a socket each.                         *)
EXTENDS CoreClient, TLC

CONSTANTS c1, c2, d1, d2, p1, p2

MCPlace == c1 :> d1 @@ c2 :> d2

Beginning(first, second, there, used, untrusted, asked, troubled) ==
  [kinds |-> p1 :> first @@ p2 :> second, stored |-> there, last |-> used,
   resources |-> untrusted, asks |-> asked, troubles |-> troubled]
MCBeginnings ==
  {Beginning("web", "unused", {}, None, {d1}, 0, 0),
   Beginning("web", "unused", {c1, c2}, c2, {d2}, 0, 0),
   Beginning("tui", "unused", {c1, c2}, c2, {d1, d2}, 1, 0),
   Beginning("tui", "unused", {c2}, c2, {}, 0, 1),
   Beginning("web", "tui", {c1}, c1, {d1}, 1, 0)}
=============================================================================
