----------------------------- MODULE MCMailbox -----------------------------
(* Bounds for Mailbox: capacity 8 gives queues of 2 and an overflow of 1,  *)
(* the smallest at which all three limits differ.                          *)
EXTENDS Mailbox

CONSTANTS t1, t2

MCTags == {t1, t2}

Low == 0
Normal == 1
High == 2
Critical == 3

(* Two fixed sends, then open ones; nine sends can reach the total of 8.   *)
MCTraffic ==
  [n \in 0 .. MaxSends - 1 |->
    CASE n = 0 -> {<<High, NoTag>>, <<Critical, t1>>}
      [] n = 1 -> {<<High, NoTag>>}
      [] n \in {2, 3} -> {<<Normal, t2>>}
      [] OTHER -> {<<Low, t1>>, <<Critical, t1>>, <<Critical, t2>>}]
=============================================================================
