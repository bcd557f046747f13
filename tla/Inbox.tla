------------------------------- MODULE Inbox -------------------------------
(***************************************************************************)
(* What an actor's mailbox promises, whatever its internal queues: a       *)
(* bounded bag.  A message is accepted at most once, an accepted message   *)
(* is handed out at most once, nothing is handed out that was not accepted *)
(* first, and the number the mailbox reports is the number of messages     *)
(* accepted and not yet handed out.  The order is left open.               *)
(***************************************************************************)
EXTENDS Integers

CONSTANTS
  Envelopes,      (* every message that can be offered                      *)
  Capacity        (* the number of messages held at most                    *)

VARIABLES
  accepted,       (* messages the mailbox has said yes to, ever             *)
  taken,          (* messages it has handed out, ever                       *)
  size            (* the length it reports                                  *)

inboxVars == <<accepted, taken, size>>

Init ==
  /\ accepted = {}
  /\ taken = {}
  /\ size = 0

Accept(m) ==
  /\ size < Capacity
  /\ m \notin accepted
  /\ accepted' = accepted \cup {m}
  /\ size' = size + 1
  /\ UNCHANGED taken

TakeOne(m) ==
  /\ m \in accepted \ taken
  /\ taken' = taken \cup {m}
  /\ size' = size - 1
  /\ UNCHANGED accepted

TakeAll ==
  /\ taken' = accepted
  /\ size' = 0
  /\ UNCHANGED accepted

Next ==
  \/ \E m \in Envelopes : Accept(m) \/ TakeOne(m)
  \/ TakeAll

Spec == Init /\ [][Next]_inboxVars
=============================================================================
