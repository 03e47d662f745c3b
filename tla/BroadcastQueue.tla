--------------------------- MODULE BroadcastQueue ---------------------------
(* What a message queue between processes promises: messages are numbered   *)
(* in the order in which the one writer sends them, and every reader gets   *)
(* every message once, in that order, at its own pace.                      *)
EXTENDS Naturals, Sequences

CONSTANT Readers

VARIABLES
  sent,   \* number of messages the writer has sent
  got     \* got[r]: the messages reader r has received

vars == <<sent, got>>

Init == /\ sent = 0
        /\ got = [r \in Readers |-> <<>>]

Send == /\ sent' = sent + 1
        /\ UNCHANGED got

Receive(r) == /\ Len(got[r]) < sent
              /\ got' = [got EXCEPT ![r] = Append(@, Len(@) + 1)]
              /\ UNCHANGED sent

Next == Send \/ \E r \in Readers : Receive(r)

Spec == Init /\ [][Next]_vars /\ \A r \in Readers : WF_vars(Receive(r))
=============================================================================
