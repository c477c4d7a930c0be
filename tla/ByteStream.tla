----------------------------- MODULE ByteStream -----------------------------
(***************************************************************************)
(* What a response is to its client: a stream of the units 1, 2,            *)
(* ... that are received in the order in which they were sent, and an end,  *)
(* which is "complete" only if nothing is missing: all that is ever sent    *)
(* was received, or exactly the units that were announced.                  *)
(***************************************************************************)
EXTENDS Integers, Sequences

VARIABLES total,    \* units of the response
          length,   \* units that its sender has announced, or -1
          sent,     \* units sent so far
          got,      \* units received
          closed,   \* no more is sent
          ended     \* "no", "complete" or "broken"

vars == <<total, length, sent, got, closed, ended>>

Init == /\ total \in Nat
        /\ length \in Nat \cup {-1}
        /\ sent \in 0..total
        /\ got = <<>>
        /\ closed = FALSE
        /\ ended = "no"

Produce ==
  /\ ~closed
  /\ sent' \in sent..total
  /\ closed' \in BOOLEAN
  /\ UNCHANGED <<total, length, got, ended>>

Deliver ==
  /\ ended = "no"
  /\ \E n \in Len(got) + 1..sent : got' = [u \in 1..n |-> u]
  /\ UNCHANGED <<total, length, sent, closed, ended>>

End ==
  /\ ended = "no"
  /\ \/ ended' = "complete" /\ Len(got) = sent /\ (closed \/ sent = total)
     \/ ended' = "complete" /\ Len(got) = length
     \/ ended' = "broken"
  /\ UNCHANGED <<total, length, sent, got, closed>>

Next == Produce \/ Deliver \/ End

SafetySpec == Init /\ [][Next]_vars

\* Every response comes to an end.
Spec == SafetySpec /\ <>(ended # "no")
=============================================================================
