------------------------------ MODULE Delivery ------------------------------
(***************************************************************************)
(* What a work queue promises for each message, whatever workers, crashes  *)
(* and retries there are: at-least-once delivery.  A message published     *)
(* waits until it is handled, given up or lost.  A message that was        *)
(* handled may be handed out again as long as its acknowledgement is       *)
(* missing ("again"); once that is over it is "done" and, like one given   *)
(* up or lost, is never handed out again.                                  *)
(***************************************************************************)
CONSTANT Msgs

VARIABLE fate

Fates == {"unsent", "waiting", "again", "done", "dead", "lost"}

TypeOK == fate \in [Msgs -> Fates]

Init == fate = [m \in Msgs |-> "unsent"]

(* A handler returned; the acknowledgement came through, or did not.       *)
Handle(m) ==
    /\ fate[m] = "waiting"
    /\ \E f \in {"done", "again"} : fate' = [fate EXCEPT ![m] = f]

(* What a message becomes whose last copy goes: one that was handled is    *)
(* done, not lost.                                                         *)
Gone(f) == IF f = "again" THEN "done" ELSE "lost"

(* Messages leave: several in one step, for trimming drops a prefix; a     *)
(* handled one also when its acknowledgement comes through at last.        *)
Leave(S) ==
    /\ \A m \in S : fate[m] \in {"waiting", "again", "dead"}
    /\ fate' = [m \in Msgs |-> IF m \in S THEN Gone(fate[m]) ELSE fate[m]]

(* Adding a message or giving one up trims as well.                        *)
Send(m, S) ==
    /\ fate[m] = "unsent"
    /\ \A x \in S : fate[x] \in {"waiting", "again"}
    /\ fate' = [x \in Msgs |-> IF x = m THEN "waiting"
                              ELSE IF x \in S THEN Gone(fate[x]) ELSE fate[x]]

GiveUp(m, S) ==
    /\ fate[m] = "waiting"
    /\ \A x \in S : fate[x] = "dead"
    /\ fate' = [x \in Msgs |-> IF x = m THEN "dead" ELSE IF x \in S THEN "lost" ELSE fate[x]]

Next ==
    \/ \E m \in Msgs :
          \/ \E S \in SUBSET (Msgs \ {m}) : Send(m, S) \/ GiveUp(m, S)
          \/ Handle(m)
    \/ \E S \in SUBSET Msgs : Leave(S)

Spec == Init /\ [][Next]_fate
=============================================================================
