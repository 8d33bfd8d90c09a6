----------------------------- MODULE AnswerLedger -----------------------------
(***************************************************************************)
(* What the coordinator promises the worker, with everything about ticks,  *)
(* queues and the SDK left out: the worker issues requests, each request   *)
(* is answered at most once, and every request is eventually answered      *)
(* unless the run has ended (completed, or its workflow task failed).      *)
(* A step may issue several requests and answer several earlier ones at    *)
(* once, as one frame exchange does.                                       *)
(***************************************************************************)
EXTENDS Naturals

CONSTANT Ids           \* request ids

VARIABLES
  requests,  \* ids the worker has issued that expect an answer
  answers,   \* answers[i]: how many answers request i has received
  ended      \* the run is over

vars == <<requests, answers, ended>>

Init ==
  /\ requests = {}
  /\ answers = [i \in Ids |-> 0]
  /\ ended = FALSE

\* One exchange: new requests R, answers to the open requests A.
Exchange(R, A) ==
  /\ R \cap requests = {}
  /\ \A a \in A : a \in requests /\ answers[a] = 0
  /\ requests' = requests \cup R
  /\ answers' = [i \in Ids |-> IF i \in A THEN 1 ELSE answers[i]]
  /\ UNCHANGED ended

End ==
  /\ ~ended
  /\ ended' = TRUE
  /\ UNCHANGED <<requests, answers>>

Next ==
  \/ \E R \in SUBSET Ids, A \in SUBSET Ids : Exchange(R, A)
  \/ End

SafeSpec == Init /\ [][Next]_vars

(* The promise: once issued, a request is answered or the run ends.         *)
Spec ==
  /\ SafeSpec
  /\ \A i \in Ids : (i \in requests) ~> (answers[i] = 1 \/ ended)

=============================================================================
