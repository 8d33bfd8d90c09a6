----------------------- MODULE MCWorkflowCoordinator -----------------------
(* Model-checking harness for WorkflowCoordinator: the constants are given *)
(* per run in the .cfg files.  It also maps the coordinator onto the       *)
(* abstract AnswerLedger: the requests are the worker commands that expect *)
(* an answer, the answers are counted in what the worker received, and    *)
(* the run has ended once env.Complete was called or the task failed.      *)
EXTENDS WorkflowCoordinator

(* Typed search-attribute maps for UpsertWorkflowTypedSearchAttributes,    *)
(* as the worker's JSON decodes them (nil, bool, float64, string, []any):   *)
(* a bad Datetime next to a valid Bool; a digit string for an Int and a     *)
(* []any KeywordList with a non-string element; a fractional float64 Int    *)
(* and an Unset; a valid Datetime and a missing Float value; the empty map. *)
BadDatetimeBatch ==
  [k1 |-> TSA!Attr("Datetime", "set", TSA!Val("string", "soon")),
   k2 |-> TSA!Attr("Bool", "set", TSA!Val("bool", TRUE))]
ConvertedBatch ==
  [k1 |-> TSA!Attr("Int", "set", TSA!Val("string", "12")),
   k2 |-> TSA!Attr("KeywordList", "set",
                   TSA!Val("list", <<TSA!Val("string", "gold"), TSA!Val("float64", 3)>>))]
UnsetBatch ==
  [k1 |-> TSA!Attr("Int", "set", TSA!Val("float64", 5)),
   k2 |-> TSA!Attr("KeywordList", "unset", TSA!Val("nil", 0))]
PartlySkippedBatch ==
  [k1 |-> TSA!Attr("Datetime", "set", TSA!Val("string", "2024-05-01T10:00:00Z")),
   k2 |-> TSA!Attr("Float", "set", TSA!Val("nil", 0))]
MCTypedInputs ==
  {BadDatetimeBatch, ConvertedBatch, UnsetBatch, PartlySkippedBatch, <<>>}
MCTypedInputsFaults == {ConvertedBatch}

Ledger == INSTANCE AnswerLedger WITH
  Ids <- Ids,
  requests <- {i \in 1 .. Len(wlog) : wlog[i].cmd \in Answerable},
  answers <- [i \in Ids |->
                Cardinality({k \in 1 .. Len(delivered) : IsAnswer(delivered[k], i)})],
  ended <- completed \/ failed

(* The coordinator implements the ledger's safety part: every flush only    *)
(* answers requests the worker already issued and that have no answer yet,  *)
(* across ticks, mid-dispatch flushes, inline and deferred callbacks,       *)
(* failed exchanges and queries.                                            *)
LedgerSafeSpec == Ledger!SafeSpec

=============================================================================
