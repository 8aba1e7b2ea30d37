---------------------------- MODULE RemoteCalls ----------------------------
(***************************************************************************)
(* The run executor's calls to the two services it depends on: the          *)
(* embedding provider's reply is read first, and what was read travels in   *)
(* the vector_batch_upsert of the same chunk (application/execute_run.rs).  *)
(***************************************************************************)
EXTENDS McpClient, EmbeddingReply

(* A text never gets the vector of another text: when the executor calls the *)
(* store, no reply of the provider, in any order, with indices missing or    *)
(* twice or a vector of the wrong dimension, was taken for something else.   *)
EmbeddingsMatchInputs == call[Executor].at = "calling" => MisreadReplies = {}
=============================================================================
