----------------------------- MODULE MCInference -----------------------------
(* Instance for model checking Inference. *)
EXTENDS Inference

MCAvailables == {{"anthropic", "openai", "google"}, {"openai"}}
MCModels == {"claude", "o3", "gemini", "other"}
MCReplies == {<<0>>, <<1>>, <<0, 2, 1>>, <<1, 1>>, <<0, 0>>}
=============================================================================
