---------------------------- MODULE MCStreaming -----------------------------
(***************************************************************************)
(* A small instance of Streaming for TLC.                                  *)
(***************************************************************************)
EXTENDS Streaming, TLC

MCPairs == {<<"openai", "anthropic">>, <<"anthropic", "openai">>, <<"anthropic", "anthropic">>}
MCObjects == {<<1>>}
MCReasons == ("openai" :> {"length", "content_filter"}) @@ ("anthropic" :> {"max_tokens"})
=============================================================================
