----------------------------- MODULE MCLlmClient -----------------------------
(***************************************************************************)
(* Instances of LlmClient for TLC.                                         *)
(***************************************************************************)
EXTENDS LlmClient
CONSTANTS groq, gemini, sarvam, unknown

MCNames == {groq, gemini, sarvam, unknown}
MCRegistered == {groq, gemini, sarvam}
MCKeyed == {groq, gemini}
=============================================================================
