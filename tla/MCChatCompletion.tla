-------------------------- MODULE MCChatCompletion --------------------------
\* A small instance of ChatCompletion alone for TLC.
EXTENDS ChatCompletion

Alphabet == {"d", "e", "n", "m", "k", "a"}
Between == Alphabet \ {"m", "k"}

\* Streams of two events, each harmless by itself.
Delta(text) == <<"d">> \o text \o <<"e", "n", "n">>
FewSayings == {x \o y : x, y \in {Delta(<<"a">>), Delta(<<"k">>)}}

\* A prompt to be streamed, or not.
Prompts == [messages : {Absent}, prompt : {3}, stream : BOOLEAN]
FirstThenAnthropic == <<"openai", "anthropic">>
=============================================================================
