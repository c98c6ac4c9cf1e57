------------------------- MODULE MCProviderRegistry -------------------------
(* A small instance of the registry: a provider that loads an engine and may *)
(* or may not be installed, and one whose voices() raises (elevenlabs lets a *)
(* connection reset out of urllib through).                                  *)
EXTENDS ProviderRegistry

MCCatalog == <<"elevenlabs", "kokoro">>
MCPriority == <<"kokoro", "elevenlabs">>
MCInstalled == {"elevenlabs"}
MCEngines == {"kokoro"}
MCCrashing == {"elevenlabs"}

\* Requests are interchangeable.
MCSymmetry == Permutations(Threads)
=============================================================================
