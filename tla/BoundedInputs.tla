----------------------------- MODULE BoundedInputs -----------------------------
(***************************************************************************)
(* The functions of the gateway and of its tools that no other thread can  *)
(* disturb, over all small inputs.  Chunking and ConfigLayers take their   *)
(* steps; the others take an input at once.  A case is which function, and *)
(* the input of the latter.                                                *)
(***************************************************************************)
EXTENDS Chunking, MCConfigLayers

Catalog == INSTANCE VoiceCatalog        \* with PiperModels
Choice == INSTANCE PlayerChoice
Faulty == INSTANCE ProviderFaults
Gate == INSTANCE Doors
Cli == INSTANCE CommandLine
Script == INSTANCE HookScript

VARIABLE case

NoCase == [of |-> "none"]
Text == [of |-> "text"]
Configuration == [of |-> "settings"]

NoText ==
    /\ text = <<>> /\ enabled = FALSE /\ stage = "plan" /\ at = 0 /\ start = 0
    /\ pieces = <<>> /\ rest = <<>> /\ chunks = <<>>

NoConfiguration ==
    /\ file = NoSettings /\ env = <<>> /\ overrides = NoSettings /\ settings = NoSettings
    /\ loaded = FALSE

BoundedInit ==
    /\ turns = 0
    /\ \/ case = Text /\ PlanInit /\ NoConfiguration
       \/ case = Configuration /\ ConfigInit /\ NoText
       \/ case = NoCase /\ NoText /\ NoConfiguration

Split == case = Text /\ Turn /\ UNCHANGED <<configVars, case>>

Configure == case = Configuration /\ ConfigNext /\ UNCHANGED <<planVars, turns, case>>

Consider(what, inputs) ==
    /\ case = NoCase
    /\ \E input \in inputs : case' = [of |-> what, input |-> input]
    /\ UNCHANGED <<planVars, turns, configVars>>

BoundedNext ==
    \/ Split
    \/ Configure
    \/ Consider("piper", Catalog!Installations)
    \/ Consider("manifest", Catalog!Manifests)
    \/ Consider("player", Choice!Machines)
    \/ Consider("attempt", Faulty!Attempts)
    \/ Consider("visitor", Gate!Visitors)
    \/ Consider("order", Gate!Orders)
    \/ Consider("setup", Cli!Setups)
    \/ Consider("call", Cli!Calls)
    \/ Consider("download", Cli!Downloads)
    \/ Consider("start", Cli!Starts)
    \/ Consider("init", Cli!Inits)
    \/ Consider("payload", Script!Payloads)
    \/ Consider("spoken", Script!Texts)

boundedVars == <<planVars, turns, configVars, case>>

BoundedSpec == BoundedInit /\ [][BoundedNext]_boundedVars

-----------------------------------------------------------------------------

Of(what, Property(_)) == case.of = what => Property(case.input)

\* "Raise SynthesisError on failure; any other exception is treated as a bug in
\* the provider": every fault of a network, a process or a library is told so,
\* but for exactly the exceptions that ProviderFaults names, and only a valid
\* request behind which all is well is spoken.
FaultsAreTold == Of("attempt", Faulty!FaultsAreTold)

\* Both doors to /v1, HTTP and WebSocket, let in the same visitors, but the one
\* whose right token is padded with spaces; and the OpenAI-compatible endpoint
\* hands out what was ordered or an error.
DoorsAgree == Of("visitor", Gate!DoorsAgree) /\ Of("order", Gate!SpeechAsOrdered)

\* What is offered can be used.  What piper and the players say they can do and
\* what they then do with a request or a clip are decided apart, and agree; what
\* `tts-daemon download` lists, it fetches to where the providers of a server with
\* the same configuration look, under names they resolve.
OfferedIsUsable ==
    /\ Of("piper", Catalog!PiperAgrees) /\ Of("player", Choice!PlayerAgrees)
    /\ Of("setup", Cli!LandsWhereLooked)
    /\ case.of = "manifest" =>
          \A i \in [binary : {TRUE}, models : [Catalog!Models -> {"none", "file"}],
                    labelled : {{}}, default : {Catalog!NoVoice}] :
              Catalog!ListedIsUsable(case.input, i)

\* The exit status of a command, and whether it explains itself, tell what was
\* done: by the gateway, to the files of a download, or not at all.
ExitTellsTruth ==
    /\ Of("call", Cli!CallsTellTruth) /\ Of("download", Cli!DownloadsTellTruth)
    /\ Of("start", Cli!StartsTellTruth) /\ Of("init", Cli!InitsTellTruth)

\* The hook says the newest reply, cut at a word, and fails only for the
\* payloads that HookScript names.
HookSpeaksLastReply ==
    /\ case.of = "payload" => \A g \in Script!Gateways : Script!HookSays(case.input, g)
    /\ case.of = "spoken" => \A limit \in 0..6 : Script!TruncatesWell(case.input, limit)
=============================================================================
