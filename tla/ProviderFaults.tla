----------------------------- MODULE ProviderFaults -----------------------------
(***************************************************************************)
(* What the engines make of requests and of the faults of the network, the *)
(* process or the library behind them: synthesize() and voices() of        *)
(* elevenlabs, openai, edge, piper and tone (kokoro: ProviderRegistry).    *)
(*                                                                         *)
(* A request has speed (positive or not), options (those the engine knows, *)
(* of the right type; "mistyped", text that is no number; "shapeless", a   *)
(* list or mapping; or unknown ones) and voice: known, unknown, or "odd",  *)
(* which fits neither a URL nor a path (spaces, "~nobody").  The settings  *)
(* are good, lack the key (package, binary), or hold a base_url that is no *)
(* URL or a key that no header can carry.  The fault is what happens       *)
(* behind.  An attempt ends with what is returned or raised, and tells     *)
(* whether the text was handed to the engine.                              *)
(***************************************************************************)
EXTENDS Naturals

Engines == {"elevenlabs", "openai", "edge", "piper", "tone"}
Cloud == {"elevenlabs", "openai"}

Settings(e) == {"good", "missing"} \cup IF e \in Cloud THEN {"bad url", "bad key"} ELSE {}

\* "unreachable": DNS, TLS, a refused connection, a connect timeout; "reset": a
\* connection closed without an answer; "garbled": an answer that is no HTTP;
\* "cut": a body shorter than announced, "shortened": one whose length nobody
\* announced; "page": a 200 that is neither audio nor JSON; "null": JSON in which
\* voices is no list; "crash": the library or the process fails.
Web == {"none", "unreachable", "status", "slow", "reset", "garbled", "cut", "shortened",
        "page", "null", "empty"}

Faults ==
    [elevenlabs |-> Web,
     openai |-> Web,
     edge |-> {"none", "crash", "empty"},
     piper |-> {"none", "no space", "not executable", "slow", "crash", "no file", "empty"},
     tone |-> {"none"}]

Attempts ==
    UNION {[engine : {e}, speed : BOOLEAN,
            options : {"none", "known", "mistyped", "shapeless", "unknown"},
            voice : {"known", "unknown", "odd"}, settings : Settings(e),
            fault : Faults[e]] : e \in Engines}

Returned(what) == [ends |-> what, sent |-> TRUE]
Raised(exc) == [ends |-> exc, sent |-> TRUE]
Refused(exc) == [ends |-> exc, sent |-> FALSE]

Damaged == {"page", "null", "shortened"}

\* urlopen and read(), external: what they return or raise.
Answer(fault) ==
    CASE fault \in {"unreachable", "status"} -> Raised("URLError")
      [] fault = "slow" -> Raised("TimeoutError")
      [] fault = "reset" -> Raised("ConnectionResetError")
      [] fault = "garbled" -> Raised("BadStatusLine")
      [] fault = "cut" -> Raised("IncompleteRead")
      [] OTHER -> Returned(fault)

\* Mutant: urlopen's own errors are thought to be all there are.
MutantRequestBytes(settings, path, fault) ==
    CASE settings = "bad url" -> Refused("ValueError")
      [] settings # "bad url" /\ path = "odd" -> Refused("InvalidURL")
      [] settings = "bad key" /\ path # "odd" -> Refused("ValueError")
      [] OTHER -> IF Answer(fault).ends = "URLError" THEN Raised("SynthesisError")
                  ELSE Answer(fault)

\* _http.request_bytes: the Request is made, and its headers are, before anything
\* is sent; of what the answer raises, URLError and TimeoutError are caught.
RequestBytes(settings, path, fault) ==
    CASE settings = "bad url" -> Refused("ValueError")
      [] settings # "bad url" /\ path = "odd" -> Refused("InvalidURL")
      [] settings = "bad key" /\ path # "odd" -> Refused("ValueError")
      [] OTHER -> IF Answer(fault).ends \in {"URLError", "TimeoutError"}
                  THEN Raised("SynthesisError") ELSE Answer(fault)

\* A body becomes a clip, of audio or not, unless it is empty.
Body(result) ==
    CASE result.ends = "none" -> Returned("clip")
      [] result.ends = "empty" -> Raised("SynthesisError")
      [] result.ends \in Damaged -> Returned("damaged clip")
      [] OTHER -> result

\* The service behind has no audio for a voice it does not know.
Told(a) == IF a.fault = "none" /\ a.voice # "known" THEN "status" ELSE a.fault

\* The voice is a part of the URL, as it is given.
ElevenLabs(a) ==
    IF ~a.speed \/ a.settings = "missing" \/ a.options \notin {"none", "known"}
    THEN Refused("SynthesisError")
    ELSE Body(RequestBytes(a.settings, a.voice, Told(a)))

\* It has no options, and the voice is in the body.
OpenAI(a) ==
    IF ~a.speed \/ a.options # "none" \/ a.settings = "missing" THEN Refused("SynthesisError")
    ELSE Body(RequestBytes(a.settings, "fixed", Told(a)))

\* Whatever edge-tts raises is wrapped, for a pitch, a volume or a voice it cannot
\* use too; they are passed as text.
Edge(a) ==
    IF ~a.speed \/ a.settings = "missing" \/ a.options = "unknown"
    THEN Refused("SynthesisError")
    ELSE IF a.fault = "crash" \/ a.options \in {"mistyped", "shapeless"} \/ a.voice # "known"
    THEN Raised("SynthesisError")
    ELSE Body(Returned(a.fault))

\* The model is resolved first (expanduser), then int(speaker) is evaluated, then
\* the rest of the options; the directory is made before the binary is looked for,
\* and a binary that cannot be executed is not "not found".
Piper(a) ==
    CASE ~a.speed \/ a.voice = "unknown" -> Refused("SynthesisError")
      [] a.speed /\ a.voice = "odd" -> Refused("RuntimeError")
      [] a.speed /\ a.voice = "known" ->
            CASE a.options = "mistyped" -> Refused("ValueError")
              [] a.options = "shapeless" -> Refused("TypeError")
              [] a.options = "unknown" -> Refused("SynthesisError")
              [] a.options \in {"none", "known"} ->
                    IF a.fault = "no space" THEN Refused("OSError")
                    ELSE IF a.settings = "missing" THEN Refused("SynthesisError")
                    ELSE IF a.fault = "not executable" THEN Refused("PermissionError")
                    ELSE IF a.fault \in {"slow", "crash", "no file"}
                    THEN Raised("SynthesisError")
                    ELSE Body(Returned(a.fault))

\* Beeps need nothing but a known voice.
Tone(a) ==
    IF a.voice # "known" \/ ~a.speed \/ a.options # "none" THEN Refused("SynthesisError")
    ELSE Returned("clip")

Synthesize(a) ==
    CASE a.engine = "elevenlabs" -> ElevenLabs(a)
      [] a.engine = "openai" -> OpenAI(a)
      [] a.engine = "edge" -> Edge(a)
      [] a.engine = "piper" -> Piper(a)
      [] a.engine = "tone" -> Tone(a)

\* voices() of elevenlabs: what is neither caught nor a list of voices escapes.
ElevenLabsVoices(a) ==
    LET result == RequestBytes(a.settings, "fixed", a.fault).ends
    IN  CASE a.settings = "missing" -> "nothing"
          [] a.settings # "missing" /\ result = "none" -> "voices"
          [] a.settings # "missing" /\ result = "null" -> "TypeError"
          [] a.settings # "missing" /\
                result \in {"SynthesisError", "page", "shortened", "empty"} -> "nothing"
          [] OTHER -> result

\* voices(): elevenlabs and edge ask the service, and answer with nothing when a
\* key or package is missing or (as far as they catch it) the service fails.
ListVoices(a) ==
    CASE a.engine = "elevenlabs" -> ElevenLabsVoices(a)
      [] a.engine = "edge" ->
            IF a.settings = "missing" \/ a.fault # "none" THEN "nothing" ELSE "voices"
      [] OTHER -> "voices"

-----------------------------------------------------------------------------

\* What the engine asks of a request; the voice is for the service, or the files.
Valid(a) ==
    /\ a.speed /\ a.options \in IF a.engine \in {"openai", "tone"} THEN {"none"}
                                ELSE {"none", "known"}
    /\ a.settings # "missing" \/ a.engine = "tone"

Torn == {"reset", "garbled", "cut"}

\* The exceptions that are not the SynthesisError of the contract, and when: a
\* valid request to a cloud whose base_url is no URL or whose key is no header,
\* for a voice of elevenlabs that is no part of a URL, or whose answer is torn; of
\* piper, a voice that is no path, a speaker that is no number, no room for the
\* directory and a binary that is not executable.
Escapes(a) ==
    \/ /\ a.engine \in Cloud /\ Valid(a)
       /\ \/ a.settings # "good" \/ a.fault \in Torn
          \/ a.engine = "elevenlabs" /\ a.voice = "odd"
    \/ /\ a.engine = "piper" /\ a.speed
       /\ \/ a.voice = "odd"
          \/ a.voice = "known" /\ a.options \in {"mistyped", "shapeless"}
          \/ /\ a.voice = "known" /\ a.options \in {"none", "known"}
             /\ \/ a.fault = "no space"
                \/ a.fault = "not executable" /\ a.settings = "good"

\* The same for a listing, of which only that of elevenlabs can raise.
ListingEscapes(a) ==
    /\ a.engine = "elevenlabs" /\ a.settings # "missing"
    /\ a.settings # "good" \/ a.fault \in Torn \cup {"null"}

\* "Raise SynthesisError on failure; any other exception is treated as a bug in
\* the provider": faults are told so but for exactly those of Escapes, and
\* "voices() never raises" but for exactly those of ListingEscapes.  A valid
\* request behind which all is well is spoken, and no other is, but that a cloud's
\* answer is not checked to be audio nor, if it does not tell its length, to be
\* whole.  No text goes out for a request that is refused.
FaultsAreTold(a) ==
    LET attempt == Synthesize(a)
    IN  /\ attempt.ends \notin {"clip", "damaged clip", "SynthesisError"} <=> Escapes(a)
        /\ ListVoices(a) \notin {"voices", "nothing"} <=> ListingEscapes(a)
        /\ attempt.ends = "clip" <=>
              Valid(a) /\ a.fault = "none" /\ a.voice = "known" /\ ~Escapes(a)
        /\ attempt.ends = "damaged clip" =>
              a.engine \in Cloud /\ Valid(a) /\ a.fault \in Damaged
        /\ attempt.sent /\ a.engine # "edge" => Valid(a)
=============================================================================
