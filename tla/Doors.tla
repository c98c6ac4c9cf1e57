--------------------------------- MODULE Doors ---------------------------------
(***************************************************************************)
(* api/auth.py and api/openai_compat.py: who is let in, over HTTP and over *)
(* a WebSocket, and what the OpenAI-compatible door hands out.             *)
(*                                                                         *)
(* A visitor has an Authorization header and a ?token= parameter; "empty"  *)
(* is a Bearer header or a parameter without a token, "padded" the right   *)
(* token after two spaces, "foreign" a token that is not ASCII.  The token *)
(* expected may be none, or not be ASCII either; HTTPBearer strips what    *)
(* follows Bearer or does not, by the release of FastAPI.                  *)
(***************************************************************************)
EXTENDS Naturals

Visitors ==
    [expected : {"none", "ascii", "foreign"}, strips : BOOLEAN,
     route : {"v1", "ws", "health", "page"},
     header : {"none", "empty", "right", "padded", "wrong", "foreign", "basic"},
     query : {"none", "empty", "right", "wrong", "foreign"}]

NoToken == {"none", "empty", "basic"}

Stripped(token) == IF token = "padded" THEN "right" ELSE token

\* HTTPBearer without auto_error: credentials of a Bearer header, or nothing.
Credentials(v) ==
    IF v.header \in NoToken THEN "none"
    ELSE IF v.strips THEN Stripped(v.header) ELSE v.header

QueryToken(v) == IF v.query = "empty" THEN "none" ELSE v.query

\* secrets.compare_digest takes strings of ASCII only.
Compared(v, provided) ==
    IF provided = "none" THEN "refused"
    ELSE IF "foreign" \in {provided, v.expected} THEN "TypeError"
    ELSE IF provided = "right" THEN "in" ELSE "refused"

\* Mutant: any token that is right will do.
MutantVerify(v) ==
    IF QueryToken(v) = "right" THEN Compared(v, "right") ELSE Compared(v, Credentials(v))

\* verify: the parameter counts when the header brings no credentials.
Verify(v) ==
    Compared(v, IF Credentials(v) # "none" THEN Credentials(v) ELSE QueryToken(v))

\* _token_from_headers and websocket_authorized.
HeaderToken(v) == IF v.header \in NoToken THEN "none" ELSE Stripped(v.header)

SocketAuthorized(v) ==
    Compared(v, IF HeaderToken(v) # "none" THEN HeaderToken(v) ELSE QueryToken(v))

\* create_app: the dependency guards the /v1 routes when a token is configured.
LetIn(v) ==
    CASE v.expected = "none" \/ v.route \in {"health", "page"} -> "in"
      [] v.expected # "none" /\ v.route = "ws" -> SocketAuthorized(v)
      [] v.expected # "none" /\ v.route = "v1" -> Verify(v)

-----------------------------------------------------------------------------
(* POST /v1/audio/speech *)

Orders ==
    [format : {"none", "wav", "mp3"}, model : {"registered", "generic", "unknown"},
     voice : {"aliased", "standard", "other"}, clip : {"wav", "mp3", "SynthesisError"}]

\* resolve_model: a registered provider by its name, else the default.
Provider(o) == IF o.model = "registered" THEN "named" ELSE "default"

\* resolve_voice: an alias wins over the names of OpenAI's own voices.
VoiceOf(o) ==
    CASE o.voice = "aliased" -> "alias"
      [] o.voice = "standard" -> "default"
      [] OTHER -> "as given"

\* audio_speech: a format it does not know is refused before anything is
\* synthesized, and one that the provider did not produce afterwards.
Speech(o) ==
    IF o.format \notin {"none", "wav"} THEN [status |-> 422, synthesized |-> FALSE]
    ELSE IF o.clip = "SynthesisError" THEN [status |-> 502, synthesized |-> TRUE]
    ELSE IF o.format # "none" /\ o.clip # o.format THEN [status |-> 422, synthesized |-> TRUE]
    ELSE [status |-> 200, synthesized |-> TRUE, format |-> o.clip,
          provider |-> Provider(o), voice |-> VoiceOf(o)]

-----------------------------------------------------------------------------

\* The two doors to /v1 are guarded by two pieces of code, one of them the
\* framework's.  They decide alike for every visitor but the one with spaces
\* before the right token, to whom only the socket opens when the framework does
\* not strip them.  Without a configured token both are open; with one a visitor
\* needs it where it counts (the parameter only without a token in the header),
\* and nobody has one that is not ASCII.
DoorsAgree(v) ==
    LET http == LetIn([v EXCEPT !.route = "v1"])
        ws == LetIn([v EXCEPT !.route = "ws"])
    IN  /\ http # ws <=> v.expected = "ascii" /\ v.header = "padded" /\ ~v.strips
        /\ http = "in" => ws = "in"
        /\ v.expected = "none" => LetIn(v) = "in"
        /\ v.expected # "none" /\ ws = "in" =>
              /\ v.expected = "ascii"
              /\ \/ v.header \in {"right", "padded"}
                 \/ v.header \in NoToken /\ v.query = "right"

\* Who names a format gets audio of that format or an error, never other bytes,
\* and whatever the model is called somebody speaks.
SpeechAsOrdered(o) ==
    /\ Speech(o).status = 200 /\ o.format # "none" => Speech(o).format = o.format
    /\ Speech(o).status = 422 => o.format # "none"
=============================================================================
