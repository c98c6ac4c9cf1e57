------------------------------- MODULE HookScript -------------------------------
(***************************************************************************)
(* integrations/claude-code/claude_code_speak.py: what the hook says for   *)
(* which payload, and how it ends.                                         *)
(*                                                                         *)
(* A payload arrives on stdin; for a Stop the text is that of the last     *)
(* assistant entry of a transcript.  A line of a transcript is "garbage"   *)
(* (no JSON), "scalar" (JSON, but no object), "user", "silent" (an         *)
(* assistant entry without text, or whose content is a string), "odd" (its *)
(* message is no object, its content no list, its text no string), "text"  *)
(* or "markup" (text of which prepare leaves nothing: an image, a bullet); *)
(* "undecodable" is input, or a transcript, that is not UTF-8.             *)
(***************************************************************************)
EXTENDS Naturals, SequencesExt

Lines == {"garbage", "scalar", "user", "silent", "odd", "text", "markup"}
MaxLines == 3                   \* bound: the length of transcripts
MaxWords == 8                   \* bound: the characters of a text, for Truncate

\* The payloads with these transcripts, of which two cannot be read.
PayloadsWith(transcripts) ==
    [stdin : {"text", "blank", "undecodable", "scalar"}]
    \cup [stdin : {"object"}, event : {"Notification", "Stop", "other"},
          message : {"none", "blank", "text", "markup"}, active : BOOLEAN,
          transcript : {<<"missing">>, <<"undecodable">>} \cup transcripts]

Payloads == PayloadsWith(BoundedSeq(Lines, MaxLines))

\* The gateway and TTS_DAEMON_URL: "unreachable" is refused, reset, late or an
\* HTTP error, "garbled" an answer that is no HTTP, "misnamed" no URL.
Gateways == {"good", "unreachable", "garbled", "misnamed"}

\* How a step ends: with nothing to say, with a text (the one given, the reply at a
\* line of the transcript, or the empty one) or with an exception.
Nothing == [of |-> "nothing"]
Given == [of |-> "given"]
Reply(line) == [of |-> "reply", line |-> line]
Empty == [of |-> "empty"]
Raises(class) == [of |-> "exception", class |-> class]

Replies == {"text", "markup"}

\* Mutant: the first assistant entry is told.
MutantLastAssistantText(transcript) ==
    LET telling == {k \in DOMAIN transcript : transcript[k] \in Replies}
    IN  IF telling = {} THEN Nothing ELSE Reply(Min(telling))

\* last_assistant_text: from the end, the first entry with text; what can be
\* parsed but has another shape raises.
LastAssistantText(transcript) ==
    LET telling == {k \in DOMAIN transcript : transcript[k] \in Replies \cup {"scalar", "odd"}}
    IN  IF transcript = <<"undecodable">> THEN Raises("UnicodeDecodeError")
        ELSE IF telling = {} THEN Nothing
        ELSE IF transcript[Max(telling)] \in Replies THEN Reply(Max(telling))
        ELSE Raises("AttributeError")

\* The text main() has for a payload.
TextFor(p) ==
    IF p.stdin = "object" THEN
        CASE p.event = "Notification" -> IF p.message \in Replies THEN Given ELSE Nothing
          [] p.event = "Stop" /\ ~p.active -> LastAssistantText(p.transcript)
          [] OTHER -> Nothing
    ELSE
        CASE p.stdin = "undecodable" -> Raises("UnicodeDecodeError")
          [] p.stdin = "scalar" -> Raises("AttributeError")
          [] p.stdin = "text" -> Given
          [] p.stdin = "blank" -> Nothing

\* prepare() leaves nothing of markup; what is no payload is not prepared.
Prepare(p, text) ==
    IF /\ p.stdin = "object"
       /\ \/ p.event = "Notification" /\ p.message = "markup"
          \/ p.event = "Stop" /\ p.transcript[text.line] = "markup"
    THEN Empty ELSE text

\* speak: only an OSError is suppressed; the gateway refuses the empty text, which
\* is one.
Speak(text, gateway) ==
    CASE gateway = "misnamed" -> Raises("ValueError")
      [] gateway = "garbled" -> Raises("HTTPException")
      [] gateway = "unreachable" -> Nothing
      [] gateway = "good" -> IF text = Empty THEN Nothing ELSE text

\* main
Hook(p, gateway) ==
    IF TextFor(p).of \in {"exception", "nothing"} THEN TextFor(p)
    ELSE Speak(Prepare(p, TextFor(p)), gateway)

-----------------------------------------------------------------------------
(* prepare(), after the markup is gone: a text is words, here of "x", with *)
(* a single "space" between them.                                          *)

IsWords(t) ==
    t # <<>> =>
        /\ t[1] = "x" /\ t[Len(t)] = "x"
        /\ \A k \in 1..Len(t) - 1 : t[k] = "x" \/ t[k + 1] = "x"

Texts == {t \in BoundedSeq({"x", "space"}, MaxWords) : IsWords(t)}

Spaces(t) == {k \in DOMAIN t : t[k] = "space"}

\* " ... truncated.": three characters (the ellipsis is one) and ten.
Notice == [k \in 1..13 |-> IF k \in {1, 3} THEN "space" ELSE "x"]

\* Truncation to a limit, which is off for 0: at the last space, when the second
\* half of what is left has one, and the notice is put after it.
Truncate(t, limit) ==
    LET cut == SubSeq(t, 1, limit)
        late == {k \in Spaces(cut) : k > limit \div 2}
    IN  IF limit = 0 \/ Len(t) <= limit THEN t
        ELSE (IF late = {} THEN cut ELSE SubSeq(cut, 1, Max(late) - 1)) \o Notice

-----------------------------------------------------------------------------

\* "The script never fails the hook: on any problem it exits 0 silently": it does
\* not, exactly, for input that is no text, JSON where it expects an object and
\* finds none, an address that is none and an answer that is no HTTP.  Otherwise a
\* Stop has the newest text of the assistant said, or nothing (never an older one)
\* when that is all markup; one that the hook itself caused has nothing said.
HookSays(p, gateway) ==
    LET end == Hook(p, gateway)
        stops == p.stdin = "object" /\ p.event = "Stop" /\ ~p.active
        told == {k \in DOMAIN p.transcript : p.transcript[k] \in Replies}
        wrong == {k \in DOMAIN p.transcript : p.transcript[k] \in {"scalar", "odd"}}
        newest(S) == \E k \in S : \A m \in told \cup wrong : m <= k
    IN  /\ end.of = "exception" =>
              \/ p.stdin \in {"undecodable", "scalar"}
              \/ stops /\ (p.transcript = <<"undecodable">> \/ newest(wrong))
              \/ gateway \in {"misnamed", "garbled"}
        /\ stops /\ gateway = "good" /\ newest(told) =>
              end = IF p.transcript[Max(told)] = "text" THEN Reply(Max(told)) ELSE Nothing
        /\ p.stdin = "object" /\ p.event = "Stop" /\ p.active => end = Nothing

\* A text within the limit is said as it is.  Of a longer one a beginning is said,
\* of one to limit characters, and the notice, by which it may exceed the limit.
\* The beginning never ends in a space, nor within a word unless the half before
\* the limit is all one word; and no space within the limit comes after its end.
TruncatesWell(t, limit) ==
    LET said == Truncate(t, limit)
        beginning(n) ==
            /\ said = SubSeq(t, 1, n) \o Notice
            /\ t[n] # "space"
            /\ t[n + 1] # "space" =>
                  n = limit /\ \A k \in limit \div 2 + 1..limit : t[k] # "space"
            /\ \A k \in n + 2..limit : t[k] # "space"
    IN  IF limit = 0 \/ Len(t) <= limit THEN said = t
        ELSE \E n \in 1..limit : beginning(n)
=============================================================================
