------------------------------ MODULE CommandLine ------------------------------
(***************************************************************************)
(* cli.py, client.py and the choice of the configuration in config.py:     *)
(* which file a command reads, where a download goes and where the         *)
(* providers look for it, and what a command tells its caller, by its exit *)
(* status and by what it prints, about what happened.                      *)
(*                                                                         *)
(* A definition marked "Mutant" is not part of the model: it is a bug that *)
(* the definition after it could have had, and that a property catches.    *)
(***************************************************************************)
EXTENDS Naturals

-----------------------------------------------------------------------------
(* The configuration: a file given to serve, the one TTS_DAEMON_CONFIG     *)
(* names, the one at the default location.  Of the settings, those that    *)
(* say where models are: TRUE is a path of the user's own.                 *)

NotGiven == [is |-> "not given"]
Absent == [is |-> "absent"]
Bad == [is : {"invalid", "not text"}]
Valid == [is : {"valid"}, models_dir : BOOLEAN, model_path : BOOLEAN, voices_path : BOOLEAN]
Configs == {Absent} \cup Bad \cup Valid

Setups ==
    [flag : Configs \cup {NotGiven}, variable : Configs \cup {NotGiven}, default : Configs,
     option : BOOLEAN]

Defaults == [is |-> "valid", models_dir |-> FALSE, model_path |-> FALSE, voices_path |-> FALSE]

\* _read_yaml_file and the validation: only what cannot be decoded is no ConfigError.
Read(config) ==
    CASE config.is = "not text" -> [is |-> "UnicodeDecodeError"]
      [] config.is \in {"invalid", "absent"} -> [is |-> "ConfigError"]
      [] OTHER -> config

\* load_config: who names a file must have it.
LoadConfig(path, s) ==
    IF path # NotGiven THEN Read(path)
    ELSE IF s.variable # NotGiven THEN Read(s.variable)
    ELSE IF s.default = Absent THEN Defaults
    ELSE Read(s.default)

Place(own) == IF own THEN "configured" ELSE "default"

\* PiperProvider and KokoroProvider.
PiperDir(config) == Place(config.models_dir)
KokoroPaths(config) == <<Place(config.model_path), Place(config.voices_path)>>

\* A download has no --config, and falls back on the defaults.
DownloadConfig(s) ==
    LET config == LoadConfig(NotGiven, s)
    IN  IF config.is = "ConfigError" THEN Defaults ELSE config

ResolveModelsDir(s) ==
    IF s.option THEN "option"
    ELSE IF DownloadConfig(s).is # "valid" THEN DownloadConfig(s).is
    ELSE PiperDir(DownloadConfig(s))

\* Mutant: the voices are put beside the model.
MutantResolveKokoroPaths(s) ==
    IF s.option THEN <<"option", "option">>
    ELSE IF DownloadConfig(s).is # "valid" THEN <<DownloadConfig(s).is>>
    ELSE <<Place(DownloadConfig(s).model_path), Place(DownloadConfig(s).model_path)>>

ResolveKokoroPaths(s) ==
    IF s.option THEN <<"option", "option">>
    ELSE IF DownloadConfig(s).is # "valid" THEN <<DownloadConfig(s).is>>
    ELSE KokoroPaths(DownloadConfig(s))

\* "A downloaded pair lands exactly where the provider will look for it": so it
\* does, for piper too, for every server that starts without --config, unless
\* --models-dir says otherwise; and with a --config of the server's own the two
\* agree when its paths are those the download reads.
LandsWhereLooked(s) ==
    LET server == LoadConfig(s.flag, s)
    IN  server.is = "valid" /\ ~s.option =>
        /\ s.flag = NotGiven =>
              ResolveModelsDir(s) = PiperDir(server) /\ ResolveKokoroPaths(s) = KokoroPaths(server)
        /\ DownloadConfig(s) = server =>
              ResolveModelsDir(s) = PiperDir(server) /\ ResolveKokoroPaths(s) = KokoroPaths(server)

-----------------------------------------------------------------------------
(* Commands that ask the gateway.  What comes of a request: an answer of   *)
(* the expected shape (the utterance failed or not), JSON of another       *)
(* shape, no JSON, an HTTP error (with a body that is an object or not),   *)
(* or the faults of the connection; did: the gateway did what it was asked *)
(* although the answer was lost.                                           *)

Answers == {"good", "utterance failed", "other shape", "not JSON", "HTTP error",
            "HTTP error with a list", "unreachable", "late", "reset", "cut", "Ctrl-C"}

Calls ==
    [command : {"speak", "synthesize", "stop", "status", "voices", "providers"},
     text : {"given", "none", "not text"}, json : BOOLEAN, url : BOOLEAN, disk : BOOLEAN,
     answer : Answers, did : BOOLEAN]

HasText(c) == c.command \in {"speak", "synthesize"}

\* GatewayClient._request_raw: what urlopen raises while it connects is wrapped;
\* what is raised while the answer is awaited and read is not.
RequestRaw(c) ==
    IF ~c.url THEN "ValueError"
    ELSE CASE c.answer \in {"HTTP error", "unreachable"} -> "GatewayClientError"
           [] c.answer = "HTTP error with a list" -> "AttributeError"
           [] c.answer = "late" -> "TimeoutError"
           [] c.answer = "reset" -> "ConnectionResetError"
           [] c.answer = "cut" -> "IncompleteRead"
           [] c.answer = "Ctrl-C" -> "KeyboardInterrupt"
           [] OTHER -> c.answer

Request(c) == IF RequestRaw(c) = "not JSON" THEN "GatewayClientError" ELSE RequestRaw(c)

Exceptions == {"ValueError", "GatewayClientError", "AttributeError", "TimeoutError",
               "ConnectionResetError", "IncompleteRead", "KeyboardInterrupt",
               "UnicodeDecodeError", "KeyError", "OSError", "SystemExit", "VoiceCatalogError"}

\* _gather_text
GatherText(c) ==
    CASE c.text = "none" -> "SystemExit"
      [] c.text = "not text" -> "UnicodeDecodeError"
      [] OTHER -> "text"

\* cmd_speak; cmd_synthesize, which writes whatever bytes it gets; the others,
\* which with --json print whatever JSON they get.
Handler(c) ==
    IF HasText(c) /\ GatherText(c) # "text" THEN GatherText(c)
    ELSE IF c.command = "synthesize" THEN
        IF RequestRaw(c) \in Exceptions THEN RequestRaw(c)
        ELSE IF c.disk THEN "0" ELSE "OSError"
    ELSE IF Request(c) \in Exceptions THEN Request(c)
    ELSE IF Request(c) = "other shape" THEN
        IF c.json /\ c.command \notin {"speak", "stop"} THEN "0" ELSE "KeyError"
    ELSE IF c.command = "speak" /\ Request(c) = "utterance failed" THEN "1"
    ELSE "0"

\* main
Ended(handler) ==
    CASE handler = "0" -> [exit |-> 0, prints |-> "result"]
      [] handler = "1" -> [exit |-> 1, prints |-> "error"]
      [] handler \in {"GatewayClientError", "VoiceCatalogError", "ConfigError"} ->
            [exit |-> 1, prints |-> "error"]
      [] handler = "KeyboardInterrupt" -> [exit |-> 130, prints |-> "nothing"]
      [] handler \in {"SystemExit", "2"} -> [exit |-> 2, prints |-> "error"]
      [] OTHER -> [exit |-> 1, prints |-> "traceback"]

Lost == {"late", "reset", "cut", "Ctrl-C"}

\* The gateway has done what it was asked.
Done(c) ==
    /\ c.url /\ (HasText(c) => c.text = "given")
    /\ \/ c.answer \in {"good", "utterance failed"}
       \/ c.answer \in Lost /\ c.did

\* Scripts act on the exit status: 0 means that a gateway did what was asked
\* (unless something else answered with JSON under --json, or with anything that
\* was to be saved), an error that has a message means that nothing was done,
\* except that speech was accepted and failed, so that only an interrupted or
\* unexplained end (a traceback) can be a command that is done twice by a retry.
CallsTellTruth(c) ==
    LET end == Ended(Handler(c))
    IN  /\ end.exit = 0 =>
              \/ Done(c)
              \/ c.answer \in {"other shape", "not JSON"} /\ (c.json \/ c.command = "synthesize")
        /\ end.exit = 0 /\ c.command = "speak" => c.answer = "good"
        /\ end.exit = 0 /\ c.command = "synthesize" => c.disk
        /\ end.exit # 0 /\ Done(c) =>
              \/ c.answer \in Lost
              \/ c.command = "speak" /\ c.answer = "utterance failed"
              \/ c.command = "synthesize" /\ ~c.disk
        /\ end.prints = "error" /\ Done(c) => c.answer = "utterance failed"

-----------------------------------------------------------------------------
(* download: fails is the file at which the transfer fails, 0 for none.    *)

Downloads ==
    [target : {"none", "voice", "unknown", "kokoro"}, list : BOOLEAN, force : BOOLEAN,
     catalog : {"good", "unreachable", "no manifest", "malformed", "late", "reset", "cut"},
     config : BOOLEAN, present : SUBSET {1, 2}, fails : 0..2]

\* VoiceCatalog.voices: _fetch_json and parse_catalog.
Catalog(d) ==
    CASE d.catalog \in {"unreachable", "no manifest"} -> "VoiceCatalogError"
      [] d.catalog = "malformed" -> "AttributeError"
      [] d.catalog = "late" -> "TimeoutError"
      [] d.catalog = "reset" -> "ConnectionResetError"
      [] d.catalog = "cut" -> "IncompleteRead"
      [] OTHER -> "0"

Wanted(d) == IF d.force THEN {1, 2} ELSE {1, 2} \ d.present

\* The files are fetched in order, up to the first that fails.
Fetched(d) == {f \in Wanted(d) : d.fails \notin Wanted(d) \/ f < d.fails}

\* Mutant: a failure of the second file is not told.
MutantFetch(d) == IF Fetched(d) # {} \/ Wanted(d) = {} THEN "0" ELSE "VoiceCatalogError"

Fetch(d) == IF Fetched(d) = Wanted(d) THEN "0" ELSE "VoiceCatalogError"

\* cmd_download
CmdDownload(d) ==
    IF d.target = "kokoro" THEN (IF d.config THEN Fetch(d) ELSE "UnicodeDecodeError")
    ELSE IF d.list THEN Catalog(d)
    ELSE IF d.target = "none" THEN "2"
    ELSE IF ~d.config THEN "UnicodeDecodeError"
    ELSE IF Catalog(d) # "0" THEN Catalog(d)
    ELSE IF d.target = "unknown" THEN "VoiceCatalogError"
    ELSE Fetch(d)

\* Whether the command got as far as the files.
Transfers(d) ==
    \/ d.target = "kokoro" /\ d.config
    \/ d.target = "voice" /\ ~d.list /\ d.config /\ Catalog(d) = "0"

After(d) == d.present \cup IF Transfers(d) THEN Fetched(d) ELSE {}

\* A download that exits with 0 leaves both files, all that fail say so, and one
\* that fails half-way is completed, and not repeated, by the next.
DownloadsTellTruth(d) ==
    LET end == Ended(CmdDownload(d))
        retry == [d EXCEPT !.present = After(d), !.fails = 0, !.force = FALSE]
    IN  /\ end.exit = 0 /\ (~d.list \/ d.target = "kokoro") => After(d) = {1, 2}
        /\ end.exit # 0 => end.prints \in {"error", "traceback"}
        /\ Transfers(d) =>
              Ended(CmdDownload(retry)).exit = 0 /\ Fetched(retry) = {1, 2} \ After(d)

-----------------------------------------------------------------------------
(* serve and init-config *)

Starts ==
    [config : {"valid", "ConfigError", "UnicodeDecodeError"}, level : BOOLEAN,
     host : BOOLEAN, port : {"none", "zero", "given"}]

\* cmd_serve: a port of 0 counts as none.
Serve(s) ==
    IF s.config # "valid" THEN [ends |-> s.config]
    ELSE IF ~s.level THEN [ends |-> "ValueError"]
    ELSE [ends |-> "0",
          host |-> IF s.host THEN "option" ELSE "configured",
          port |-> IF s.port = "given" THEN "option" ELSE "configured"]

Inits == [exists : BOOLEAN, force : BOOLEAN, writable : BOOLEAN]

\* cmd_init_config
InitConfig(i) ==
    IF i.exists /\ ~i.force THEN [ends |-> "1", written |-> FALSE]
    ELSE IF ~i.writable THEN [ends |-> "OSError", written |-> FALSE]
    ELSE [ends |-> "0", written |-> TRUE]

\* A server that starts is at the address it was asked for (but 0 asks for no
\* port), and a configuration is only overwritten on request.
StartsTellTruth(s) ==
    /\ Ended(Serve(s).ends).exit = 0 =>
          /\ s.host <=> Serve(s).host = "option"
          /\ s.port = "given" <=> Serve(s).port = "option"
    /\ s.config # "valid" \/ ~s.level => Ended(Serve(s).ends).exit = 1

InitsTellTruth(i) ==
    /\ Ended(InitConfig(i).ends).exit = 0 <=> InitConfig(i).written
    /\ InitConfig(i).written /\ i.exists => i.force
=============================================================================
