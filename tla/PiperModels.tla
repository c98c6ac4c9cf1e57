------------------------------ MODULE PiperModels ------------------------------
(***************************************************************************)
(* providers/piper.py: which model file a request is spoken with, and what *)
(* availability(), voices() and the cache key make of the same settings    *)
(* and the same directory.                                                 *)
(*                                                                         *)
(* Models are numbers in the order of their file names.  An installation   *)
(* has binary (it is on the PATH), models (what is at <model>.onnx in the  *)
(* directory, all "none" when that does not exist), labelled (the models   *)
(* whose .onnx.json can be read) and default (default_voice).  A voice is  *)
(* NoVoice, the name of a model, or a path that ends in .onnx and is a     *)
(* file or is not.                                                         *)
(***************************************************************************)
EXTENDS Naturals, FiniteSets, SequencesExt

Models == 1..2

NoVoice == [form |-> "none"]
Named(m) == [form |-> "name", model |-> m]
PathTo(exists) == [form |-> "path", exists |-> exists]
Voices == {NoVoice} \cup {Named(m) : m \in Models} \cup {PathTo(e) : e \in BOOLEAN}

Installations ==
    [binary : BOOLEAN, models : [Models -> {"none", "file", "directory"}],
     labelled : SUBSET Models, default : Voices]

Failed == [by |-> "SynthesisError"]
ByName(m) == [by |-> "name", model |-> m]
ByPath == [by |-> "path"]

\* _model_files: a directory named like a model is none.
ModelFiles(i) == {m \in Models : i.models[m] = "file"}

\* _explicit_default_voice_path.
ExplicitDefault(i) == i.default.form = "path" /\ i.default.exists

Available(i) == i.binary /\ (ExplicitDefault(i) \/ ModelFiles(i) # {})

\* _resolve_model: the voice asked for, else the default, else the first model.
ResolveModel(i, voice) ==
    LET requested == IF voice.form = "none" THEN i.default ELSE voice
    IN  CASE requested.form = "path" -> IF requested.exists THEN ByPath ELSE Failed
          [] requested.form = "name" ->
                IF requested.model \in ModelFiles(i) THEN ByName(requested.model) ELSE Failed
          [] OTHER ->
                IF ModelFiles(i) = {} THEN Failed ELSE ByName(Min(ModelFiles(i)))

\* synthesis_fingerprint: the file and its mtime, or the provider's name when
\* there is no file.
Fingerprint(i, voice, mtime) ==
    LET model == ResolveModel(i, voice)
    IN  IF model = Failed THEN <<"piper">> ELSE <<"piper", model, mtime[model]>>

\* voices() and _read_model_metadata: the models in the order of their names,
\* with what can be read of their description.
ListedVoices(i) ==
    LET ids == SetToSortSeq(ModelFiles(i), <)
    IN  [k \in DOMAIN ids |-> [id |-> ids[k], described |-> ids[k] \in i.labelled]]

-----------------------------------------------------------------------------

\* The default names a model that is not there, or a path that is none: the one
\* case in which an available piper cannot speak a request without a voice.
BadDefault(i) ==
    \/ i.default.form = "name" /\ i.default.model \notin ModelFiles(i)
    \/ i.default.form = "path" /\ ~i.default.exists

\* availability() and synthesize() are separate readings of the settings and the
\* directory, and so are voices() and the cache key.  They agree: what is
\* available speaks (by name, when its default is bad), what is not cannot, what is listed
\* can be asked for, and a model that was replaced, or another, has another key.
PiperAgrees(i) ==
    /\ Available(i) =>
          \/ ResolveModel(i, NoVoice) # Failed
          \/ BadDefault(i) /\ \E m \in Models : ResolveModel(i, Named(m)) # Failed
    /\ i.binary /\ ~Available(i) => ResolveModel(i, NoVoice) = Failed
    /\ \A k \in DOMAIN ListedVoices(i) :
          LET id == ListedVoices(i)[k].id IN ResolveModel(i, Named(id)) = ByName(id)
    /\ LET old == [m \in {ByPath} \cup {ByName(m) : m \in Models} |-> 1]
       IN  \A v, w \in Voices :
              ResolveModel(i, v) # Failed =>
                /\ ResolveModel(i, v) # ResolveModel(i, w) =>
                      Fingerprint(i, v, old) # Fingerprint(i, w, old)
                /\ Fingerprint(i, v, [old EXCEPT ![ResolveModel(i, v)] = 2])
                      # Fingerprint(i, v, old)
=============================================================================
