------------------------------ MODULE VoiceCatalog ------------------------------
(***************************************************************************)
(* voices.py: what the downloader makes of the catalog of piper voices, up *)
(* to the names it gives the files, and what providers/piper.py finds in   *)
(* the directory afterwards (PiperModels).                                 *)
(*                                                                         *)
(* A manifest is the sequence of its entries.  An entry has key and alias  *)
(* (its "key" field, or NoAlias), language and shape: what of its files is *)
(* of use.  "malformed": both files are listed, one with something that is *)
(* no object; "odd": sizes or digests that are none.                       *)
(***************************************************************************)
EXTENDS PiperModels

NoAlias == 0
Languages == {"none", "it", "it_IT", "ita"}

Entries(key) ==
    [key : {key}, alias : Models \cup {NoAlias}, language : Languages,
     shape : {"no entry", "one file", "malformed", "odd", "sound"}]

Manifests == Entries(1) \X Entries(2)

Id(e) == IF e.alias = NoAlias THEN e.key ELSE e.alias

\* _find_file finds both.
HasBoth(e) == e.shape \in {"malformed", "odd", "sound"}

\* VoiceInfo, with which files can be fetched; _as_int and _as_md5 leave out a
\* check rather than raise.
Info(e) == [id |-> Id(e), language |-> e.language, checked |-> e.shape = "sound",
            files |-> {1, 2}]

\* parse_catalog: of two entries with one id the later counts, and one with both
\* files that is malformed raises an AttributeError.
Raises(manifest) == \E k \in DOMAIN manifest : manifest[k].shape = "malformed"

Parse(manifest) ==
    LET listed == {k \in DOMAIN manifest : HasBoth(manifest[k])}
        with(id) == {k \in listed : Id(manifest[k]) = id}
    IN  [id \in {Id(manifest[k]) : k \in listed} |-> Info(manifest[Max(with(id))])]

\* _language_matches
Family(language) == IF language = "it_IT" THEN "it" ELSE language
LanguageMatches(language, wanted) == language # "none" /\ wanted \in {language, Family(language)}

\* list(), by id.
List(manifest, wanted) ==
    LET catalog == Parse(manifest)
    IN  {id \in DOMAIN catalog : LanguageMatches(catalog[id].language, wanted)}

\* download(): <id>.onnx and <id>.onnx.json in the directory of the installation.
Downloaded(i, info) ==
    [i EXCEPT !.models[info.id] = IF 1 \in info.files THEN "file" ELSE @,
              !.labelled = IF 2 \in info.files THEN @ \cup {info.id} ELSE @]

-----------------------------------------------------------------------------

\* A partial manifest still lists the voices that can be installed (unless an
\* entry is malformed, which hides all of them), each language is found under its
\* code and under its family, and a voice that is listed (get() finds no other,
\* closest_matches() suggests no other) is, once it is downloaded, a voice the piper provider has, describes and resolves.
ListedIsUsable(manifest, i) ==
    ~Raises(manifest) =>
        /\ \A k \in DOMAIN manifest :
              manifest[k].shape \in {"odd", "sound"} => Id(manifest[k]) \in DOMAIN Parse(manifest)
        /\ \A id \in DOMAIN Parse(manifest) :
              LET language == Parse(manifest)[id].language
              IN  language # "none" =>
                    id \in List(manifest, language) /\ id \in List(manifest, Family(language))
        /\ \A id \in DOMAIN Parse(manifest) :
              LET then == Downloaded(i, Parse(manifest)[id])
              IN  i.models[id] # "directory" =>
                    /\ ResolveModel(then, Named(id)) = ByName(id)
                    /\ \E k \in DOMAIN ListedVoices(then) :
                          ListedVoices(then)[k] = [id |-> id, described |-> TRUE]
                    /\ then.binary => Available(then)
=============================================================================
