----------------------------- MODULE ConfigLayers -----------------------------
(***************************************************************************)
(* load_config of config.py: the YAML file and the TTS_DAEMON__* variables *)
(* of the environment become one tree of settings.                         *)
(*                                                                         *)
(* A tree is a function from the paths at which it has something, the      *)
(* empty path of its root among them, to what it has there: Section for a  *)
(* mapping, or a scalar.  What the walk of _env_overrides and the recursion *)
(* of _deep_merge leave at each path is written down path by path; that it  *)
(* is what they leave is checked against ConfigTrees, which walks and       *)
(* recurses as they do.                                                    *)
(*                                                                         *)
(* The environment is read in any order, a variable at a time; env is what *)
(* has been read.  A variable has a path and a value that is itself a tree, *)
(* because its text is parsed as YAML and may be a mapping.                *)
(*                                                                         *)
(* A definition marked "Mutant" is not part of the model: it is a bug that *)
(* the definition after it could have had, and that a property catches.    *)
(***************************************************************************)
EXTENDS Naturals, Sequences

CONSTANTS
    Keys, Section,
    Files,          \* the trees that the file may hold
    Values,         \* the trees that a variable may hold
    MaxPath,        \* bound: the parts of a variable's name
    MaxVariables    \* bound: the variables of the environment

VARIABLES file, env, overrides, loaded, settings

configVars == <<file, env, overrides, loaded, settings>>

\* The path p leads to the path q or beyond.
Above(p, q) == Len(p) <= Len(q) /\ \A n \in 1..Len(p) : p[n] = q[n]

\* What is above a path is a mapping.
IsTree(t) ==
    /\ DOMAIN t \subseteq Seq(Keys)
    /\ <<>> \in DOMAIN t
    /\ \A p \in DOMAIN t : \A n \in 0..Len(p) - 1 :
          SubSeq(p, 1, n) \in DOMAIN t /\ t[SubSeq(p, 1, n)] = Section

ASSUME FilesAssumption == \A t \in Files : IsTree(t) /\ t[<<>>] = Section
ASSUME ValuesAssumption == \A t \in Values : IsTree(t)
ASSUME MaxPathAssumption == MaxPath \in Nat
ASSUME MaxVariablesAssumption == MaxVariables \in Nat

NoSettings == [p \in {<<>>} |-> Section]

\* Mutant: a key that the override has is taken from it with all that is below.
ShallowMerge(base, override) ==
    LET hidden == {p \in DOMAIN base : p # <<>> /\ <<p[1]>> \in DOMAIN override}
    IN  [p \in DOMAIN override \cup (DOMAIN base \ hidden) |->
            IF p \in DOMAIN override THEN override[p] ELSE base[p]]

\* _deep_merge: mappings are merged, anything else is replaced.
DeepMerge(base, override) ==
    LET hidden == {p \in DOMAIN base :
                      \E q \in DOMAIN override : Above(q, p) /\ override[q] # Section}
    IN  [p \in DOMAIN override \cup (DOMAIN base \ hidden) |->
            IF p \in DOMAIN override THEN override[p] ELSE base[p]]

\* One variable of _env_overrides: what is no mapping on the way to the last
\* key gives way to one, and what is at it or below to the value.
Assign(tree, path, value) ==
    LET way == {SubSeq(path, 1, n) : n \in 0..Len(path) - 1}
        kept == {p \in DOMAIN tree : ~Above(path, p)}
        set == {path \o q : q \in DOMAIN value}
    IN  [p \in way \cup kept \cup set |->
            IF p \in set THEN value[SubSeq(p, Len(path) + 1, Len(p))]
            ELSE IF p \in way THEN Section
            ELSE tree[p]]

ConfigInit ==
    /\ file \in Files
    /\ env = <<>>
    /\ overrides = NoSettings /\ settings = NoSettings
    /\ loaded = FALSE

\* One turn of the loop of _env_overrides.
ReadVariable(path, value) ==
    /\ ~loaded /\ Len(env) < MaxVariables
    /\ env' = Append(env, [path |-> path, value |-> value])
    /\ overrides' = Assign(overrides, path, value)
    /\ UNCHANGED <<file, loaded, settings>>

\* The end of load_config, up to the validation of the result.
Load ==
    /\ ~loaded
    /\ settings' = DeepMerge(file, overrides)
    /\ loaded' = TRUE
    /\ UNCHANGED <<file, env, overrides>>

ConfigNext ==
    \/ \E n \in 1..MaxPath : \E path \in [1..n -> Keys], value \in Values :
          ReadVariable(path, value)
    \/ Load

ConfigSpec == ConfigInit /\ [][ConfigNext]_configVars

-----------------------------------------------------------------------------
(* Properties *)

\* What is loaded is a tree: nothing is below a scalar.
ConfigTypeOK ==
    /\ env \in Seq([path : Seq(Keys), value : Values])
    /\ loaded \in BOOLEAN
    /\ IsTree(overrides) /\ IsTree(settings)

HasScalar(t, p, v) == v # Section /\ p \in DOMAIN t /\ t[p] = v

\* The variable x sets v at p.
Sets(x, p, v) == \E q \in DOMAIN x.value : p = x.path \o q /\ HasScalar(x.value, q, v)

\* Neither path is on the way to the other.
Apart(p, q) == ~Above(p, q) /\ ~Above(q, p)

\* None of the variables vs after variable i touches p.
SetLast(vs, i, p) == \A j \in i + 1..Len(vs) : Apart(vs[j].path, p)

\* "Environment variables override this file" (the precedence of the layers): what
\* a variable sets is in force, whatever the file has at its path, above or below
\* it, unless a variable read later is at the path, above or below it; what the
\* file has is in force where no variable is; nothing else is in force; and the
\* settings are a tree, with nothing below a scalar.
LayersPrecede ==
    loaded =>
        /\ IsTree(settings)
        /\ \A i \in DOMAIN env : \A q \in DOMAIN env[i].value :
              LET v == env[i].value[q]
                  p == env[i].path \o q
              IN  v # Section /\ SetLast(env, i, p) => HasScalar(settings, p, v)
        /\ \A p \in DOMAIN file :
              file[p] # Section /\ (\A j \in DOMAIN env : Apart(env[j].path, p))
              => HasScalar(settings, p, file[p])
        /\ \A p \in DOMAIN settings :
              settings[p] # Section
              => \/ HasScalar(file, p, settings[p])
                 \/ \E i \in DOMAIN env : Sets(env[i], p, settings[p])
=============================================================================
