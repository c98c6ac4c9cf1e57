---------------------------- MODULE MCConfigLayers ----------------------------
(***************************************************************************)
(* ConfigLayers for TLC: the files and values of two levels, and the walk  *)
(* and the recursion of the code beside the paths.                         *)
(***************************************************************************)
EXTENDS ConfigLayers

Trees == INSTANCE ConfigTrees
LOCAL INSTANCE FiniteSetsExt

MCSection == "section"

\* The tree that has the subtrees branches[k] at the keys k.
Root(branches) ==
    LET paths == UNION {{<<k>> \o p : p \in DOMAIN branches[k]} : k \in DOMAIN branches}
    IN  [p \in {<<>>} \cup paths |->
            IF p = <<>> THEN MCSection ELSE branches[p[1]][Tail(p)]]

Leaf(v) == [p \in {<<>>} |-> v]

\* The trees of two levels at most: a scalar, or one of them for some of the keys.
Level1(v) == {Leaf(v)} \cup {Root([k \in D |-> Leaf(v)]) : D \in SUBSET Keys}

MCFiles == {Root(branches) : branches \in UNION {[D -> Level1("file")] : D \in SUBSET Keys}}
MCValues == Level1("env")

-----------------------------------------------------------------------------

\* The nested mappings that a tree stands for.
RECURSIVE Nested(_, _)
Nested(t, p) ==
    IF t[p] # Section THEN Trees!Scalar(t[p])
    ELSE Trees!Map([k \in {k \in Keys : Append(p, k) \in DOMAIN t} |-> Nested(t, Append(p, k))])

\* The settings found path by path are those that the walk and the recursion of
\* the code end with, in whatever order the variables are read.
CodeAgrees ==
    loaded =>
        Nested(settings, <<>>) =
            Trees!Settings(Nested(file, <<>>),
                           [i \in DOMAIN env |-> [path |-> env[i].path,
                                                  value |-> Nested(env[i].value, <<>>)]])
=============================================================================
