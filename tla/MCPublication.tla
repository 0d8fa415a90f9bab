--------------------------- MODULE MCPublication ---------------------------
(* A checkout of two folders and two pipelines, every comment of a small   *)
(* vocabulary, and two runs that one of nine comments starts.                *)
EXTENDS Publication

a == <<"a">>
cd == <<"c", "d">>

MCConfigured == <<a, cd>>
MCAffected == <<cd>>
MCPipelines == (a :> <<<<a>>, <<cd>>>>) @@ (cd :> <<<<cd, a>>>>)

\* The words of a comment: folders, lists of them, one that is not a list,
\* one that names a folder twice, a name no folder has, and the words the
\* grammar keeps for itself.
Words == {<<a>>, <<a, cd>>, <<a, cd, a>>, <<cd>>, <<a, <<"">>>>, <<<<"", "a">>>>, <<<<"?">>>>}
           \union {W(w) : w \in {"--destroy", "all", "pipeline", "confirm", "step", "0", "1", "2", "abc123"}}
Actions == Verbs \union {"drift", "validate"}
Steps_ == {<<W("pipeline"), n, s, i>> : n \in Words, s \in {W("step"), <<a>>}, i \in Words}
MCTexts == {<<W("tf"), W(v)>> \o rest : v \in Actions, rest \in SeqOf(Words, 3) \union Steps_}

Read_(rest) == <<W("tf"), W("plan")>> \o rest
Mutating(verb, rest) == <<W("tf"), W(verb)>> \o rest
MCTyped ==
  {Read_(<<<<a, cd>>>>), Read_(<<W("--destroy"), <<a>>>>),
   Read_(<<W("pipeline"), <<a>>>>), <<W("tf"), W("report")>>,
   Mutating("apply", <<<<a, cd>>>>), Mutating("destroy", <<<<a>>>>),
   Mutating("apply", <<W("pipeline"), <<a>>>>),
   Mutating("apply", <<W("pipeline"), <<a>>, W("step"), W("2")>>),
   Mutating("destroy", <<W("pipeline"), <<a>>>>)}

\* The first step of one pipeline has been applied.
MCBegun == {<<"apply", a>>}

Sym == Permutations(Runs)

=============================================================================
