------------------------------ MODULE Commands ------------------------------
(* From the words of a pull request comment to the folders a run works on:  *)
(* the grammar (domain/command/grammar.py), the run request both entry       *)
(* points build (webhook/run_request.py, domain/run/request.py), the flags   *)
(* an execution starts with, the confirmed intent that overrides them, and   *)
(* the steps ValidateAndResolve makes of them.                               *)
(*                                                                           *)
(* A comment is a sequence of tokens, a token the sequence of its parts      *)
(* between commas, and a part the sequence of its names between slashes:     *)
(* "tf plan a,b/c" is << <<<<"tf">>>>, <<<<"plan">>>>,                       *)
(* <<<<"a">>, <<"b", "c">>>> >>.  Letter case and white space are left out.  *)
EXTENDS Integers, Sequences, SequencesExt

CONSTANTS
  Tokens,      \* the names that are six to eight hexadecimal digits
  Texts,       \* the comments the grammar is checked on
  Configured,  \* the configured folders of the checkout, in their order
  Affected,    \* those of them the pull request touches
  Pipelines    \* its pipelines: a name to a sequence of steps, each a
               \* sequence of folders that run in parallel

\* Names are not empty lists of strings, and so are lists of names: split leaves
\* no empty token, and a token without a comma or a slash is its only part.
Names == Seq(STRING) \ {<<>>}

ASSUME TextsAreTokens == Texts \subseteq Seq(Seq(Names) \ {<<>>})

\* _FOLDER_PATH: relative, and without an empty name.
IsFolderPath(folder) == "" \notin ToSet(folder)

\* discover_folders lists each relative path of the checkout once.
ASSUME ConfiguredAreFolders ==
  /\ Configured \in Seq(Names) /\ IsInjective(Configured)
  /\ \A i \in DOMAIN Configured : IsFolderPath(Configured[i])

ASSUME AffectedAreFolders == Affected \in Seq(Names)

\* The elements of s that are in S, in their order.
Selected(s, S) == FlattenSeq([i \in DOMAIN s |-> IF s[i] \in S THEN <<s[i]>> ELSE <<>>])

\* The name as PurePosixPath writes it, <<>> for one that leaves its directory.
CanonicalName(name) ==
  LET parts == Selected(name, ToSet(name) \ {"", "."})
  IN  IF (Len(name) > 1 /\ name[1] = "") \/ ".." \in ToSet(name) THEN <<>>
      ELSE IF parts = <<>> THEN <<".">> ELSE parts

\* What discover_pipelines, parse_pipeline and _validate_pipeline_folders let through.
ASSUME PipelinesAreValid ==
  \A p \in DOMAIN Pipelines :
    LET folders == FlattenSeq(Pipelines[p])
    IN  /\ p # <<>> /\ CanonicalName(p) = p
        /\ Pipelines[p] \in Seq(Seq(Names) \ {<<>>}) \ {<<>>}
        /\ IsInjective(folders)
        /\ ToSet(folders) \subseteq ToSet(Configured)

\* A name with a character that no pipeline name may have.
Odd == "?"

\* The token of one word.
W(s) == <<<<s>>>>

Verbs == {"plan", "report", "apply", "destroy"}
Mutations == {"apply", "destroy"}

-----------------------------------------------------------------------------
(* The grammar *)

Command == [action |-> "noop", folders |-> <<>>, all |-> FALSE, destroy |-> FALSE,
            confirm |-> <<>>, pipeline |-> <<>>, step |-> 0]

\* What a ParseError leaves.
Rejected == Command

FolderList(token) == IF <<"">> \in ToSet(token) THEN <<>> ELSE token

IsPipelineName(token) ==
  Len(token) = 1 /\ token[1] # <<"all">> /\ Odd \notin ToSet(token[1])

\* The positive integer a token spells, 0 when it spells none.
Numeral(token) == CASE token = W("1") -> 1 [] token = W("2") -> 2 [] OTHER -> 0

ReadPipeline(verb, rest, destroy) ==
  IF verb = "report" \/ Len(rest) # 2 \/ ~ IsPipelineName(rest[2]) THEN Rejected
  ELSE [Command EXCEPT !.action = verb, !.pipeline = rest[2][1], !.destroy = destroy]

MutatePipeline(verb, rest) ==
  IF \/ Len(rest) \notin {2, 4} \/ ~ IsPipelineName(rest[2])
     \/ Len(rest) = 4 /\ (rest[3] # W("step") \/ Numeral(rest[4]) = 0)
  THEN Rejected
  ELSE [Command EXCEPT !.action = verb, !.pipeline = rest[2][1],
                       !.step = IF Len(rest) = 4 THEN Numeral(rest[4]) ELSE 1]

Mutate(verb, rest) ==
  CASE rest = <<>> -> Rejected
    [] rest # <<>> /\ rest[1] = W("pipeline") -> MutatePipeline(verb, rest)
    [] rest # <<>> /\ rest[1] = W("confirm") ->
         IF Len(rest) # 2 \/ rest[2] \notin {W(t) : t \in Tokens} THEN Rejected
         ELSE [Command EXCEPT !.action = verb, !.confirm = rest[2][1]]
    [] OTHER ->
         IF \/ Len(rest) > 1 \/ rest[1] = W("all") \/ FolderList(rest[1]) = <<>>
            \/ verb = "destroy" /\ Len(rest[1]) > 1
         THEN Rejected
         ELSE [Command EXCEPT !.action = verb, !.folders = FolderList(rest[1])]

ReadFoldersFirst(verb, rest, destroy) ==
  IF \/ verb = "report" \/ Len(rest) < 1 \/ rest[1] = W("all") \/ FolderList(rest[1]) = <<>>
  THEN Rejected
  ELSE [Command EXCEPT !.action = verb, !.folders = FolderList(rest[1]), !.destroy = destroy]

ReadFolders(verb, rest, destroy) ==
  IF \/ verb = "report" \/ Len(rest) # 1 \/ rest[1] = W("all") \/ FolderList(rest[1]) = <<>>
  THEN Rejected
  ELSE [Command EXCEPT !.action = verb, !.folders = FolderList(rest[1]), !.destroy = destroy]

Read(verb, tokens) ==
  LET destroy == tokens # <<>> /\ tokens[1] = W("--destroy")
      rest == IF destroy THEN Tail(tokens) ELSE tokens
  IN  CASE destroy /\ verb # "plan" -> Rejected
        [] verb = "report" /\ tokens = <<>> -> [Command EXCEPT !.action = verb, !.all = TRUE]
        [] OTHER -> IF rest # <<>> /\ rest[1] = W("pipeline")
                    THEN ReadPipeline(verb, rest, destroy)
                    ELSE ReadFolders(verb, rest, destroy)

Drift(rest) ==
  IF rest # <<>> /\ rest[1] = W("pipeline") THEN ReadPipeline("drift", rest, FALSE) ELSE Rejected

Parse(text) ==
  IF Len(text) < 2 \/ text[1] # W("tf") THEN Rejected
  ELSE LET rest == SubSeq(text, 3, Len(text))
       IN  CASE text[2] = W("drift") -> Drift(rest)
             [] text[2] \in {W(v) : v \in Mutations} -> Mutate(text[2][1][1], rest)
             [] text[2] \in {W(v) : v \in Verbs \ Mutations} -> Read(text[2][1][1], rest)
             [] OTHER -> Rejected

EffectiveAction(cmd) ==
  IF cmd.action = "plan" /\ cmd.destroy THEN "plan_destroy" ELSE cmd.action

-----------------------------------------------------------------------------
(* The run request *)

NoRequest == [action |-> "noop", mode |-> "explicit", folders |-> <<>>,
              pipeline |-> <<>>, step |-> 0]

\* Each folder where it is named first.
Distinct(folders) ==
  FlattenSeq([i \in DOMAIN folders |->
                IF \A j \in 1..(i - 1) : folders[j] # folders[i] THEN <<folders[i]>> ELSE <<>>])

FolderMode(cmd) ==
  CASE cmd.pipeline # <<>> -> "pipeline"
    [] cmd.pipeline = <<>> /\ cmd.all /\ cmd.action \notin Mutations -> "all"
    [] OTHER -> IF cmd.folders # <<>> THEN "explicit" ELSE "affected"

Request(cmd) ==
  LET mode == FolderMode(cmd)
      folders == IF mode = "explicit" THEN Distinct(cmd.folders) ELSE <<>>
      name == IF mode = "pipeline" THEN CanonicalName(cmd.pipeline) ELSE <<>>
      step == IF cmd.action \in Mutations THEN cmd.step ELSE 0
  IN  IF \/ cmd = Rejected
         \/ mode = "pipeline" /\ (name = <<>> \/ cmd.action = "report" \/ step # cmd.step)
         \/ \E i \in DOMAIN folders : ~ IsFolderPath(folders[i])
      THEN NoRequest
      ELSE [action |-> EffectiveAction(cmd), mode |-> mode, folders |-> folders,
            pipeline |-> name, step |-> step]

-----------------------------------------------------------------------------
(* The execution *)

\* The input of an execution.  It always carries an action, so the state
\* ParseCommand passes it on as it is.
Event(req) ==
  [action |-> req.action, folders |-> req.folders, all |-> req.mode = "all",
   affected |-> req.mode = "affected", pipeline |-> req.pipeline, step |-> req.step]

\* The folder of a checkpoint, <<>> when the pipeline has no such step.
FolderAt(name, step, action) ==
  LET all == FlattenSeq(Pipelines[name])
      order == IF action = "destroy" THEN Reverse(all) ELSE all
  IN  IF step \in DOMAIN order THEN order[step] ELSE <<>>

\* The folders an intent pins: those of its request, or of its checkpoint.
Pinned(req) ==
  CASE req.pipeline = <<>> -> req.folders
    [] req.pipeline \in DOMAIN Pipelines ->
         LET folder == FolderAt(req.pipeline, req.step, req.action)
         IN  IF folder = <<>> THEN <<>> ELSE <<folder>>
    [] OTHER -> <<>>

ConfirmedWithFlags(event, req) == [event EXCEPT !.action = req.action, !.folders = Pinned(req)]

\* What a confirmation makes of its event: the pinned folders win over the
\* flags of the confirming comment, which names none.
Confirmed(event, req) ==
  [event EXCEPT !.action = req.action, !.folders = Pinned(req), !.all = FALSE, !.affected = FALSE]

SelectedFolders(event) ==
  CASE event.affected -> Affected
    [] event.all /\ ~ event.affected -> Configured
    [] OTHER -> event.folders

\* The steps of a run, <<>> for a configuration error.
Steps(event) ==
  IF event.pipeline # <<>>
  THEN IF event.pipeline \notin DOMAIN Pipelines THEN <<>>
       ELSE IF event.action = "plan_destroy" THEN Reverse(Pipelines[event.pipeline])
            ELSE Pipelines[event.pipeline]
  ELSE LET folders == SelectedFolders(event)
       IN  IF folders # <<>> /\ ToSet(folders) \subseteq ToSet(Configured)
           THEN <<folders>> ELSE <<>>

\* The confirmation of a request's intent.
Confirmation(req) ==
  Confirmed(Event(Request([Command EXCEPT !.action = req.action,
                                          !.confirm = <<CHOOSE t \in Tokens : TRUE>>])), req)

-----------------------------------------------------------------------------
(* What the grammar and the selection of folders are to do *)

\* The documented comments that ask for a command.
Spellings(cmd) ==
  LET verb == <<W("tf"), W(cmd.action)>> \o IF cmd.destroy THEN <<W("--destroy")>> ELSE <<>>
      pipeline == verb \o <<W("pipeline"), <<cmd.pipeline>>>>
  IN  CASE cmd.action = "noop" \/ cmd.folders = W("all") -> {}
        [] cmd.pipeline # <<>> ->
             {pipeline \o <<W("step"), w>> : w \in {u \in {W("1"), W("2")} : Numeral(u) = cmd.step}}
               \union IF cmd.step < 2 THEN {pipeline} ELSE {}
        [] cmd.confirm # <<>> -> {verb \o <<W("confirm"), <<cmd.confirm>>>>}
        [] OTHER -> {verb \o IF cmd.all THEN <<>> ELSE <<cmd.folders>>}

\* The commands one may want to give, spelled from the parts of the comments.
Parts == UNION {ToSet(text) : text \in Texts}

Lists == {t \in Parts : <<"">> \notin ToSet(t)} \ {W(w) : w \in {"pipeline", "confirm", "--destroy"}}

PipelineNames == {t[1] : t \in {u \in Parts : IsPipelineName(u)}}

ForFolders(v, l, d) == [Command EXCEPT !.action = v, !.folders = l, !.destroy = d]
ForAll == [Command EXCEPT !.action = "report", !.all = TRUE]
ForPipeline(v, n, d) == [Command EXCEPT !.action = v, !.pipeline = n, !.destroy = d]
ForStep(v, n, k) == [Command EXCEPT !.action = v, !.pipeline = n, !.step = k]
ForConfirm(v, k) == [Command EXCEPT !.action = v, !.confirm = k]

Wishes ==
  {ForFolders("plan", l, d) : l \in Lists, d \in BOOLEAN}
    \union {ForFolders("apply", l, FALSE) : l \in Lists}
    \union {ForFolders("destroy", l, FALSE) : l \in {m \in Lists : Len(m) = 1}}
    \union {ForAll}
    \union {ForPipeline("plan", n, d) : n \in PipelineNames, d \in BOOLEAN}
    \union {ForPipeline("drift", n, FALSE) : n \in PipelineNames}
    \union {ForStep(v, n, k) : v \in Mutations, n \in PipelineNames, k \in {1, 2}}
    \union {ForConfirm(v, <<t>>) : v \in Mutations, t \in Tokens}

\* A comment is taken for a command only when it spells that command, and
\* every command one may give is understood from each of its spellings.
NothingMisread == \A t \in Texts : Parse(t) # Rejected => t \in Spellings(Parse(t))

NothingRefused == \A c \in Wishes : \A t \in Spellings(c) : Parse(t) = c

\* The folders a comment names, in an order its steps must keep: one folder
\* of the pipeline with as many before it as the step says, all of a
\* pipeline or of the checkout, or those of its list.  A pipeline may be
\* named by any path that leads to it.
Named(cmd) ==
  LET name == CanonicalName(cmd.pipeline)
      all == IF name \in DOMAIN Pipelines THEN FlattenSeq(Pipelines[name]) ELSE <<>>
      Before(i) == IF cmd.action = "destroy" THEN Len(all) - i ELSE i - 1
  IN  CASE cmd.pipeline = <<>> -> ToSet(IF cmd.all THEN Configured ELSE cmd.folders)
        [] cmd.pipeline # <<>> /\ cmd.action \in Mutations ->
             {all[i] : i \in {j \in DOMAIN all : Before(j) = cmd.step - 1}}
        [] OTHER -> ToSet(all)

\* The steps of a pipeline run do not go against the order of the pipeline.
InOrder(steps, cmd) ==
  LET all == FlattenSeq(Pipelines[CanonicalName(cmd.pipeline)])
      At(f) == CHOOSE n \in DOMAIN all : all[n] = f
  IN  \A i, j \in DOMAIN steps : i < j =>
        \A f \in ToSet(steps[i]), g \in ToSet(steps[j]) :
          IF cmd.destroy THEN At(f) > At(g) ELSE At(f) < At(g)

\* Whether these steps are what a command that became a request asks for.
AreAsked(steps, cmd) ==
  LET run == FlattenSeq(steps)
  IN  /\ IsInjective(run)
      /\ ToSet(run) = IF Named(cmd) \subseteq ToSet(Configured) THEN Named(cmd) ELSE {}
      /\ CanonicalName(cmd.pipeline) \in DOMAIN Pipelines /\ cmd.action \notin Mutations =>
           InOrder(steps, cmd)

Commanded(actions) ==
  {c \in {Parse(t) : t \in Texts} : c.action \in actions /\ c.confirm = <<>> /\ Request(c) # NoRequest}

ReadsAsAsked ==
  \A c \in Commanded({"plan", "report", "drift"}) : AreAsked(Steps(Event(Request(c))), c)

ConfirmedAsAsked == \A c \in Commanded(Mutations) : AreAsked(Steps(Confirmation(Request(c))), c)

=============================================================================
