---------------------------- MODULE Publication ----------------------------
(* What the runs of one pull request publish: the comments RenderPlaceholder, *)
(* the progress notices, RenderPR and RenderPipelineFailure post, replace and  *)
(* delete, the folder locks RenderPR gives back as it goes, and the aggregate  *)
(* of a pipeline's checkpoints in the run registry.                            *)
(*                                                                             *)
(* A Lambda is a script: the calls it still has to make, one step each, so     *)
(* those of other runs fall between any two of them.  A call that fails drops  *)
(* the rest of its script.  What a run does before its folders are resolved is *)
(* in Ingress and Intents, how it takes its locks in RunLocks, what becomes of *)
(* its folders in FolderRun.                                                   *)
EXTENDS Commands, FiniteSets

CONSTANTS
  Runs,       \* the runs of the pull request, at one commit
  Typed,      \* the comments that start them
  MaxTrouble, \* how often a call fails, a run loses its locks while it works,
              \* or a spent token is confirmed again
  Earlier,    \* a run that was over before these started
  Begun,      \* the pipelines and actions whose first step it took
  Nobody      \* the holder of a free folder, and no comment

\* A confirmation follows on the comment that asks, Start.
ASSUME TypedIsKnown == Typed \subseteq Texts /\ \A t \in Typed : Parse(t).confirm = <<>>
ASSUME BegunIsKnown == Begun \subseteq Mutations \X DOMAIN Pipelines

\* The places of what is about a whole run, of a configuration error, and of
\* the comment that says a run failed.
All == <<"all">>
Config == <<"config">>
Failed == <<"", "failure">>

Folders == ToSet(Configured)

\* A folder of one of these names would share the marker of the summary or of
\* the configuration error.
ASSUME NoFolderIsReserved == {All, Config} \intersect Folders = {}

ASSUME NobodyIsNoRun == Nobody \notin Runs \union {Earlier}

\* The comments of a user and of an intent that lead to a run.
Asking == {"request", "intent", "confirm"}

Types == {"plan", "drift", "report", "report-all", "apply", "destroy"}
Kinds == Asking \union {"pending", "status", "result", "preview", "summary",
          "aggregate", "failure"}

ASSUME NobodyIsNoComment ==
  Nobody \notin [run : Runs \union {Earlier}, kind : Kinds, type : Types \union {"plan_destroy", "failure"},
                 place : Folders \union {All, Config, Failed}, managed : BOOLEAN]

ASSUME TroubleIsBounded == MaxTrouble \in Nat

VARIABLES
  asked,       \* run -> the comment that asked for it
  job,         \* run -> its request
  pc,          \* run -> the state of its execution
  script,      \* run -> the calls its Lambda has still to make
  comments,    \* the comments on the pull request
  holder,      \* folder -> the run that holds its lock
  turns,       \* folder -> the runs that got its lock, in turn
  items,       \* run -> its launched and its skipped folders
  aggregate,   \* pipeline and action -> the comment and the rows of its steps
  read,        \* run -> the aggregate as it read it
  marked,      \* the steps the registry marks as done
  overlapped,  \* the aggregates one run saved over what another had saved
  shown,       \* run -> the places its outcome was shown at
  loose,       \* the runs that lost their locks
  faults       \* the failed calls and the refused confirmations

input == <<asked, job>>
locks == <<holder, turns>>
registry == <<aggregate, read, marked, overlapped>>
trouble == <<loose, faults>>
vars == <<input, pc, script, comments, locks, items, registry, shown, trouble>>

-----------------------------------------------------------------------------
(* Comments *)

TypeOfAny(action) == action

\* The type in the marker of a comment, comment_type_for_action.
TypeOf(action) == IF action = "plan_destroy" THEN "destroy" ELSE action

\* The summary of a report has a type of its own.
SummaryType(action) == IF action = "report" THEN "report-all" ELSE TypeOf(action)

EmitsAlways(action) == TRUE

\* Apply and destroy results are history and carry no marker.
EmitsMarker(action) == action \notin Mutations

\* A status comment names its run; a managed one ends with its identity, the
\* type and the place.
Comment(run, kind, type, place, managed) ==
  [run |-> run, kind |-> kind, type |-> type, place |-> place, managed |-> managed]

Raw(r) == {Comment(r, kind, job[r].action, All, FALSE) :
             kind \in IF job[r].action \in Mutations THEN Asking ELSE {"request"}}

-----------------------------------------------------------------------------
(* Calls *)

Managed(type, place) == [op |-> "find", by |-> "marker", type |-> type, place |-> place, run |-> Nobody]
Failures == [op |-> "find", by |-> "failure", type |-> "failure", place |-> Failed, run |-> Nobody]
\* The comments that mention the status of a run.
Mentions(r) == [op |-> "find", by |-> "mention", type |-> "status", place |-> All, run |-> r]

Matches(c, f) ==
  CASE f.by = "marker" -> c.managed /\ c.type = f.type /\ c.place = f.place
    [] f.by = "failure" -> c.kind = "failure"
    [] f.by = "mention" -> c.kind = "status" /\ c.run = f.run

Delete(set) == [op |-> "delete", set |-> set]

SweepAsking(kinds) == [op |-> "sweep", kinds |-> kinds \ {"status"}]

\* The progress notices of the run itself, and the comments that asked for it.
Sweep(kinds) == [op |-> "sweep", kinds |-> kinds]

Create(comment) == [op |-> "create", comment |-> comment]
Release(folder) == [op |-> "release", folder |-> folder]
Save(comment) == [op |-> "save", comment |-> comment]
RunFolder(folder) == [op |-> "run", folder |-> folder]
Do(op) == [op |-> op]

Replace(comment) == <<Managed(comment.type, comment.place), Create(comment)>>

-----------------------------------------------------------------------------
(* The Lambdas *)

Key(r) == <<job[r].action, job[r].pipeline>>
IsPipelineMutation(r) == job[r].action \in Mutations /\ job[r].pipeline # <<>>
\* A run that plans a pipeline shows one preview, unless it failed to resolve.
IsFocus(r, its) ==
  job[r].action \in {"plan", "plan_destroy"} /\ job[r].pipeline # <<>> /\ its.launched # <<Config>>

\* RenderPlaceholder
Placeholders(r, its) ==
  LET action == job[r].action
      Pending(f) ==
        Replace(Comment(r, IF action \in Mutations THEN "status" ELSE "pending",
                        TypeOf(action), f, TRUE))
  IN  IF IsPipelineMutation(r) THEN <<>>
      ELSE (IF IsFocus(r, its) THEN <<>> ELSE FlattenSeq([i \in DOMAIN its.launched |-> Pending(its.launched[i])]))
             \o Replace(Comment(r, "pending", SummaryType(action), All, TRUE))
             \o IF action \in Mutations THEN <<>> ELSE <<Sweep(Asking)>>

\* NotifySubmitted, after the engine accepted a folder of a mutation
Progress(r, f) == <<Mentions(r), Create(Comment(r, "status", job[r].action, f, FALSE))>>

Aggregate(r) == Comment(r, "aggregate", job[r].action, All, TRUE)

\* The summary of a run, or the end of its placeholder.
Summary(r, its) ==
  LET action == job[r].action
      posts == action = "report" \/ Len(its.launched) + Len(its.skipped) > 1
  IN  CASE IsPipelineMutation(r) ->
             <<Do("read"), Managed(IF action = "destroy" THEN "destroy" ELSE "plan", All), Do("upsert")>>
        [] IsFocus(r, its) -> Replace(Comment(r, "preview", TypeOf(action), All, TRUE))
        [] posts /\ ~ IsFocus(r, its) /\ ~ IsPipelineMutation(r) ->
             Replace(Comment(r, "summary", SummaryType(action), All, EmitsMarker(action)))
        [] OTHER -> <<Managed(SummaryType(action), All)>>

Show(r, its, f) ==
  IF IsFocus(r, its) \/ IsPipelineMutation(r) THEN <<>>
  ELSE Replace(Comment(r, "result", TypeOf(job[r].action), f, EmitsMarker(job[r].action)))

FinishAfterRelease(r, its, f) == (IF f = Config THEN <<>> ELSE <<Release(f)>>) \o Show(r, its, f)

Finish(r, its, f) == Show(r, its, f) \o IF f = Config THEN <<>> ELSE <<Release(f)>>

\* RenderPR
Render(r, its) ==
  FlattenSeq([i \in DOMAIN its.launched |-> Finish(r, its, its.launched[i])])
    \o FlattenSeq([i \in DOMAIN its.skipped |-> Show(r, its, its.skipped[i])])
    \o Summary(r, its) \o <<Sweep(Asking \union {"status"})>>
    \o IF IsPipelineMutation(r) THEN <<Do("record")>> ELSE <<>>

\* RenderPipelineFailure
Failure(r) ==
  <<Failures, Create(Comment(r, "failure", "failure", Failed, FALSE)),
    Sweep({"status"} \union IF job[r].action \in Mutations THEN Asking ELSE {})>>

-----------------------------------------------------------------------------

NoItems == [launched |-> <<>>, skipped |-> <<>>]
NoAggregate == [comment |-> Nobody, rows |-> {}]
Aggregates == Mutations \X DOMAIN Pipelines

\* The aggregate of a pipeline whose first step an earlier run took.
EarlierComment(k) == Comment(Earlier, "aggregate", k[1], All, TRUE)
EarlierAggregate(k) == [comment |-> EarlierComment(k), rows |-> {1}]

Init ==
  /\ asked = [r \in Runs |-> <<>>]
  /\ job = [r \in Runs |-> NoRequest]
  /\ pc = [r \in Runs |-> "idle"]
  /\ script = [r \in Runs |-> <<>>]
  /\ holder = [f \in Folders |-> Nobody]
  /\ turns = [f \in Folders |-> <<>>]
  /\ items = [r \in Runs |-> NoItems]
  /\ read = [r \in Runs |-> NoAggregate]
  /\ comments = {EarlierComment(k) : k \in Begun}
  /\ aggregate = [k \in Aggregates |-> IF k \in Begun THEN EarlierAggregate(k) ELSE NoAggregate]
  /\ marked = {<<k, 1>> : k \in Begun}
  /\ overlapped = {}
  /\ shown = [r \in Runs |-> {}]
  /\ loose = {}
  /\ faults = 0

Enter(r, state, calls) ==
  /\ pc' = [pc EXCEPT ![r] = state]
  /\ script' = [script EXCEPT ![r] = calls]

\* A comment starts a run; the one that confirms a mutation follows on the
\* request and the intent, which needs folders to pin.  The gate of a later
\* step asks for the one before.
Start(r) ==
  /\ pc[r] = "idle"
  /\ \E t \in Typed :
       LET req == Request(Parse(t))
       IN  /\ req # NoRequest /\ (req.action \in Mutations => Pinned(req) # <<>>)
           /\ req.step > 1 => <<<<req.action, req.pipeline>>, req.step - 1>> \in marked
           /\ job' = [job EXCEPT ![r] = req]
           /\ asked' = [asked EXCEPT ![r] = t]
  /\ pc' = [pc EXCEPT ![r] = "resolving"]
  /\ comments' = comments \union Raw(r)'
  /\ UNCHANGED <<script, locks, items, registry, shown, trouble>>

\* A second confirmation of a spent token, while the mutation that spent it
\* runs or later: confirm_handler says that it failed, deletes the comment of
\* that confirmation, neither of them kept here, and then the intent and the
\* request of the first one, unless a deletion raises.  Of a record that has
\* expired only the intent goes, found by its token.
Reconfirm(r) ==
  /\ pc[r] # "idle" /\ job[r].action \in Mutations
  /\ faults + Cardinality(loose) < MaxTrouble
  /\ faults' = faults + 1
  /\ \E kinds \in {{"intent"}, {"intent", "request"}} :
       comments' = {c \in comments : ~ (c.run = r /\ c.kind \in kinds)}
  /\ UNCHANGED <<input, pc, script, locks, items, registry, shown, loose>>

\* ValidateAndResolve takes the locks it can.  Where the run cannot do with
\* fewer it takes none, and RenderPR shows a configuration error.
Resolve(r) ==
  LET event == IF job[r].action \in Mutations THEN Confirmation(job[r]) ELSE Event(job[r])
      folders == FlattenSeq(Steps(event))
      IsFree(f) == holder[f] = Nobody
      free == Selected(folders, {f \in Folders : IsFree(f)})
      partly == job[r].pipeline = <<>> /\ job[r].action \notin Mutations
      its == IF folders = <<>> \/ (free # folders /\ ~ partly)
             THEN [launched |-> <<Config>>, skipped |-> <<>>]
             ELSE [launched |-> free, skipped |-> Selected(folders, {f \in Folders : ~ IsFree(f)})]
      taken == ToSet(its.launched) \intersect Folders
  IN  /\ pc[r] = "resolving"
      /\ items' = [items EXCEPT ![r] = its]
      /\ holder' = [f \in Folders |-> IF f \in taken THEN r ELSE holder[f]]
      /\ turns' = [f \in Folders |-> IF f \in taken THEN Append(turns[f], r) ELSE turns[f]]
      /\ IF its.launched = <<Config>> THEN Enter(r, "rendering", Render(r, its))
                                      ELSE Enter(r, "placing", Placeholders(r, its))
      /\ UNCHANGED <<input, comments, registry, shown, trouble>>

\* The steps of the execution between the Lambdas.
Proceed(r) ==
  /\ script[r] = <<>>
  /\ \/ /\ pc[r] = "placing"
        /\ Enter(r, "working",
                 IF job[r].action \in Mutations
                 THEN [i \in DOMAIN items[r].launched |-> RunFolder(items[r].launched[i])] ELSE <<>>)
     \/ pc[r] = "working" /\ Enter(r, "rendering", Render(r, items[r]))
     \/ pc[r] = "rendering" /\ Enter(r, "done", <<>>)
     \/ pc[r] = "failing" /\ Enter(r, "finalizing", <<>>)
  /\ UNCHANGED <<input, comments, locks, items, registry, shown, trouble>>

GivenBack(r) == [f \in Folders |-> IF holder[f] = r THEN Nobody ELSE holder[f]]

\* The finalizer of a failed run.
Finalize(r) ==
  /\ pc[r] = "finalizing"
  /\ holder' = GivenBack(r)
  /\ Enter(r, "failed", <<>>)
  /\ UNCHANGED <<input, comments, turns, items, registry, shown, trouble>>

\* The locks of a run go before its work: they expire, or its execution is
\* stopped and finalized while its Lambda goes on, a run that takes no
\* further Proceed.
Loosen(r) ==
  /\ pc[r] \in {"placing", "working", "rendering", "failing"}
  /\ \E f \in Folders : holder[f] = r
  /\ faults + Cardinality(loose) < MaxTrouble
  /\ holder' = GivenBack(r)
  /\ loose' = loose \union {r}
  /\ UNCHANGED <<input, pc, script, comments, turns, items, registry, shown, faults>>

-----------------------------------------------------------------------------

\* The next call of a run, and the run without it.
Next_(r, op) == script[r] # <<>> /\ Head(script[r]).op = op
Goes(r, calls) == script' = [script EXCEPT ![r] = calls \o Tail(@)]

Find(r) ==
  /\ Next_(r, "find")
  /\ LET f == Head(script[r])
         found == {c \in comments : Matches(c, f)}
     IN  Goes(r, IF found = {} THEN <<>> ELSE <<Delete(found)>>)
  /\ UNCHANGED <<input, pc, comments, locks, items, registry, shown, trouble>>

\* The locks RenderPR gives back although a comment of the folder failed.
Unwound(r) ==
  LET kept == Selected(script[r], {Release(f) : f \in Folders})
  IN  IF pc[r] = "rendering" /\ kept # <<>> /\ holder[Head(kept).folder] = r
      THEN [holder EXCEPT ![Head(kept).folder] = Nobody] ELSE holder

\* A call raises: a placeholder and a progress notice are best effort, a
\* read run goes to its finalizer, a mutation says that it failed first.
Raise(r) ==
  /\ holder' = Unwound(r)
  /\ CASE pc[r] = "working" -> Enter(r, "working", Selected(script[r], {RunFolder(f) : f \in Folders}))
       [] pc[r] = "rendering" /\ job[r].action \in Mutations -> Enter(r, "failing", Failure(r))
       [] pc[r] = "placing" -> Enter(r, "placing", <<>>)
       [] OTHER -> Enter(r, "finalizing", <<>>)
  /\ UNCHANGED <<input, comments, turns, items, registry, shown, loose>>

\* One comment after the other goes, and one that is gone already raises.
DeleteOne(r) ==
  /\ Next_(r, "delete")
  /\ LET d == Head(script[r])
     IN  \E c \in d.set :
           IF c \in comments
           THEN /\ comments' = comments \ {c}
                /\ Goes(r, IF d.set = {c} THEN <<>> ELSE <<[d EXCEPT !.set = @ \ {c}]>>)
                /\ UNCHANGED <<input, pc, locks, items, registry, shown, trouble>>
           ELSE Raise(r) /\ UNCHANGED faults

\* Of another run only a refused confirmation deletes these, Reconfirm, and
\* one that is gone already does no harm.
SweepOwn(r) ==
  /\ Next_(r, "sweep")
  /\ comments' = {c \in comments : ~ (/\ c.run = r /\ c.kind \in Head(script[r]).kinds
                                     /\ ~ c.managed)}
  /\ Goes(r, <<>>)
  /\ UNCHANGED <<input, pc, locks, items, registry, shown, trouble>>

\* The results, the aggregate and the failure are what a run has to show.
Shows(r, c) ==
  shown' = [shown EXCEPT ![r] =
              @ \union IF c.kind \in {"pending", "status"} THEN {} ELSE {c.place}]

CreateOne(r) ==
  /\ Next_(r, "create")
  /\ LET c == Head(script[r]).comment
     IN  comments' = comments \union {c} /\ Shows(r, c)
  /\ Goes(r, <<>>)
  /\ UNCHANGED <<input, pc, locks, items, registry, trouble>>

ReleaseFolder(r) ==
  /\ Next_(r, "release")
  /\ LET f == Head(script[r]).folder
     IN  holder' = [holder EXCEPT ![f] = IF @ = r THEN Nobody ELSE @]
  /\ Goes(r, <<>>)
  /\ UNCHANGED <<input, pc, comments, turns, items, registry, shown, trouble>>

\* A folder of a mutation runs; its notice may be skipped, and when the
\* folder fails, with its notice or without, the ones after it are not run.
RunOne(r) ==
  /\ pc[r] = "working"
  /\ \/ /\ Next_(r, "run") /\ pc' = pc
        /\ \E notice \in {<<>>, Progress(r, Head(script[r]).folder)} : Goes(r, notice)
     \/ /\ Next_(r, "run") \/ (script[r] = <<>> /\ job[r].action \in Mutations)
        /\ Enter(r, "failing", Failure(r))
  /\ UNCHANGED <<input, comments, locks, items, registry, shown, trouble>>

ReadAggregate(r) ==
  /\ Next_(r, "read")
  /\ read' = [read EXCEPT ![r] = aggregate[Key(r)]]
  /\ Goes(r, <<>>)
  /\ UNCHANGED <<input, pc, comments, locks, items, aggregate, marked, overlapped, shown, trouble>>

\* The comment of the aggregate is updated, or posted again when it is gone.
Upsert(r) ==
  /\ Next_(r, "upsert")
  /\ LET old == read[r].comment
     IN  IF old \in comments
         THEN Goes(r, <<Save(old)>>) /\ Shows(r, old)
         ELSE Goes(r, Replace(Aggregate(r)) \o <<Save(Aggregate(r))>>) /\ UNCHANGED shown
  /\ UNCHANGED <<input, pc, comments, locks, items, registry, trouble>>

MergeFresh(rows, step) == {step}

Merge(rows, step) == rows \union {step}

SaveAggregate(r) ==
  /\ Next_(r, "save")
  /\ aggregate' = [aggregate EXCEPT ![Key(r)] = [comment |-> Head(script[r]).comment,
                                                 rows |-> Merge(read[r].rows, job[r].step)]]
  /\ overlapped' = IF aggregate[Key(r)] = read[r] THEN overlapped ELSE overlapped \union {Key(r)}
  /\ Goes(r, <<>>)
  /\ UNCHANGED <<input, pc, comments, locks, items, read, marked, shown, trouble>>

\* The registry update marks the step of a pipeline mutation that succeeded.
Record(r) ==
  /\ Next_(r, "record")
  /\ marked' = IF items[r].launched # <<Config>>
               THEN marked \union {<<Key(r), job[r].step>>} ELSE marked
  /\ Goes(r, <<>>)
  /\ UNCHANGED <<input, pc, comments, locks, items, aggregate, read, overlapped, shown, trouble>>

\* A call that changes something fails, or ValidateAndResolve does before it
\* has locks.  A failed search is as a failure of the call that follows it.
Fault(r) ==
  /\ faults + Cardinality(loose) < MaxTrouble
  /\ faults' = faults + 1
  /\ \/ /\ script[r] # <<>>
        /\ Head(script[r]).op \in {"delete", "create", "sweep", "upsert", "save", "record"}
        /\ Raise(r)
     \/ /\ pc[r] = "resolving"
        /\ Enter(r, "failing", Failure(r))
        /\ UNCHANGED <<input, comments, locks, items, registry, shown, loose>>

Next ==
  \E r \in Runs :
    \/ Start(r) \/ Resolve(r) \/ Proceed(r) \/ Finalize(r) \/ Loosen(r) \/ Fault(r)
    \/ Find(r) \/ DeleteOne(r) \/ SweepOwn(r) \/ CreateOne(r) \/ ReleaseFolder(r) \/ RunOne(r)
    \/ ReadAggregate(r) \/ Upsert(r) \/ SaveAggregate(r) \/ Record(r) \/ Reconfirm(r)

Spec == Init /\ [][Next]_vars

-----------------------------------------------------------------------------
(* Properties *)

\* The variables have their types: what carries a marker has one of the
\* types comment_type_for_action allows, and no run gets a lock twice.
TypeOK ==
  /\ \A r \in Runs :
       /\ pc[r] \in {"idle", "resolving", "placing", "working", "rendering", "failing",
                     "finalizing", "done", "failed"}
       /\ pc[r] # "idle" => job[r].action \in Verbs \union {"plan_destroy", "drift"}
       /\ ToSet(items[r].launched) \subseteq Folders \union {Config}
       /\ ToSet(items[r].skipped) \subseteq Folders
       /\ shown[r] \subseteq Folders \union {Config, All, Failed}
  /\ \A c \in comments : /\ c.run \in Runs \union {Earlier} /\ c.kind \in Kinds
                         /\ c.place \in Folders \union {Config, All, Failed}
                         /\ c.managed => c.type \in Types
  /\ \A f \in Folders : holder[f] \in Runs \union {Nobody} /\ IsInjective(turns[f])
  /\ \A k \in Aggregates : aggregate[k].comment \in {Nobody} \union [run : Runs \union {Earlier},
       kind : {"aggregate"}, type : Mutations, place : {All}, managed : {TRUE}]
  /\ loose \subseteq Runs /\ faults \in 0..MaxTrouble

\* The comment that started a run spells the command the run carries out,
\* and the guards of parse_command and its helpers neither misread nor refuse
\* any comment or command of the vocabulary.
ParseInvertsSpelling ==
  /\ NothingMisread /\ NothingRefused
  /\ \A r \in Runs : asked[r] # <<>> => asked[r] \in Spellings(Parse(asked[r]))

\* A run works on the folders its comment names and on no other, each once and
\* a pipeline in its order, or on none when one of them is not configured; a
\* confirmed run on those of the request it confirms, whatever the confirming
\* comment says (github_run_request, confirm_handler, resolve_outer_state).
RunsNamedFolders ==
  /\ ReadsAsAsked /\ ConfirmedAsAsked
  /\ \A r \in Runs : items[r] # NoItems /\ Config \notin ToSet(items[r].launched) =>
       ToSet(items[r].launched \o items[r].skipped) = Named(Parse(asked[r]))

\* Whether a run has shown all it was to show.
IsTold(r) ==
  \/ Failed \in shown[r]
  \/ IF IsPipelineMutation(r) THEN All \in shown[r]
     ELSE items[r] # NoItems /\ ToSet(items[r].launched) \subseteq shown[r]

\* The result and the summary of an apply or a destroy are never deleted
\* again, and the comments that asked for it and confirmed it only after its
\* outcome was shown, but for its request and its intent, which confirm_handler
\* deletes as well when the spent token is confirmed again; the accepted
\* confirmation stays even then (should_emit_comment_object_marker,
\* _cleanup_terminal_mutation_comments).
MutationHistoryStays ==
  [][\A c \in comments \ comments' :
       c.run \in Runs /\ job[c.run].action \in Mutations =>
         /\ c.kind \notin {"result", "summary"}
         /\ c.kind \in Asking => \/ IsTold(c.run)
                                 \/ c.kind # "confirm" /\ Reconfirm(c.run)]_vars

\* A run whose RenderPR returned has left no placeholder and no progress
\* notice behind, neither of its folders nor of the whole run.
NothingPendingAfterRender ==
  \A r \in Runs : pc[r] = "done" =>
    ~ \E c \in comments : c.run = r /\ c.kind \in {"pending", "status"}

\* Once a run that got the lock of a folder has shown its result there, no
\* managed comment of a run that had the lock before is left: RenderPR gives
\* a lock back only after the comment of its folder.
NewestFolderComment ==
  \A f \in Folders : \A i, j \in DOMAIN turns[f] :
    i < j /\ f \in shown[turns[f][j]] /\ turns[f][i] \notin loose =>
      ~ \E c \in comments : /\ c.managed /\ c.place = f /\ c.run = turns[f][i]
                            /\ c.type = TypeOf(job[turns[f][j]].action)

\* Every step the registry marks as done has its row in the aggregate of the
\* pipeline, unless a run saved over rows it had not read.
MarkedCheckpointsAreShown ==
  \A m \in marked : m[2] \in aggregate[m[1]].rows \/ m[1] \in overlapped

=============================================================================
