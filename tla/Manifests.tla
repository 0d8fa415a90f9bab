------------------------------ MODULE Manifests ------------------------------
(***************************************************************************)
(* The objects one folder of one run leaves in the buckets, the manifest   *)
(* that lists them, and what a reader accepts of it.                       *)
(*                                                                         *)
(* Several modules of the program keep a table of artifact names or types  *)
(* each: the URLs that are signed, the script that uploads, the manifest   *)
(* that lists, the schema that is checked and the reader of the API.  Each *)
(* table is an operator of its own here, so that they can disagree.        *)
(*                                                                         *)
(* Repository, run, folder, commit and account are those of the one folder *)
(* run modelled: a key is its tree and its name.  The digest of a file is  *)
(* the attempt that made it.  Retention and time stamps are left out.      *)
(***************************************************************************)
EXTENDS Naturals, Sequences, SequencesExt, TLC

CONSTANT None   \* no pull request, no object, no row

MutationActions == {"apply", "destroy"}
Planned == {"plan", "report", "plan_destroy"}   \* the actions that leave a binary plan
Actions == Planned \cup {"drift"} \cup MutationActions

-----------------------------------------------------------------------------
(* Keys.                                                                   *)

PointerType(action) ==
  CASE action \in {"plan", "drift"} -> "plan"
    [] action = "plan_destroy"      -> "destroy"
    [] OTHER                        -> action

\* resolve_run_artifact_layout: a pull request's run has a tree of its own.
Layout(pr, action) == IF pr = None THEN <<>> ELSE <<pr, PointerType(action)>>

Tmp(tree, name) == <<"tmp", tree, name>>

ManifestUri(tree) == Tmp(tree, "manifest.json")

DoneUri(exec) == <<"done", exec, "done">>

PackageUri(exec) == <<"package", exec, "zip">>

\* The binary plan, its checksum and its metadata.
PlanFiles(action) ==
  CASE action \in {"plan", "report"} ->
         <<"plan.tfplan", "plan.tfplan.sha256", "plan-metadata.json">>
    [] action = "plan_destroy" ->
         <<"destroy.plan.tfplan", "destroy.plan.tfplan.sha256", "destroy-plan-metadata.json">>
    [] OTHER -> <<>>

AllPlanFiles == ToSet(PlanFiles("plan")) \cup ToSet(PlanFiles("plan_destroy"))

\* expected_plan_artifact_uris and expected_destroy_plan_artifact_uris
PlanUris(action, tree) == [i \in 1..3 |-> Tmp(tree, PlanFiles(action)[i])]

-----------------------------------------------------------------------------
(* Tables of names and types.                                              *)

Logs == <<"init.out", "validate.out">>

Scans == <<"tfsec.json", "tfsec.output", "infracost.json", "infracost.output">>

ScansOf(action, focus) == IF action \in {"plan", "report"} /\ ~focus THEN Scans ELSE <<>>

Output(action) == CASE action = "apply" -> "apply.out" [] action = "destroy" -> "destroy.out"

\* prepare_and_submit._artifact_names: the names a PUT URL is signed for.
Signed(action, focus) ==
  CASE action = "plan_destroy"    -> Logs \o <<"destroy.plan.out">>
    [] action \in MutationActions -> Logs \o <<"plan-show.out", Output(action)>>
    [] OTHER -> Logs \o <<"tf/plan.out", "drift.json">> \o ScansOf(action, focus)

\* script_generator._artifact_names: the names the script uploads when it exits.
Uploaded(action, focus) ==
  CASE action = "plan_destroy"    -> Logs \o <<"destroy.plan.out">>
    [] action \in MutationActions -> Logs \o <<"plan-show.out", Output(action)>>
    [] OTHER -> Logs \o <<"tf/plan.out", "drift.json">> \o ScansOf(action, focus)

\* manifest._artifact_names_for_action: the names Collect lists.
Listed(action, focus) ==
  CASE action = "drift"           -> Logs \o <<"tf/plan.out", "drift.json">>
    [] action = "plan_destroy"    -> Logs \o <<"destroy.plan.out">>
    [] action \in MutationActions -> Logs \o <<"plan-show.out", Output(action)>>
    [] OTHER -> Logs \o <<"tf/plan.out">> \o ScansOf(action, focus)

Optional == {"infracost.output"}

\* manifest_schema: what the manifest of a failed execution may list.
FailureEntries(action, focus) ==
  ToSet(Logs) \cup
  CASE action = "drift"           -> {"tf/plan.out", "drift.json"}
    [] action = "plan_destroy"    -> {"destroy.plan.out"}
    [] action \in MutationActions -> {"plan-show.out", Output(action)}
    [] OTHER -> {"tf/plan.out"} \cup (IF focus THEN {} ELSE ToSet(Scans))

\* manifest_schema: what the manifest of a successful one must list.
SuccessEntries(action, focus) ==
  (FailureEntries(action, focus) \ Optional)
    \cup {"done", "package"} \cup ToSet(PlanFiles(action))

\* artifact_access: the names the API hands out, and two it refuses later, the
\* one for its slash and done for its type.
Exposed ==
  {"init.out", "validate.out", "tf/plan.out", "drift.json", "done",
   "plan.tfplan", "plan.tfplan.sha256", "plan-metadata.json"} \cup ToSet(Scans)

JsonFiles ==
  {"drift.json", "tfsec.json", "infracost.json", "plan-metadata.json",
   "destroy-plan-metadata.json"}

BinaryPlans == {"plan.tfplan", "destroy.plan.tfplan"}

\* Faulty: the metadata of a destroy plan is not in the table.
SignedTypeOfPlans(name) ==
  CASE name \in JsonFiles \ {"destroy-plan-metadata.json"} -> "application/json"
    [] name \in BinaryPlans -> "application/octet-stream"
    [] OTHER                -> "text/plain"

\* _content_type_for_key: the type a PUT URL is signed for.
SignedType(name) ==
  CASE name \in JsonFiles   -> "application/json"
    [] name \in BinaryPlans -> "application/octet-stream"
    [] OTHER                -> "text/plain"

\* The Content-Type header the script sends: by name for plans, by suffix at the exit.
SentType(name) ==
  CASE name \in {"plan-metadata.json", "destroy-plan-metadata.json"} -> "application/json"
    [] name \in BinaryPlans -> "application/octet-stream"
    [] name \in {"drift.json", "tfsec.json", "infracost.json"} -> "application/json"
    [] OTHER -> "text/plain"

\* _validate_entry_class: the types of an entry.
TypesOf(name) ==
  CASE name = "done"        -> {"binary/octet-stream", "application/octet-stream"}
    [] name = "package"     -> {"application/octet-stream", "application/zip"}
    [] name \in JsonFiles   -> {"application/json"}
    [] name \in BinaryPlans -> {"application/octet-stream"}
    [] OTHER                -> {"text/plain"}

-----------------------------------------------------------------------------
(* The metadata of a plan.                                                 *)

\* What the script writes from the environment it was given.
Metadata(action, by, tree) == [plan |-> by, action |-> action, files |-> PlanUris(action, tree)]

\* validate_plan_artifact_metadata
ValidMetadata(metadata, action, tree) ==
  /\ action \in Planned
  /\ metadata.action = action
  /\ metadata.files = PlanUris(action, tree)

-----------------------------------------------------------------------------
(* validate_manifest_schema.  The caller gives the tree of the run - or    *)
(* none, and then the manifest's own is taken, except for a plan's files.  *)

TreeOf(m, tree) == IF tree = <<>> THEN m.tree ELSE tree

ExpectedUri(name, m, tree) ==
  CASE name = "done"         -> DoneUri(m.exec)
    [] name = "package"      -> PackageUri(m.exec)
    [] name \in AllPlanFiles -> Tmp(tree, name)
    [] OTHER                 -> Tmp(TreeOf(m, tree), name)

ValidEntry(name, m, tree) ==
  LET e == m.entries[name] IN
  /\ e.uri = ExpectedUri(name, m, tree)
  /\ e.type \in TypesOf(name)
  /\ e.fits

\* _validate_required_entry_set
ValidEntrySet(m) ==
  LET required == SuccessEntries(m.action, m.focus) IN
  IF m.failed
  THEN DOMAIN m.entries \subseteq FailureEntries(m.action, m.focus)
  ELSE required \subseteq DOMAIN m.entries /\ DOMAIN m.entries \subseteq required \cup Optional

ValidSchema(m, tree) ==
  /\ m.uri = ManifestUri(TreeOf(m, tree))
  /\ \A name \in DOMAIN m.entries : ValidEntry(name, m, tree)
  /\ ValidEntrySet(m)

\* validate_manifest_binding, and the execution id the caller expects.
Bound(m, exec, attempt) == m.exec = exec /\ m.attempt = attempt

\* build_manifest
Manifest(r, attempt, ok, entries) ==
  LET tree == Layout(r.pr, r.action) IN
  [exec |-> attempt, attempt |-> attempt, action |-> r.action, focus |-> r.focus,
   tree |-> tree, uri |-> ManifestUri(tree), entries |-> entries, failed |-> ~ok]

\* build_failure_manifest lists nothing; its execution id is the map item's, of attempt 0.
FailureManifest(r, attempt) ==
  LET tree == Layout(r.pr, r.action) IN
  [exec |-> 0, attempt |-> attempt, action |-> r.action, focus |-> FALSE,
   tree |-> tree, uri |-> ManifestUri(tree), entries |-> <<>>, failed |-> TRUE]

-----------------------------------------------------------------------------
(* parse_result: the engine's done marker.                                 *)

\* _validate_steps: one step, or none when the engine itself failed.
WellFormed(marker) ==
  \/ marker = [status |-> "succeeded", error |-> None, exit |-> 0, output |-> None]
  \/ /\ marker.status = "failed"
     /\ IF marker.exit = None THEN marker.error # None ELSE marker.exit # 0

\* ExecutionResult.credential_expired
Expired(marker) == marker.status = "failed" /\ "expired" \in {marker.error, marker.output}

\* The markers the engine writes: the command succeeded, it failed - with a message of
\* expired credentials or without -, it never started, or the marker is no such thing.
Succeeded == [status |-> "succeeded", error |-> None, exit |-> 0, output |-> None]

Failures ==
  {[status |-> "failed", error |-> None, exit |-> 1, output |-> None],
   [status |-> "failed", error |-> "no runner", exit |-> None, output |-> None]}

Expiries ==
  {[status |-> "failed", error |-> None, exit |-> 1, output |-> "expired"],
   [status |-> "failed", error |-> "expired", exit |-> None, output |-> None]}

Malformed == [status |-> "succeeded", error |-> None, exit |-> 1, output |-> None]
=============================================================================
