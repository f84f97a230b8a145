-------------------------- MODULE AdvisoryEvidence --------------------------
(***************************************************************************)
(* The Codex advisory review of the approved-task runner: what             *)
(* codex_advisory_review.py writes for each way the Codex command can end  *)
(* and for each shape of what it prints, and what                          *)
(* codex_advisory_artifact_contract_validator.py accepts as evidence.      *)
(*                                                                         *)
(* A review is four files of an Attempt's artifact directory; they are     *)
(* written one after the other, so a process that dies leaves a prefix.    *)
(* The text of findings, prompts and checklists is left out: of what Codex *)
(* prints only the fields the code decides on are kept.                    *)
(***************************************************************************)
EXTENDS Naturals, Sequences

ALLOWED_REVIEW_STATUSES == {"not_run", "looks_good", "needs_attention",
                            "high_risk", "tool_error"}

\* How invoke_codex_cli ends: a subprocess result or one of its exceptions.
Invocations == {"exited_0", "exited_nonzero", "timed_out",
                "command_not_found", "os_error"}

\* What parse_codex_output finds in stdout.  A missing field is "absent"; the
\* nested checklist and the priorities are well formed, or not.  looks_good
\* stands for the three verdicts and for a status that is not given, which the
\* code treats alike.
Bools == {"absent", "true", "false"}
CodexOutputs ==
  [parsed : BOOLEAN,
   review_status : {"invented", "looks_good", "tool_error"},
   validation_authority : Bools,
   human_review_required : Bools,
   fields_typed : BOOLEAN,
   review_checklist : {"absent", "some_areas", "malformed"},
   human_review_priorities : {"absent", "listed", "empty", "malformed"}]

\* build_review_payload: nothing claimed, every area of the checklist filled.
\* tool_error stands for a well-formed {category, message} object.
ReviewPayload ==
  [review_status |-> "not_run", validation_authority |-> FALSE,
   human_review_required |-> TRUE, review_checklist |-> "complete",
   human_review_priorities |-> "listed", tool_error |-> FALSE,
   codex_cli_invoked |-> FALSE]

\* _apply_tool_error: the checklist and priorities go back to the defaults.
ToolErrorPayload ==
  [ReviewPayload EXCEPT !.review_status = "tool_error", !.tool_error = TRUE,
                        !.codex_cli_invoked = TRUE]

\* The raises of merge_codex_findings and of its two validators.
MergeRejects(out) ==
  \/ out.validation_authority = "true"
  \/ out.human_review_required = "false"
  \/ out.review_status = "invented"
  \/ ~ out.fields_typed
  \/ out.review_checklist = "malformed"
  \/ out.human_review_priorities \in {"empty", "malformed"}

\* merge_codex_findings: only CODEX_MUTABLE_FIELDS move, all or none; a
\* checklist of some areas is laid over the default one.
MergeCodexFindings(out) ==
  [ReviewPayload EXCEPT
     !.review_status = out.review_status,
     !.codex_cli_invoked = TRUE]

BuildConfirmRunPayload(inv, out) ==
  IF inv = "exited_0" /\ out.parsed /\ ~ MergeRejects(out)
    THEN MergeCodexFindings(out)
    ELSE ToolErrorPayload

\* The reviews a confirmed run can write.
ConfirmRunPayloads == {BuildConfirmRunPayload(inv, out) :
                         inv \in Invocations, out \in CodexOutputs}

-----------------------------------------------------------------------------
(* The files of one artifact directory *)

NoFile == [review_status |-> "missing"]
NoFiles == [json |-> NoFile, markdown |-> FALSE, stdout |-> FALSE,
            stderr |-> FALSE]

\* The directories reviews can leave behind.
Payloads == ConfirmRunPayloads \cup {ReviewPayload}
Directories == [json : {NoFile} \cup Payloads, markdown : BOOLEAN,
                stdout : BOOLEAN, stderr : BOOLEAN]

\* generate_codex_advisory_review writes in this order; a dry run has no
\* stdout and stderr to write.  The prompt file, which comes first and which
\* the contract does not ask for, is left out.
WriteOrder(p) == IF p.codex_cli_invoked
                   THEN <<"stdout", "stderr", "json", "markdown">>
                   ELSE <<"json", "markdown">>

\* The directory once the first k files of the review p are in place.
AfterWrites(f, p, k) ==
  LET Done(name) == \E i \in 1..k : WriteOrder(p)[i] = name IN
  [json     |-> IF Done("json") THEN p ELSE f.json,
   markdown |-> f.markdown \/ Done("markdown"),
   stdout   |-> f.stdout \/ Done("stdout"),
   stderr   |-> f.stderr \/ Done("stderr")]

AfterReview(f, p) == AfterWrites(f, p, Len(WriteOrder(p)))

-----------------------------------------------------------------------------
(* The contract *)

ValidChecklist(p) == p.review_checklist = "complete"
ValidPriorities(p) == p.human_review_priorities = "listed"

\* _is_valid_tool_error on the payload's tool_error object.
ValidToolError(p) == p.review_status = "tool_error" => p.tool_error

\* _expects_codex_outputs and the two files it asks for.
CodexOutputsPresent(f) == f.json.codex_cli_invoked => f.stdout /\ f.stderr

\* validate_codex_advisory_artifact_contract.
ContractPasses(f) ==
  /\ f.json # NoFile
  /\ f.json.review_status \in ALLOWED_REVIEW_STATUSES
  /\ f.json.validation_authority = FALSE
  /\ f.json.human_review_required = TRUE
  /\ f.markdown
  /\ CodexOutputsPresent(f)
  /\ ValidToolError(f.json)
  /\ ValidChecklist(f.json)
  /\ ValidPriorities(f.json)
=============================================================================
