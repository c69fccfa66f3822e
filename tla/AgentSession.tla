---------------------------- MODULE AgentSession ----------------------------
(***************************************************************************)
(* One task, from submitTask to its result: a loop of turns.               *)
(*                                                                         *)
(*   seed     preflight research and validation, pinned files              *)
(*   turn     the top of the loop: cancelled, out of time, or one more     *)
(*   model    the model is asked and answers, or does not                  *)
(*   ops      its context operations and missing snippets                  *)
(*   act      the actions it proposes, one after the other                 *)
(*   approve  one of them waits for the operator, then is carried out      *)
(*   settle   validation, completion, the idle guard                       *)
(*   stopped                                                               *)
(*                                                                         *)
(* The model is an adversary: it may propose anything at any time.  The    *)
(* workspace is shared with the operator (ExternalChange) and with the     *)
(* commands the session runs.  The guarded write is one step here, with    *)
(* the outcomes FileOutcome lists, which are those of FileEditGuard.       *)
(*                                                                         *)
(* Of the context graph only the nodes that show files are kept; messages  *)
(* that expire after a turn, transcripts and events are left out.          *)
(***************************************************************************)
EXTENDS Integers, FiniteSets, FileOutcome

CONSTANTS
  Path, Content,    \* files the task touches, and their possible texts
  Workspace,        \* what a search or a listing is about: every file
  Query,            \* the web searches the model may ask for
  HasValidator,     \* validateWorkspace is given
  NeedResearch,     \* requireWebResearch
  Kinds,            \* bound: what the model does in this instance
  Interrupts,       \* bound: how this instance may be interrupted
  MaxTurns,         \* maxTurns
  MaxActions,       \* maxActionsPerTurn
  MaxOps,           \* bound: context operations in one turn (maxOpsPerTurn)
  MaxSnippets,      \* DEFAULT_MAX_SNIPPETS
  MaxResearch,      \* maxWebResearchActions
  MaxReforms,       \* maxContextReforms
  MaxContextOnly,   \* maxContextOnlyTurns
  MaxGraces,        \* MAX_CORRECTION_GRACES
  MaxExternal       \* bound: changes made by the operator

ReadKind == {"read_file", "search_text", "list_dir"}
AskKind  == {"visual_review", "knowledge_lookup"}
EditKind == {"write_file", "edit_file"}
AllKinds == ReadKind \cup AskKind \cup EditKind
              \cup {"web_research", "run_cmd", "context_op", "snippet",
                    "refused", "truncated"}

ASSUME SessionAssumption ==
  /\ NoFile \notin Content /\ Torn \notin Content /\ NoFile # Torn
  /\ Workspace \notin Path
  /\ HasValidator \in BOOLEAN /\ NeedResearch \in BOOLEAN
  /\ Kinds \subseteq AllKinds
  /\ Interrupts \subseteq {"cancel", "deadline"}
  /\ {MaxTurns, MaxActions} \subseteq Nat \ {0}
  /\ {MaxOps, MaxSnippets, MaxResearch, MaxReforms, MaxContextOnly, MaxGraces,
      MaxExternal} \subseteq Nat

VARIABLES
  disk,        \* the workspace
  pc, turn,    \* where submitTask stands, and in which turn
  reply,       \* the model's turn: has it actions, is its context sufficient
  opsApplied,  \* context operations applied this turn
  supplied,    \* missing snippets resolved this turn
  executed,    \* executableActions
  touched,     \* mutationPathsThisTurn
  pending,     \* the action that waits for the operator
  finished, progress,        \* finish seen; _progressThisTurn
  idle, warned,              \* idleTurns, validationNoActionTurns
  contextOnly, reforms,      \* _contextOnlyTurns, _contextReforms
  graces, gracePending,      \* _usedCorrectionGraces, _correctionGracePending
  misses,                    \* _anchorFailures, _invalidContentAttempts
  signatures,                \* _actionSignatures
  nodes, nextId,             \* context nodes that show files, oldest first by id
  researched, researchCount, \* _webResearchCompleted, _webResearchCount
  wrote, lastValidation,     \* some edit has status written; _lastValidation
  stop,                      \* stopReason
  interrupt,                 \* none; the deadline has passed; cancel() was called
  externals,                 \* budget of the operator's changes
  (* observers, read by no action's guard *)
  dirty,       \* files changed by the session since the last validation
  stall,       \* turns with actions since the last that made progress
  untrue       \* kinds of untrue statements made to the model

loopVars == <<pc, turn, reply, opsApplied, supplied, executed, touched, pending,
              finished, progress>>
guardVars == <<idle, warned, contextOnly, reforms>>
graceVars == <<graces, gracePending, misses>>
memoryVars == <<signatures, nodes, nextId>>
researchVars == <<researched, researchCount>>
resultVars == <<wrote, lastValidation, stop>>
envVars == <<interrupt, externals>>
vars == <<disk, pc, turn, reply, opsApplied, supplied, executed, touched,
          pending, finished, progress, idle, warned, contextOnly, reforms,
          graces, gracePending, misses, signatures, nodes, nextId, researched,
          researchCount, wrote, lastValidation, stop, interrupt, externals,
          dirty, stall, untrue>>

FileState == Content \cup {NoFile, Torn}
Target    == Path \cup {Workspace}

(* How the guard can answer an approved edit. *)
EditStatus == {"written", "unchanged", "hash-mismatch", "rollback", "failed"}

(* What a node is labelled with: the action that made it, or how the guard *)
(* answered, and its subject.  A write retires only some of them.          *)
FileLabel == {"read_file", "requested", "operator-selected"} \cup EditStatus
Replaceable == {"read_file", "requested", "operator-selected", "written", "unchanged"}
Label == (FileLabel \X Path) \cup ({"search_text", "list_dir"} \X {Workspace})

View(target, files) == IF target = Workspace THEN files ELSE files[target]

Text == FileState \cup [Path -> FileState]

(* Why a node may show what is no longer so. *)
Reason == {"write", "operator", "command", "mismatch", "failure", "revived"}

Node == [id : Nat, label : Label, text : Text, live : BOOLEAN,
         expanded : BOOLEAN, taint : SUBSET Reason]

Signature == (ReadKind \X Target) \cup (AskKind \X {Workspace})
               \cup ({"web_research"} \X Query) \cup (EditKind \X Path \X Content)

NoReply == [acts |-> FALSE, sufficient |-> TRUE]

NoAction == [kind |-> "none"]
Awaiting == {NoAction, [kind |-> "run_cmd"]}
              \cup [kind : EditKind, path : Path, after : Content,
                    expected : FileState]

Grace == {<<"truncated">>} \cup ({"anchor", "split"} \X Path)

StopReason == {"none", "completed", "cancelled", "session-timeout",
               "model-failed", "no-actions", "no-progress", "max-turns", "threw"}

-----------------------------------------------------------------------------
(* The context nodes that show files. *)

Remembered(ns, label, text) ==
  ns \cup {[id |-> nextId, label |-> label, text |-> text, live |-> TRUE,
            expanded |-> FALSE, taint |-> {}]}

(* Nodes about a file in paths (a search is about every file). *)
Tainted(ns, paths, reason) ==
  {IF n.label[2] \in paths \cup {Workspace}
     THEN [n EXCEPT !.taint = @ \cup {reason}] ELSE n : n \in ns}

(* Only the read of the file itself is retired. *)
RetiredReadOnly(ns, p) ==
  {IF n.label = <<"read_file", p>> THEN [n EXCEPT !.live = FALSE] ELSE n : n \in ns}

(* _retireSupersededFileContext: drop what showed the file before. *)
Retired(ns, p) ==
  {IF n.label \in Replaceable \X {p} THEN [n EXCEPT !.live = FALSE] ELSE n : n \in ns}

(* _liveEvidenceNode: the first that carries the label. *)
Gathered(label) ==
  {n \in nodes : /\ n.label = label /\ n.live
                 /\ \A m \in nodes : m.label = label /\ m.live => n.id <= m.id}

-----------------------------------------------------------------------------
(* Shared pieces of the steps. *)

Stop(reason) == pc' = "stopped" /\ stop' = reason /\ UNCHANGED turn

(* The turn is repeated, not counted. *)
SameTurn == pc' = "turn" /\ UNCHANGED <<stop, turn>>

(* One turn too many. *)
TurnOverCap ==
  \/ turn <= MaxTurns /\ pc' = "turn" /\ turn' = turn + 1 /\ UNCHANGED stop
  \/ turn > MaxTurns /\ Stop("max-turns")

NextTurn ==
  \/ turn < MaxTurns /\ pc' = "turn" /\ turn' = turn + 1 /\ UNCHANGED stop
  \/ turn = MaxTurns /\ Stop("max-turns")

(* As many graces as there are instructions. *)
GrantUncapped(key) ==
  IF key \notin graces
    THEN graces' = graces \cup {key} /\ gracePending' = TRUE
    ELSE UNCHANGED <<graces, gracePending>>

(* _grantCorrectionGrace: one turn per distinct instruction, capped. *)
Grant(key) ==
  IF key \notin graces /\ Cardinality(graces) < MaxGraces
    THEN graces' = graces \cup {key} /\ gracePending' = TRUE
    ELSE UNCHANGED <<graces, gracePending>>

Init ==
  /\ disk \in [Path -> Content \cup {NoFile}]
  /\ pc = "seed" /\ turn = 0
  /\ reply = NoReply
  /\ opsApplied = 0 /\ supplied = 0 /\ executed = 0 /\ touched = {} /\ pending = NoAction
  /\ finished = FALSE /\ progress = FALSE
  /\ idle = 0 /\ warned = 0 /\ contextOnly = 0 /\ reforms = 0
  /\ graces = {} /\ gracePending = FALSE /\ misses = {}
  /\ signatures = {} /\ nodes = {} /\ nextId = 1
  /\ researched = FALSE /\ researchCount = 0
  /\ wrote = FALSE /\ lastValidation = "none" /\ stop = "none"
  /\ interrupt = "none" /\ externals = 0
  /\ dirty = FALSE /\ stall = 0 /\ untrue = {}

-----------------------------------------------------------------------------
(* Before the first turn. *)

(* _seedPinnedFiles: the operator's files, as they are now. *)
SeedPinned(p) ==
  /\ pc = "seed" /\ "snippet" \in Kinds
  /\ disk[p] # NoFile
  /\ ~\E n \in nodes : n.label = <<"operator-selected", p>>
  /\ nodes' = Remembered(nodes, <<"operator-selected", p>>, disk[p])
  /\ nextId' = nextId + 1
  /\ UNCHANGED <<disk, loopVars, guardVars, graceVars, signatures, researchVars,
                 resultVars, envVars, dirty, stall, untrue>>

(***************************************************************************)
(* _handleResearch.  Over budget is a policy answer and counts as          *)
(* progress, a repeated query is a duplicate and does not; a search that   *)
(* fails, or that nobody configured, spends the budget.                    *)
(***************************************************************************)
Research(q) ==
  \/ /\ researchCount >= MaxResearch
     /\ progress' = TRUE
     /\ UNCHANGED <<signatures, researchVars>>
  \/ /\ researchCount < MaxResearch
     /\ <<"web_research", q>> \in signatures
     /\ UNCHANGED <<progress, signatures, researchVars>>
  \/ /\ researchCount < MaxResearch
     /\ <<"web_research", q>> \notin signatures
     /\ signatures' = signatures \cup {<<"web_research", q>>}
     /\ researchCount' = researchCount + 1
     /\ \/ progress' = TRUE /\ researched' = TRUE
        \/ UNCHANGED <<progress, researched>>

SeedResearch(q) ==
  /\ pc = "seed" /\ "web_research" \in Kinds
  /\ researchCount < MaxResearch
  /\ Research(q)
  /\ UNCHANGED <<disk, pc, turn, reply, opsApplied, supplied, executed, touched,
                 pending, finished, guardVars, graceVars, nodes, nextId,
                 resultVars, envVars, dirty, stall, untrue>>

(* _validateCurrentWorkspace before the loop, when there is a validator. *)
StartLoop ==
  /\ pc = "seed"
  /\ pc' = "turn" /\ turn' = 1
  /\ lastValidation' \in IF HasValidator THEN {"valid", "invalid"} ELSE {"none"}
  /\ UNCHANGED <<disk, reply, opsApplied, supplied, executed, touched, pending,
                 finished, progress, guardVars, graceVars, memoryVars,
                 researchVars, wrote, stop, envVars, dirty, stall, untrue>>

-----------------------------------------------------------------------------
(* The top of a turn. *)

BeginTurn ==
  /\ pc = "turn"
  /\ \/ interrupt = "cancel" /\ Stop("cancelled")
     \/ interrupt = "deadline" /\ Stop("session-timeout")
     \/ interrupt = "none" /\ pc' = "model" /\ UNCHANGED <<stop, turn>>
  /\ UNCHANGED <<disk, reply, opsApplied, supplied, executed, touched, pending,
                 finished, progress, guardVars, graceVars, memoryVars,
                 researchVars, wrote, lastValidation, envVars, dirty, stall,
                 untrue>>

(***************************************************************************)
(* _getTurn with its retries, and _noteTruncatedTurn.  A request that      *)
(* fails twice, is out of time, or is answered twice with something that   *)
(* is no turn ends the session with a fallback turn.                       *)
(***************************************************************************)
GetTurn ==
  /\ pc = "model"
  /\ \/ Stop("model-failed") /\ UNCHANGED <<reply, opsApplied, supplied>>
     \/ /\ pc' = "ops"
        /\ reply' \in [acts : BOOLEAN, sufficient : BOOLEAN]
        /\ opsApplied' = 0 /\ supplied' = 0
        /\ UNCHANGED <<stop, turn>>
  /\ \/ "truncated" \in Kinds /\ Grant(<<"truncated">>)
     \/ UNCHANGED <<graces, gracePending>>
  /\ UNCHANGED <<disk, executed, touched, pending, finished, progress, guardVars,
                 misses, memoryVars, researchVars, wrote, lastValidation, envVars,
                 dirty, stall, untrue>>

(***************************************************************************)
(* The context operations that decide what the model is shown of a file.   *)
(* Both expand and collapse bring a dropped node back; an expanded one is  *)
(* expanded again at another offset.                                       *)
(***************************************************************************)
Revised(n, op) ==
  CASE op = "drop"     -> [n EXCEPT !.live = FALSE]
    [] op = "expand"   -> [n EXCEPT !.live = TRUE, !.expanded = TRUE,
                             !.taint = IF n.live THEN @ ELSE @ \cup {"revived"}]
    [] op = "collapse" -> [n EXCEPT !.live = TRUE, !.expanded = FALSE,
                             !.taint = IF n.live THEN @ ELSE @ \cup {"revived"}]

ContextOp(n, op) ==
  /\ pc = "ops" /\ "context_op" \in Kinds
  /\ opsApplied < MaxOps /\ supplied = 0
  /\ op = "drop" => n.live
  /\ opsApplied' = opsApplied + 1
  /\ nodes' = (nodes \ {n}) \cup {Revised(n, op)}
  /\ UNCHANGED <<disk, pc, turn, reply, supplied, executed, touched, pending,
                 finished, progress, guardVars, graceVars, signatures, nextId,
                 researchVars, resultVars, envVars, dirty, stall, untrue>>

(***************************************************************************)
(* resolveMissingSnippets, for a file that is there.  A file asked for     *)
(* twice is remembered twice.                                              *)
(***************************************************************************)
ResolveSnippet(p) ==
  /\ pc = "ops" /\ "snippet" \in Kinds
  /\ supplied < MaxSnippets
  /\ disk[p] # NoFile
  /\ supplied' = supplied + 1
  /\ nodes' = Remembered(nodes, <<"requested", p>>, disk[p])
  /\ nextId' = nextId + 1
  /\ UNCHANGED <<disk, pc, turn, reply, opsApplied, executed, touched, pending,
                 finished, progress, guardVars, graceVars, signatures, researchVars,
                 resultVars, envVars, dirty, stall, untrue>>

(* graph.reform: up to three nodes that match the gap are expanded. *)
Reform ==
  /\ reforms < MaxReforms
  /\ reforms' = reforms + 1
  /\ progress' = TRUE
  /\ \E matched \in SUBSET {n \in nodes : n.live /\ ~n.expanded} :
       /\ Cardinality(matched) <= 3
       /\ nodes' = (nodes \ matched) \cup {[n EXCEPT !.expanded = TRUE] : n \in matched}

(* A declared gap and no action: reform, and ask again. *)
ReformAndAskAgain ==
  /\ pc = "ops"
  /\ ~reply.acts /\ ~reply.sufficient
  /\ Reform
  /\ NextTurn
  /\ UNCHANGED <<disk, reply, opsApplied, supplied, executed, touched, pending,
                 finished, idle, warned, contextOnly, graceVars, signatures,
                 nextId, researchVars, wrote, lastValidation, envVars, dirty,
                 stall, untrue>>

StartActions ==
  /\ pc = "ops"
  /\ reply.acts \/ reply.sufficient \/ reforms = MaxReforms
  /\ pc' = "act"
  /\ executed' = 0 /\ touched' = {} /\ finished' = FALSE /\ progress' = FALSE
  /\ UNCHANGED <<disk, turn, reply, opsApplied, supplied, pending, guardVars,
                 graceVars, memoryVars, researchVars, resultVars, envVars, dirty,
                 stall, untrue>>

-----------------------------------------------------------------------------
(***************************************************************************)
(* The actions.  An action that is malformed, or a second mutation of a    *)
(* file written this turn, changes nothing and is no step.                 *)
(***************************************************************************)
Interrupted == interrupt # "none"

CanAct(kind) ==
  /\ pc = "act" /\ reply.acts
  /\ ~Interrupted
  /\ kind \in Kinds
  /\ executed < MaxActions

(* What every action leaves alone, and the count of it. *)
ActionFrame ==
  /\ executed' = executed + 1
  /\ UNCHANGED <<disk, turn, reply, opsApplied, supplied, touched, finished,
                 guardVars, wrote, lastValidation, envVars, dirty, stall>>

Mutating(kind) == kind \in EditKind \cup {"run_cmd"}

MustResearch(kind) == Mutating(kind) /\ NeedResearch /\ ~researched

(* An intentional policy gate, not an idle turn. *)
ResearchRequired(kind) ==
  /\ CanAct(kind) /\ MustResearch(kind)
  /\ ActionFrame
  /\ progress' = TRUE
  /\ UNCHANGED <<pc, stop, pending, graceVars, memoryVars, researchVars, untrue>>

(***************************************************************************)
(* _handleReadonly.  A repeated read whose text is still in the context is *)
(* answered from there: the node is expanded, which is progress if it was  *)
(* not expanded before.  Otherwise the file is read; a file that is not    *)
(* there fails, and its error is remembered under the same label.          *)
(***************************************************************************)
StaleAnswer(kind, n) ==
  IF kind = "read_file" /\ n.taint \cap {"command", "mismatch", "failure"} # {}
    THEN {"read"}
  ELSE IF kind = "search_text" /\ "write" \in n.taint THEN {"search"}
  ELSE {}

ReadOnly(kind, target) ==
  LET label == <<kind, target>>
      known == label \in signatures /\ Gathered(label) # {} IN
  /\ CanAct(kind) /\ label \in Label
  /\ ActionFrame
  /\ \/ /\ known
        /\ \E n \in Gathered(label) :
             /\ nodes' = (nodes \ {n}) \cup {[n EXCEPT !.expanded = TRUE]}
             /\ progress' = (progress \/ ~n.expanded)
             /\ untrue' = untrue \cup StaleAnswer(kind, n)
        /\ UNCHANGED <<signatures, nextId>>
     \/ /\ ~known
        /\ signatures' = signatures \cup {label}
        /\ nodes' = Remembered(nodes, label, View(target, disk))
        /\ nextId' = nextId + 1
        /\ progress' = (progress \/ View(target, disk) # NoFile)
        /\ UNCHANGED untrue
  /\ UNCHANGED <<pc, stop, pending, graceVars, researchVars>>

DoResearch(q) ==
  /\ CanAct("web_research")
  /\ ActionFrame
  /\ Research(q)
  /\ UNCHANGED <<pc, stop, pending, graceVars, nodes, nextId, untrue>>

(* _handleVisualReview and _handleKnowledgeLookup. *)
Consult(kind) ==
  /\ CanAct(kind)
  /\ ActionFrame
  /\ signatures' = signatures \cup {<<kind, Workspace>>}
  /\ \/ <<kind, Workspace>> \notin signatures /\ progress' = TRUE
     \/ UNCHANGED progress
  /\ UNCHANGED <<pc, stop, pending, graceVars, nodes, nextId, researchVars, untrue>>

(* _handleCommand, up to the operator's answer. *)
ProposeCommand ==
  /\ CanAct("run_cmd") /\ ~MustResearch("run_cmd")
  /\ ActionFrame
  /\ pending' = [kind |-> "run_cmd"]
  /\ pc' = "approve"
  /\ UNCHANGED <<stop, progress, graceVars, memoryVars, researchVars, untrue>>

-----------------------------------------------------------------------------
(* _handleMutation, up to the operator's answer. *)

CanEdit(kind, p) ==
  /\ kind \in EditKind
  /\ CanAct(kind) /\ p \notin touched
  /\ ~MustResearch(kind)

(* Reading the file failed with something else than "not there". *)
EditThrows(kind, p) ==
  /\ CanEdit(kind, p)
  /\ ActionFrame
  /\ Stop("threw")
  /\ UNCHANGED <<pending, progress, graceVars, memoryVars, researchVars, untrue>>

(***************************************************************************)
(* The proposal cannot be built: nothing to edit, an anchor that is absent *)
(* or ambiguous, content that does not parse.  The read of the file may be *)
(* repeated, and from the second miss on the model is told what to do      *)
(* instead, which may buy it a grace (for content, if it is long).         *)
(***************************************************************************)
EditRefused(kind, p, status) ==
  /\ CanEdit(kind, p) /\ "refused" \in Kinds
  /\ ActionFrame
  /\ signatures' = signatures \ {<<"read_file", p>>}
  /\ \/ /\ status = "missing-file"
        /\ kind = "edit_file" /\ disk[p] = NoFile
        /\ UNCHANGED graceVars
     \/ /\ status \in {"anchor", "split"}
        /\ status = "anchor" => kind = "edit_file"
        /\ kind = "edit_file" => disk[p] # NoFile
        /\ misses' = misses \cup {<<status, p>>}
        /\ \/ <<status, p>> \in misses /\ Grant(<<status, p>>)
           \/ /\ status = "anchor" => <<status, p>> \notin misses
              /\ UNCHANGED <<graces, gracePending>>
  /\ UNCHANGED <<pc, stop, pending, progress, nodes, nextId, researchVars, untrue>>

(***************************************************************************)
(* The same kind of edit to the same text was proposed before: the model   *)
(* is told that it is already applied, unless the last validation names    *)
(* the file.                                                               *)
(***************************************************************************)
EditDuplicate(kind, p, after) ==
  /\ CanEdit(kind, p)
  /\ kind = "edit_file" => disk[p] # NoFile
  /\ <<kind, p, after>> \in signatures
  /\ ActionFrame
  /\ \/ untrue' = untrue \cup IF disk[p] # after THEN {"applied"} ELSE {}
     \/ lastValidation = "invalid" /\ UNCHANGED untrue
  /\ UNCHANGED <<pc, stop, pending, progress, graceVars, memoryVars, researchVars>>

EditProposed(kind, p, after) ==
  /\ CanEdit(kind, p)
  /\ kind = "edit_file" => disk[p] # NoFile
  /\ <<kind, p, after>> \notin signatures
  /\ ActionFrame
  /\ signatures' = signatures \cup {<<kind, p, after>>}
  /\ pending' = [kind |-> kind, path |-> p, after |-> after, expected |-> disk[p]]
  /\ pc' = "approve"
  /\ UNCHANGED <<stop, progress, graceVars, nodes, nextId, researchVars, untrue>>

-----------------------------------------------------------------------------
(* The operator, or the policy that stands in, answers. *)

(* What every answer leaves alone. *)
AnswerFrame ==
  /\ pending' = NoAction
  /\ UNCHANGED <<turn, reply, opsApplied, supplied, executed, finished,
                 guardVars, graceVars, researchVars, lastValidation, envVars,
                 stall, untrue>>

(* Rejected, or a command nobody can run. *)
Reject ==
  /\ pc = "approve"
  /\ pc' = "act" /\ AnswerFrame
  /\ UNCHANGED <<disk, touched, progress, memoryVars, wrote, stop, dirty>>

(* A command may change a file, whether it then succeeds or fails. *)
RunCommand ==
  /\ pc = "approve" /\ pending.kind = "run_cmd"
  /\ pc' = "act" /\ AnswerFrame
  /\ progress' = TRUE \/ UNCHANGED progress
  /\ \/ UNCHANGED <<disk, nodes, dirty>>
     \/ \E p \in Path, text \in Content \cup {NoFile} :
          /\ text # disk[p]
          /\ disk' = [disk EXCEPT ![p] = text]
          /\ nodes' = Tainted(nodes, {p}, "command")
          /\ dirty' = TRUE
  /\ UNCHANGED <<touched, signatures, nextId, wrote, stop>>

(* appliedEdits grows: the page may be looked at again. *)
Reviewable(sigs) == sigs \ {<<"visual_review", Workspace>>}

(* Signatures a successful write of p makes obsolete. *)
Obsolete(p) == {<<"read_file", p>>, <<"search_text", Workspace>>}

(***************************************************************************)
(* The approved edit is written, or not, as FileOutcome has it.  Whatever  *)
(* the guard answers, a node says so and shows the new lines of the edit   *)
(* under "Applied diff"; only "written" retires what was shown before.     *)
(***************************************************************************)
Approved(status) ==
  /\ pc = "approve" /\ pending.kind \in EditKind
  /\ pc' = "act" /\ AnswerFrame
  /\ LET p == pending.path
         Noted(ns) == Remembered(ns, <<status, p>>, pending.after) IN
     /\ \E text \in {disk[p], pending.after, Torn} :
          /\ ComesTo(disk[p], pending.expected, pending.after, status, text)
          /\ disk' = [disk EXCEPT ![p] = text]
     /\ \/ /\ status = "written"
           /\ touched' = touched \cup {p}
           /\ progress' = TRUE /\ wrote' = TRUE /\ dirty' = TRUE
           /\ signatures' = Reviewable(signatures) \ Obsolete(p)
           /\ nodes' = Noted(Tainted(Retired(nodes, p), {p}, "write"))
        \/ /\ status \in {"unchanged", "rollback"}
           /\ signatures' = Reviewable(signatures)
           /\ nodes' = Noted(nodes)
           /\ UNCHANGED <<touched, progress, wrote, dirty>>
        \/ /\ status = "hash-mismatch"
           /\ signatures' = Reviewable(signatures)
           /\ nodes' = Noted(Tainted(nodes, {p}, "mismatch"))
           /\ UNCHANGED <<touched, progress, wrote, dirty>>
        \/ /\ status = "failed"
           /\ dirty' = TRUE
           /\ signatures' = Reviewable(signatures)
           /\ nodes' = Noted(Tainted(nodes, {p}, "failure"))
           /\ UNCHANGED <<touched, progress, wrote>>
  /\ nextId' = nextId + 1
  /\ UNCHANGED stop

(* The guard could not read the file. *)
CommitThrows ==
  /\ pc = "approve" /\ pending.kind \in EditKind
  /\ Stop("threw") /\ AnswerFrame
  /\ UNCHANGED <<disk, touched, progress, memoryVars, wrote, dirty>>

-----------------------------------------------------------------------------
(* The end of a turn. *)

(* A finish action ends the turn's actions, executed to the cap or not. *)
Finish ==
  /\ pc = "act" /\ reply.acts /\ ~Interrupted
  /\ pc' = "settle" /\ finished' = TRUE
  /\ UNCHANGED <<disk, turn, reply, opsApplied, supplied, executed, touched,
                 pending, progress, guardVars, graceVars, memoryVars,
                 researchVars, resultVars, envVars, dirty, stall, untrue>>

EndActions ==
  /\ pc = "act"
  /\ pc' = "settle"
  /\ UNCHANGED <<disk, turn, reply, opsApplied, supplied, executed, touched,
                 pending, finished, progress, guardVars, graceVars, memoryVars,
                 researchVars, resultVars, envVars, dirty, stall, untrue>>

(* Only an explicit finish is validated. *)
MustValidateOnFinish == HasValidator /\ finished /\ wrote

MustValidate == HasValidator /\ (finished \/ progress) /\ wrote

(* The validator has the last word on whether the turn finished. *)
Validate ==
  /\ pc = "settle" /\ MustValidate
  /\ pc' = "close"
  /\ \/ lastValidation' = "valid" /\ finished' = TRUE
     \/ lastValidation' = "invalid" /\ finished' = FALSE
  /\ dirty' = FALSE
  /\ UNCHANGED <<disk, turn, reply, opsApplied, supplied, executed, touched,
                 pending, progress, guardVars, graceVars, memoryVars,
                 researchVars, wrote, stop, envVars, stall, untrue>>

Closing == pc = "close" \/ (pc = "settle" /\ ~MustValidate)

Complete ==
  /\ Closing /\ finished
  /\ Stop("completed")
  /\ UNCHANGED <<disk, reply, opsApplied, supplied, executed, touched, pending,
                 finished, progress, guardVars, graceVars, memoryVars,
                 researchVars, wrote, lastValidation, envVars, dirty, stall,
                 untrue>>

(* The turn acted, and still reports an imprecise context. *)
Continue ==
  /\ Closing /\ ~finished
  /\ pc' = "guard"
  /\ \/ reply.acts /\ ~reply.sufficient /\ Reform
     \/ /\ ~reply.acts \/ reply.sufficient \/ reforms = MaxReforms
        /\ UNCHANGED <<reforms, progress, nodes>>
  /\ UNCHANGED <<disk, turn, reply, opsApplied, supplied, executed, touched,
                 pending, finished, idle, warned, contextOnly, graceVars,
                 signatures, nextId, researchVars, resultVars, envVars, dirty,
                 stall, untrue>>

(* The locals of the turn are gone. *)
EndLocals ==
  /\ reply' = NoReply /\ opsApplied' = 0 /\ supplied' = 0 /\ executed' = 0 /\ touched' = {}
  /\ finished' = FALSE /\ progress' = FALSE
  /\ UNCHANGED <<disk, pending, reforms, graces, misses, memoryVars, researchVars,
                 wrote, lastValidation, envVars, dirty, untrue>>

MayReshape == opsApplied > 0 /\ contextOnly < MaxContextOnly

MayWarn == HasValidator /\ lastValidation = "invalid" /\ warned < 1

(* No actions: context work, a warning, or the end. *)
NoActions ==
  /\ pc = "guard" /\ ~reply.acts
  /\ \/ MayReshape /\ contextOnly' = contextOnly + 1 /\ NextTurn /\ UNCHANGED warned
     \/ ~MayReshape /\ MayWarn /\ warned' = warned + 1 /\ NextTurn
          /\ UNCHANGED contextOnly
     \/ ~MayReshape /\ ~MayWarn /\ Stop("no-actions") /\ UNCHANGED <<warned, contextOnly>>
  /\ UNCHANGED <<idle, gracePending, stall>>
  /\ EndLocals

ProductiveTurn ==
  /\ pc = "guard" /\ reply.acts /\ progress
  /\ idle' = 0 /\ warned' = 0 /\ stall' = 0
  /\ NextTurn
  /\ UNCHANGED <<contextOnly, gracePending>>
  /\ EndLocals

(* The turn that delivered a new instruction is not counted. *)
ExcusedTurn ==
  /\ pc = "guard" /\ reply.acts /\ ~progress /\ gracePending
  /\ gracePending' = FALSE
  /\ warned' = 0 /\ stall' = stall + 1
  /\ NextTurn
  /\ UNCHANGED <<idle, contextOnly>>
  /\ EndLocals

(* The second turn that brings nothing ends the session. *)
IdleTurn ==
  /\ pc = "guard" /\ reply.acts /\ ~progress /\ ~gracePending
  /\ idle' = idle + 1 /\ warned' = 0 /\ stall' = stall + 1
  /\ \/ idle' < 2 /\ NextTurn
     \/ /\ idle' >= 2
        /\ Stop(IF wrote /\ (HasValidator => lastValidation = "valid")
                  THEN "completed" ELSE "no-progress")
  /\ UNCHANGED <<contextOnly, gracePending>>
  /\ EndLocals

-----------------------------------------------------------------------------
(* The world around the session. *)

(* The operator, or a watcher, changes a file. *)
ExternalChange(p, text) ==
  /\ pc # "stopped"
  /\ externals < MaxExternal
  /\ text # disk[p]
  /\ externals' = externals + 1
  /\ disk' = [disk EXCEPT ![p] = text]
  /\ nodes' = Tainted(nodes, {p}, "operator")
  /\ UNCHANGED <<loopVars, guardVars, graceVars, signatures, nextId,
                 researchVars, resultVars, interrupt, dirty, stall, untrue>>

(* The deadline passes, or cancel(), which is the reason given if both happen. *)
Interrupt ==
  /\ pc # "stopped"
  /\ \/ "cancel" \in Interrupts /\ interrupt # "cancel" /\ interrupt' = "cancel"
     \/ "deadline" \in Interrupts /\ interrupt = "none" /\ interrupt' = "deadline"
  /\ UNCHANGED <<disk, loopVars, guardVars, graceVars, memoryVars,
                 researchVars, resultVars, externals, dirty, stall, untrue>>

-----------------------------------------------------------------------------
Seed == StartLoop \/ (\E p \in Path : SeedPinned(p)) \/ (\E q \in Query : SeedResearch(q))

Ops == \/ \E n \in nodes, op \in {"drop", "expand", "collapse"} : ContextOp(n, op)
       \/ \E p \in Path : ResolveSnippet(p)
       \/ ReformAndAskAgain
       \/ StartActions

Edit == \E kind \in EditKind, p \in Path :
          \/ EditThrows(kind, p)
          \/ \E status \in {"missing-file", "anchor", "split"} : EditRefused(kind, p, status)
          \/ \E after \in Content : EditDuplicate(kind, p, after) \/ EditProposed(kind, p, after)

Gather == \/ \E kind \in ReadKind, target \in Target : ReadOnly(kind, target)
          \/ \E q \in Query : DoResearch(q)
          \/ \E kind \in AskKind : Consult(kind)

Gate == \E kind \in EditKind \cup {"run_cmd"} : ResearchRequired(kind)

Act == Gather \/ Gate \/ ProposeCommand \/ Edit \/ Finish \/ EndActions

Commit == \E status \in EditStatus : Approved(status)

Answer == Reject \/ RunCommand \/ CommitThrows \/ Commit

EndTurn == \/ Validate \/ Complete \/ Continue \/ NoActions
           \/ ProductiveTurn \/ ExcusedTurn \/ IdleTurn

SessionStep == Seed \/ BeginTurn \/ GetTurn \/ Ops \/ Act \/ Answer \/ EndTurn

World == \/ \E p \in Path, text \in Content \cup {NoFile} : ExternalChange(p, text)
         \/ Interrupt

Next == SessionStep \/ World

(***************************************************************************)
(* The session's own awaits settle: requests time out, and the operator or *)
(* a policy answers in the end.                                            *)
(***************************************************************************)
Spec == Init /\ [][Next]_vars /\ WF_vars(SessionStep)

-----------------------------------------------------------------------------
PlaceType ==
  /\ pc \in {"seed", "turn", "model", "ops", "act", "approve", "settle", "close",
             "guard", "stopped"}
  /\ stop \in StopReason

CountType ==
  /\ turn \in 0..MaxTurns
  /\ opsApplied \in 0..MaxOps /\ supplied \in 0..MaxSnippets
  /\ executed \in 0..MaxActions
  /\ idle \in 0..2 /\ warned \in 0..1
  /\ idle = 2 => pc = "stopped"
  /\ contextOnly \in 0..MaxContextOnly /\ reforms \in 0..MaxReforms

FlagType ==
  /\ reply \in [acts : BOOLEAN, sufficient : BOOLEAN]
  /\ touched \subseteq Path /\ finished \in BOOLEAN /\ progress \in BOOLEAN
  /\ interrupt \in {"none", "deadline", "cancel"}

GraceType ==
  /\ graces \subseteq Grace /\ gracePending \in BOOLEAN
  /\ misses \subseteq {"anchor", "split"} \X Path
  /\ stall \in Nat

FilesType ==
  /\ disk \in [Path -> FileState]
  /\ pending \in Awaiting
  /\ pc = "approve" => pending # NoAction
  /\ nodes \subseteq Node /\ nextId \in Nat
  /\ externals \in 0..MaxExternal

ResultType ==
  /\ signatures \subseteq Signature
  /\ researched \in BOOLEAN /\ researchCount \in 0..MaxResearch
  /\ wrote \in BOOLEAN /\ lastValidation \in {"none", "valid", "invalid"}
  /\ dirty \in BOOLEAN
  /\ untrue \subseteq {"read", "search", "applied"}

TypeOK ==
  PlaceType /\ CountType /\ FlagType /\ GraceType /\ FilesType /\ ResultType

(***************************************************************************)
(* "completed" can be believed: with a validator, a session that wrote a   *)
(* file completes only on a validation that passed, and nothing the        *)
(* session did to the workspace came after it, neither in the same turn    *)
(* nor by way of the idle guard.                                           *)
(***************************************************************************)
CompletedIsValidated ==
  stop = "completed" /\ HasValidator /\ wrote => lastValidation = "valid" /\ ~dirty

(***************************************************************************)
(* What the context shows of a file is the file: the session's own writes  *)
(* leave no older text of it in play, whichever read, snippet, pinned      *)
(* selection or successful edit brought it there.  Excused are changes by  *)
(* others, by commands and by writes that failed, nodes the model brought  *)
(* back, and the reports of edits that did not succeed, which nothing      *)
(* retires (SupersededIsRetired).                                          *)
(***************************************************************************)
EvidenceIsCurrent ==
  \A n \in nodes :
    n.live /\ n.label[1] \in Replaceable /\ n.taint \subseteq {"write"}
      => n.text = disk[n.label[2]]

(***************************************************************************)
(* agent-session.js:408: a successful write makes earlier reads and edit   *)
(* snapshots for that file stale, and both versions are not kept.  Nothing *)
(* that only the session's write made stale, the report of a refused edit  *)
(* included, still shows other text than the file's.                       *)
(***************************************************************************)
SupersededIsRetired ==
  \A n \in nodes :
    n.live /\ n.label[1] \in FileLabel /\ n.taint = {"write"}
      => n.text = disk[n.label[2]]

(***************************************************************************)
(* A model that ignores the advice still stops: corrections buy at most    *)
(* MaxGraces turns over the one idle turn that is always allowed, however  *)
(* truncations, missed anchors and oversized files alternate.  At most one *)
(* turn more, and it is the idle guard that has ended the session.         *)
(***************************************************************************)
StallsAreBounded == idle < 2 => stall <= 1 + MaxGraces

(***************************************************************************)
(* How far the session may still have to go: what is left of the turn (two *)
(* for each action, proposed and answered), and of the turns after it.     *)
(***************************************************************************)
TurnWork == MaxOps + MaxSnippets + 2 * MaxActions + 7

LeftOfTurn ==
  CASE pc = "turn"    -> TurnWork
    [] pc = "model"   -> TurnWork - 1
    [] pc = "ops"     -> (MaxOps - opsApplied) + (MaxSnippets - supplied)
                           + 2 * MaxActions + 5
    [] pc = "approve" -> 2 * (MaxActions - executed) + 5
    [] pc = "act"     -> 2 * (MaxActions - executed) + 4
    [] pc = "settle"  -> 3
    [] pc = "close"   -> 2
    [] pc = "guard"   -> 1

Remaining ==
  CASE pc = "stopped" -> 0
    [] pc = "seed"    -> MaxTurns * TurnWork + 1
    [] OTHER          -> (MaxTurns - turn) * TurnWork + LeftOfTurn

(* What is shown of which file: grows by a pinned file. *)
Shown == {label \in FileLabel \X Path : \E n \in nodes : n.label = label /\ n.live}

(* Before the first turn: one pinned file more, or one search. *)
Supplies ==
  /\ pc = "seed"
  /\ \/ Shown \subseteq Shown' /\ Shown # Shown'
     \/ researchCount' > researchCount

(***************************************************************************)
(* Nothing the model does is free: each step of the session takes it       *)
(* nearer to its end, except, before the first turn, a pinned file more or *)
(* a search more, and except what cancel, the deadline and the operator    *)
(* do.  Neither reforms, excused turns, context work, snippets nor turns   *)
(* whose proposals are all refused go round the loop uncounted.            *)
(***************************************************************************)
SessionShrinks ==
  [][/\ Remaining' \in Nat
     /\ \/ Remaining' < Remaining
        \/ UNCHANGED Remaining /\ (Supplies \/ envVars' # envVars)]_vars

(* Every session ends with a result. *)
SessionEnds == <>(pc = "stopped")

(***************************************************************************)
(* agent-session.js:1007: a repeated proposal is answered "already         *)
(* applied" if the file is already in exactly this state.                  *)
(***************************************************************************)
AppliedMeansApplied == "applied" \notin untrue

(***************************************************************************)
(* agent-session.js:433: once a file changes, a new read of that path and  *)
(* a new workspace search can return new evidence.  Taken for the changes  *)
(* the session knows of: it wrote the file, ran a command that changed it, *)
(* or its guard found it changed.                                          *)
(***************************************************************************)
EvidenceCanBeRenewed == untrue \cap {"read", "search"} = {}

=============================================================================
