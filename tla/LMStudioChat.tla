---------------------------- MODULE LMStudioChat ----------------------------
(***************************************************************************)
(* A handler of LM Studio and the prompts a caller sends it, one after     *)
(* another: chatStream with its retries, its two transports (the SDK's     *)
(* web socket and REST), and the chat history that every prompt is pushed  *)
(* to, sent with, and popped from when it fails.                           *)
(*                                                                         *)
(* A call stands at one of its awaits, or at the top of its loop:          *)
(*   idle        no call; the caller has the outcome of the last           *)
(*   loop        the top of the retry loop                                 *)
(*   truncating  counting tokens to fit the history (web socket only)      *)
(*   requesting  waiting for the answer                                    *)
(*   reloading   loading the model after a failed attempt                  *)
(*   mending     loading the model after a failed truncation               *)
(*   probing     collecting a snapshot for a protocol warning              *)
(*   recording   recording an answer, or a failure                         *)
(*                                                                         *)
(* The texts of prompts and answers are left out: an entry of the history  *)
(* says whose prompt it is or answers.  The system prompt is always first, *)
(* and left out.                                                           *)
(***************************************************************************)
EXTENDS Integers, Sequences

CONSTANTS
  HasRest,           \* restClient
  MaxSchemaRetries,  \* maxSchemaRetries (1 in the code)
  MaxHangRetries,    \* maxHangRetries (1 in the code)
  Schemas,           \* bound: the schemas a call may ask for
  MaxCalls           \* bound: calls ever made

MaxAttempts == 2 + MaxSchemaRetries + MaxHangRetries

Transport == {"ws", "rest"}
Schema    == {"none", "known", "missing"}

(* What the handler reads out of the message of an error; an answer that   *)
(* fails its schema, or is empty though it has one, is "invalid".          *)
Failure == {"unloaded", "hang", "protocol", "invalid", "other"}

Outcome == {"none", "answered", "failed", "protocol", "refused", "spent"}

ASSUME ChatAssumption ==
  /\ HasRest \in BOOLEAN
  /\ {MaxSchemaRetries, MaxHangRetries, MaxCalls} \subseteq Nat
  /\ Schemas \subseteq Schema

VARIABLES
  pc,
  history,     \* chatHistory
  call,        \* the locals of chatStream
  model,       \* is a model loaded
  wsDisabled,  \* protocolGate.wsDisabled
  preferRest,  \* preferRestTransport
  prior,       \* priorHistory, of a call in isolation
  outcome,     \* how the last call ended
  left         \* observer: calls refused before a request, or abandoned

handler == <<model, wsDisabled, preferRest>>
vars == <<pc, history, call, handler, prior, outcome, left>>

Entry == [role : {"user", "assistant"}, call : Nat]

Prompt(id) == [role |-> "user", call |-> id]
Answer(id) == [role |-> "assistant", call |-> id]

Call == [id : Nat, schema : Schema, isolated : BOOLEAN,
         attempt : 0..MaxAttempts, schemaRetries : 0..MaxSchemaRetries,
         hangRetries : 0..MaxHangRetries, fellBack : BOOLEAN,  \* restFallbackUsed
         override : {"none"} \cup Transport,                   \* transportOverride
         transport : Transport,  \* of the last attempt
         stalled : {"none"} \cup Transport]  \* observer: the hang being retried

NewCall(id, schema, isolated) ==
  [id |-> id, schema |-> schema, isolated |-> isolated, attempt |-> 0,
   schemaRetries |-> 0, hangRetries |-> 0, fellBack |-> FALSE, override |-> "none",
   transport |-> "ws", stalled |-> "none"]

(* pop; of an empty array it is nothing. *)
Popped(h) == IF h = <<>> THEN h ELSE SubSeq(h, 1, Len(h) - 1)

(* The format of the response decides before the override does. *)
UseRestByFormat ==
  /\ HasRest
  /\ \/ wsDisabled
     \/ call.schema = "known"
     \/ IF call.override # "none" THEN call.override = "rest" ELSE preferRest

(* The override decides before the gate does. *)
UseRestByOverride ==
  /\ HasRest
  /\ IF call.override # "none" THEN call.override = "rest"
                               ELSE wsDisabled \/ call.schema = "known" \/ preferRest

(* _shouldUseRest. *)
UseRest ==
  /\ HasRest
  /\ \/ wsDisabled
     \/ IF call.override # "none" THEN call.override = "rest"
                                  ELSE call.schema = "known" \/ preferRest

(* load: the model is loaded, or the host has no room for it, which leaves *)
(* REST, or the load fails, which changes nothing.                         *)
Load ==
  \/ model' = TRUE /\ UNCHANGED <<wsDisabled, preferRest>>
  \/ HasRest /\ model' = FALSE /\ wsDisabled' = TRUE /\ preferRest' = TRUE
  \/ UNCHANGED handler

-----------------------------------------------------------------------------
(* A handler is loaded, or not loaded since loading failed, or kept to     *)
(* REST, with a host that has no room or by the configuration.             *)
Started == {s \in [model : BOOLEAN, wsDisabled : BOOLEAN, preferRest : BOOLEAN] :
              s.wsDisabled => HasRest /\ ~s.model /\ s.preferRest}

Init ==
  /\ pc = "idle" /\ history = <<>> /\ prior = <<>>
  /\ call = NewCall(0, "none", FALSE)
  /\ \E s \in Started :
       model = s.model /\ wsDisabled = s.wsDisabled /\ preferRest = s.preferRest
  /\ outcome = "none" /\ left = {}

(* A call, perhaps in isolation: with a history of its own, until it ends. *)
ChatStream(schema, isolated) ==
  /\ pc = "idle" /\ call.id < MaxCalls
  /\ pc' = "loop"
  /\ call' = NewCall(call.id + 1, schema, isolated)
  /\ prior' = history
  /\ history' = IF isolated THEN <<>> ELSE history
  /\ outcome' = "none"
  /\ UNCHANGED <<handler, left>>

(* The history of an isolated call stays. *)
ReturnAsIs(h, result) == pc' = "idle" /\ outcome' = result /\ history' = h

(* The call ends, and isolation with it. *)
Return(h, result) ==
  /\ pc' = "idle" /\ outcome' = result
  /\ history' = IF call.isolated THEN prior ELSE h

(***************************************************************************)
(* The top of the loop: the prompt is pushed, the schema looked up, the    *)
(* transport chosen.  What is refused here is refused outside the try.     *)
(***************************************************************************)
Attempt ==
  /\ pc = "loop" /\ call.attempt < MaxAttempts
  /\ LET pushed  == Append(history, Prompt(call.id))
         refused == call.schema = "missing" \/ (~model /\ ~UseRest)
     IN \/ /\ refused
           /\ Return(pushed, "refused")
           /\ left' = left \cup {call.id}
           /\ UNCHANGED call
        \/ /\ ~refused
           /\ history' = pushed
           /\ pc' = IF UseRest THEN "requesting" ELSE "truncating"
           /\ call' = [call EXCEPT !.transport = IF UseRest THEN "rest" ELSE "ws"]
           /\ UNCHANGED <<outcome, left>>
  /\ UNCHANGED <<handler, prior>>

(* The budget is exceeded by one more, which no attempt gets to. *)
SpentPastBudget ==
  /\ pc = "loop" /\ call.attempt > MaxAttempts
  /\ Return(history, "spent")
  /\ UNCHANGED <<call, handler, prior, left>>

(* "exceeded retry budget". *)
Spent ==
  /\ pc = "loop" /\ call.attempt = MaxAttempts
  /\ Return(history, "spent")
  /\ UNCHANGED <<call, handler, prior, left>>

(* Any suffix. *)
SuffixesAnywhere(h) == {SubSeq(h, i, Len(h)) : i \in DOMAIN h}

(* What may be left of a history: it starts with a prompt. *)
Suffixes(h) == {SubSeq(h, i, Len(h)) : i \in {j \in DOMAIN h : h[j].role = "user"}}

(* _truncateHistory. *)
Truncate ==
  /\ pc = "truncating"
  /\ history' \in Suffixes(history)
  /\ pc' = "requesting"
  /\ UNCHANGED <<call, handler, prior, outcome, left>>

(* The attempt is not counted. *)
TruncateFailsUncounted ==
  /\ pc = "truncating"
  /\ pc' = "mending"
  /\ UNCHANGED <<call, history, handler, prior, outcome, left>>

(* The model is gone, which the handler finds while it counts tokens. *)
TruncateFails ==
  /\ pc = "truncating"
  /\ pc' = "mending"
  /\ call' = [call EXCEPT !.attempt = @ + 1, !.stalled = "none"]
  /\ UNCHANGED <<history, handler, prior, outcome, left>>

(* The prompt stays. *)
MendKeepsPrompt ==
  /\ pc = "mending"
  /\ Load
  /\ pc' = "loop"
  /\ UNCHANGED <<history, call, prior, outcome, left>>

(* It is loaded again; only then the prompt is popped. *)
Mend ==
  /\ pc = "mending"
  /\ Load
  /\ history' = Popped(history)
  /\ pc' = "loop"
  /\ UNCHANGED <<call, prior, outcome, left>>

Respond ==
  /\ pc = "requesting"
  /\ history' = Append(history, Answer(call.id))
  /\ pc' = "recording" /\ outcome' = "answered"
  /\ UNCHANGED <<call, handler, prior, left>>

-----------------------------------------------------------------------------
(* The catch of chatStream: the prompt is popped; then the first retry     *)
(* that applies.                                                           *)

Reload(failure) == call.attempt = 0 /\ failure = "unloaded"

FallBack == call.transport = "rest" /\ ~call.fellBack

(* However often it hung before. *)
RetryAnyHang(failure) == failure = "hang"

RetryHang(failure) == failure = "hang" /\ call.hangRetries < MaxHangRetries

RetrySchema(failure) == failure = "invalid" /\ call.schemaRetries < MaxSchemaRetries

(* The same attempt once more, as far as other retries are concerned. *)
Again == [call EXCEPT !.attempt = @ + 1, !.stalled = "none"]

(* A hang turns to the other transport, if there is one. *)
Turned ==
  IF call.transport = "rest"
    THEN [Again EXCEPT !.hangRetries = @ + 1, !.stalled = "rest", !.override = "ws"]
  ELSE IF HasRest
    THEN [Again EXCEPT !.hangRetries = @ + 1, !.stalled = "ws", !.override = "rest"]
  ELSE [Again EXCEPT !.hangRetries = @ + 1, !.stalled = "ws"]

Catch(failure) ==
  /\ pc \in {"truncating", "requesting"}
  /\ pc = "truncating" => failure \notin {"unloaded", "invalid"}
  /\ failure = "invalid" => call.schema = "known"
  /\ history' = Popped(history)
  /\ \/ /\ Reload(failure)
        /\ pc' = "reloading" /\ call' = Again
        /\ UNCHANGED <<preferRest, outcome>>
     \/ /\ ~Reload(failure) /\ FallBack
        /\ pc' = "loop"
        /\ call' = [Again EXCEPT !.fellBack = TRUE, !.override = "ws"]
        /\ preferRest' = FALSE
        /\ UNCHANGED outcome
     \/ /\ ~Reload(failure) /\ ~FallBack /\ RetryHang(failure)
        /\ pc' = "loop" /\ call' = Turned
        /\ preferRest' = IF call.transport = "rest" THEN FALSE ELSE HasRest \/ preferRest
        /\ UNCHANGED outcome
     \/ /\ ~FallBack /\ failure = "protocol"
        /\ pc' = "probing"
        /\ UNCHANGED <<call, preferRest, outcome>>
     \/ /\ ~FallBack /\ RetrySchema(failure)
        /\ pc' = "loop"
        /\ call' = [Again EXCEPT !.schemaRetries = @ + 1]
        /\ UNCHANGED <<preferRest, outcome>>
     \/ /\ ~Reload(failure) /\ ~FallBack /\ ~RetryHang(failure)
        /\ failure # "protocol" /\ ~RetrySchema(failure)
        /\ pc' = "recording" /\ outcome' = "failed"
        /\ UNCHANGED <<call, preferRest>>
  /\ UNCHANGED <<model, wsDisabled, prior, left>>

Reloaded ==
  /\ pc = "reloading"
  /\ Load
  /\ pc' = "loop"
  /\ UNCHANGED <<history, call, prior, outcome, left>>

(* A protocol warning turns the web socket off for good. *)
Probe ==
  /\ pc = "probing"
  /\ wsDisabled' = TRUE
  /\ \/ /\ call.transport = "ws" /\ HasRest
        /\ pc' = "loop" /\ preferRest' = TRUE
        /\ call' = [Again EXCEPT !.override = "rest"]
        /\ UNCHANGED <<history, outcome>>
     \/ /\ call.transport = "rest" \/ ~HasRest
        /\ Return(history, "protocol")
        /\ UNCHANGED <<call, preferRest>>
  /\ UNCHANGED <<model, prior, left>>

(* Errors of the recorders are swallowed. *)
Recorded ==
  /\ pc = "recording"
  /\ Return(history, outcome)
  /\ UNCHANGED <<call, handler, prior, left>>

-----------------------------------------------------------------------------
(* The adaptive handler loads before each call, whatever comes of it. *)
EnsureLoaded ==
  /\ pc = "idle"
  /\ Load
  /\ UNCHANGED <<pc, history, call, prior, outcome, left>>

(* The caller begins anew, on the same handler. *)
ClearHistory ==
  /\ pc = "idle"
  /\ history' = <<>>
  /\ UNCHANGED <<pc, call, handler, prior, outcome, left>>

(***************************************************************************)
(* The deadline of a session passes: the caller goes on without the call,  *)
(* saves the history as it is, and the process ends.  The next process     *)
(* resumes that history with a handler of its own.                         *)
(***************************************************************************)
Resume ==
  /\ pc \notin {"idle", "loop"} /\ ~call.isolated
  /\ pc' = "idle" /\ outcome' = "none"
  /\ left' = IF outcome = "answered" THEN left ELSE left \cup {call.id}
  /\ \E s \in Started :
       model' = s.model /\ wsDisabled' = s.wsDisabled /\ preferRest' = s.preferRest
  /\ UNCHANGED <<history, call, prior>>

Step ==
  \/ Attempt \/ Spent \/ Truncate \/ TruncateFails \/ Mend \/ Respond
  \/ \E failure \in Failure : Catch(failure)
  \/ Reloaded \/ Probe \/ Recorded

Next ==
  \/ Step
  \/ \E schema \in Schemas, isolated \in BOOLEAN : ChatStream(schema, isolated)
  \/ EnsureLoaded \/ ClearHistory \/ Resume

Spec == Init /\ [][Next]_vars

FairSpec == Spec /\ WF_vars(Step)

-----------------------------------------------------------------------------
Place == {"idle", "loop", "truncating", "requesting", "reloading", "mending",
          "probing", "recording"}

TypeOK ==
  /\ pc \in Place
  /\ history \in Seq(Entry) /\ prior \in Seq(Entry)
  /\ call \in Call
  /\ model \in BOOLEAN /\ wsDisabled \in BOOLEAN /\ preferRest \in BOOLEAN
  /\ outcome \in Outcome
  /\ left \subseteq Nat

(***************************************************************************)
(* The history is a conversation: each answer follows its own prompt, and  *)
(* each prompt has its answer, but for the one that is being asked and for *)
(* calls that were refused before their request, or abandoned.  Through    *)
(* every order of retries, truncations and reloads no failed attempt       *)
(* leaves its prompt behind or takes another entry with it.                *)
(***************************************************************************)
HistoryIsConversation ==
  \A i \in DOMAIN history :
    LET id == history[i].call
    IN IF history[i].role = "assistant"
         THEN i > 1 /\ history[i - 1] = Prompt(id)
         ELSE \/ i < Len(history) /\ history[i + 1] = Answer(id)
              \/ id \in left
              \/ i = Len(history) /\ id = call.id
                 /\ pc \in {"truncating", "requesting", "mending"}

(***************************************************************************)
(* A retry after a hang goes over the other transport, whatever was        *)
(* preferred, overridden or fallen back from before, unless there is only  *)
(* the one.                                                                *)
(***************************************************************************)
HangTurns ==
  pc = "requesting" /\ call.stalled # "none"
    => call.transport # call.stalled \/ wsDisabled \/ ~HasRest

(***************************************************************************)
(* Once a protocol warning has turned the web socket off, no later call,   *)
(* fallback or retry uses it, if there is REST.                            *)
(***************************************************************************)
DisabledStaysOff ==
  wsDisabled /\ HasRest /\ pc \in {"truncating", "requesting"} => call.transport = "rest"

(* The history that stays: that of an isolated call does not. *)
Kept == IF pc # "idle" /\ call.isolated THEN prior ELSE history

Exchanged == {Kept[i].call : i \in {j \in DOMAIN Kept : Kept[j].role = "assistant"}}

(***************************************************************************)
(* The handler implements a conversation: a call adds its own exchange at  *)
(* the end, once, when it is answered, or none, and exchanges are          *)
(* forgotten from the oldest on.  No failure, retry, isolated call or      *)
(* resumed session takes an exchange out of the middle, puts in one that   *)
(* was not had, or brings back what was forgotten.                         *)
(***************************************************************************)
C == INSTANCE Conversation WITH
  remembered <- Exchanged,
  asked      <- call.id,
  open       <- pc \notin {"idle", "recording"}

ImplementsConversation == C!Spec

(***************************************************************************)
(* How far a call may still have to go: what is left of its attempt, and   *)
(* six for each attempt left.                                              *)
(***************************************************************************)
Stage == CASE pc \in {"probing", "recording"} -> 1
           [] pc = "requesting" -> 2
           [] pc = "truncating" -> 3
           [] pc = "loop" -> 4
           [] pc \in {"mending", "reloading"} -> 5

Remaining == IF pc = "idle" THEN 0 ELSE 6 * (MaxAttempts - call.attempt) + Stage

(***************************************************************************)
(* No way round the retry loop is free: each step of a call, whichever of  *)
(* reload, mend, fallback, turn, schema retry or probe it belongs to,      *)
(* brings it nearer to its end, so that none has more than                 *)
(* 6 * MaxAttempts + 4 of them.                                            *)
(***************************************************************************)
CallShrinks == [][pc # "idle" => Remaining' \in Nat /\ Remaining' < Remaining]_vars

(* Every call ends, however reloads, fallbacks and retries combine. *)
CallEnds == pc # "idle" ~> pc = "idle"

=============================================================================
