-------------------------- MODULE AgentSessionProofs --------------------------
(***************************************************************************)
(* What holds of AgentSession for every workspace, every cap and every     *)
(* model: its types, and the three safety invariants its runs check.       *)
(*                                                                         *)
(* Type correctness is proved one group of variables at a time; each of    *)
(* the safety invariants then rests on it and on an invariant of its own.  *)
(***************************************************************************)
EXTENDS AgentSession, FiniteSetTheorems, TLAPS

(* The bounds are numbers, as SessionAssumption says. *)
LEMMA Bounds ==
  /\ MaxTurns \in Nat /\ MaxTurns > 0 /\ MaxActions \in Nat
  /\ MaxOps \in Nat /\ MaxSnippets \in Nat
  /\ MaxResearch \in Nat /\ MaxReforms \in Nat /\ MaxContextOnly \in Nat
  /\ MaxGraces \in Nat /\ MaxExternal \in Nat
  BY SessionAssumption

(* A new node is a node. *)
LEMMA RememberedType ==
  ASSUME NEW ns \in SUBSET Node, nextId \in Nat, NEW label \in Label, NEW text \in Text
  PROVE  Remembered(ns, label, text) \in SUBSET Node
<1> DEFINE new == [id |-> nextId, label |-> label, text |-> text, live |-> TRUE,
                   expanded |-> FALSE, taint |-> {}]
<1>1. new \in Node
  BY DEF Node
<1> QED
  BY <1>1 DEF Remembered

(* Tainting nodes leaves nodes. *)
LEMMA TaintedType ==
  ASSUME NEW ns \in SUBSET Node, NEW paths, NEW reason \in Reason
  PROVE  Tainted(ns, paths, reason) \in SUBSET Node
  BY DEF Tainted, Node

(* _retireSupersededFileContext leaves nodes. *)
LEMMA RetiredType ==
  ASSUME NEW ns \in SUBSET Node, NEW p
  PROVE  Retired(ns, p) \in SUBSET Node
  BY DEF Retired, Node

(* A reform of the context leaves nodes. *)
LEMMA ReformType ==
  ASSUME nodes \in SUBSET Node, Reform
  PROVE  nodes' \in SUBSET Node
<1>1. \A n \in Node : [n EXCEPT !.expanded = TRUE] \in Node
  BY DEF Node
<1> QED
  BY <1>1 DEF Reform

(* What a read, a search or a listing shows is a text. *)
LEMMA ViewType ==
  ASSUME disk \in [Path -> FileState], NEW target \in Target
  PROVE  View(target, disk) \in Text
  BY DEF View, Text, Target

(* _handleResearch never spends more than the research budget. *)
LEMMA ResearchType ==
  ASSUME ResultType, NEW q \in Query, Research(q)
  PROVE  /\ signatures' \subseteq Signature /\ researchCount' \in 0..MaxResearch
         /\ researched' \in BOOLEAN
<1>1. <<"web_research", q>> \in Signature
  BY DEF Signature
<1>2. signatures' \subseteq Signature
  BY <1>1 DEF ResultType, Research
<1>3. \/ UNCHANGED researchCount
      \/ researchCount < MaxResearch /\ researchCount' = researchCount + 1
  BY DEF Research, researchVars
<1>4. researchCount' \in 0..MaxResearch
  BY <1>3, Bounds DEF ResultType
<1>5. UNCHANGED researched \/ researched' = TRUE
  BY DEF Research, researchVars
<1>6. researched' \in BOOLEAN
  BY <1>5 DEF ResultType
<1> QED
  BY <1>2, <1>4, <1>6

(***************************************************************************)
(* _grantCorrectionGrace keeps the set of graces one of known              *)
(* instructions.                                                           *)
(***************************************************************************)
LEMMA GrantType ==
  ASSUME GraceType, NEW key \in Grace, Grant(key)
  PROVE  graces' \subseteq Grace /\ gracePending' \in BOOLEAN
<1>1. \/ graces' = graces \cup {key} /\ gracePending' = TRUE
      \/ graces' = graces /\ gracePending' = gracePending
  BY DEF Grant
<1> QED
  BY <1>1 DEF GraceType

-----------------------------------------------------------------------------
(* Every step of submitTask leads to a known place and stop reason. *)
LEMMA PlaceTypeNext == TypeOK /\ [Next]_vars => PlaceType'
<1> SUFFICES ASSUME PlaceType, [Next]_vars PROVE PlaceType'
  BY DEF TypeOK
<1> USE Bounds DEF PlaceType, StopReason,
        loopVars, guardVars, graceVars, memoryVars, researchVars, resultVars, envVars
<1>1. CASE Seed
  BY <1>1 DEF Seed, SeedPinned, StartLoop, SeedResearch, Research
<1>2. CASE BeginTurn \/ GetTurn
  BY <1>2 DEF BeginTurn, GetTurn, Stop
<1>3. CASE Ops
  BY <1>3 DEF Ops, ContextOp, ResolveSnippet, ReformAndAskAgain, StartActions, Reform,
              NextTurn, Stop
<1>4. CASE Gather
  BY <1>4 DEF Gather, ReadOnly, DoResearch, Research, Consult, CanAct, ActionFrame
<1>5. CASE Gate \/ ProposeCommand
  BY <1>5 DEF Gate, ResearchRequired, ProposeCommand, CanAct, ActionFrame
<1>6. CASE Edit
  <2>1. ASSUME NEW kind \in EditKind, NEW p \in Path, EditThrows(kind, p)
        PROVE  PlaceType'
    BY <2>1 DEF EditThrows, Stop, CanEdit, CanAct, ActionFrame
  <2>2. ASSUME NEW kind \in EditKind, NEW p \in Path, NEW status, EditRefused(kind, p, status)
        PROVE  PlaceType'
    BY <2>2 DEF EditRefused, CanEdit, CanAct, ActionFrame
  <2>3. ASSUME NEW kind \in EditKind, NEW p \in Path, NEW after \in Content,
               EditDuplicate(kind, p, after)
        PROVE  PlaceType'
    BY <2>3 DEF EditDuplicate, CanEdit, CanAct, ActionFrame
  <2>4. ASSUME NEW kind \in EditKind, NEW p \in Path, NEW after \in Content,
               EditProposed(kind, p, after)
        PROVE  PlaceType'
    BY <2>4 DEF EditProposed, CanEdit, CanAct, ActionFrame
  <2> QED
    BY <1>6, <2>1, <2>2, <2>3, <2>4 DEF Edit
<1>7. CASE Finish \/ EndActions \/ Validate
  BY <1>7 DEF Finish, EndActions, Validate
<1>8. CASE Reject \/ RunCommand \/ CommitThrows
  BY <1>8 DEF Reject, RunCommand, CommitThrows, AnswerFrame, Stop
<1>9. CASE Commit
  BY <1>9 DEF Commit, Approved, AnswerFrame
<1>10. CASE Complete \/ Continue
  BY <1>10 DEF Complete, Continue, Reform, Closing, Stop
<1>11. CASE NoActions
  BY <1>11 DEF NoActions, EndLocals, NoReply, NextTurn, Stop, MayReshape, MayWarn
<1>12. CASE ProductiveTurn
  BY <1>12 DEF ProductiveTurn, EndLocals, NoReply, NextTurn, Stop
<1>13. CASE ExcusedTurn
  BY <1>13 DEF ExcusedTurn, EndLocals, NoReply, NextTurn, Stop
<1>14. CASE IdleTurn
  BY <1>14 DEF IdleTurn, EndLocals, NoReply, NextTurn, Stop
<1>15. CASE World
  BY <1>15 DEF World, ExternalChange, Interrupt
<1>16. CASE UNCHANGED vars
  BY <1>16 DEF vars
<1> QED
  BY <1>1, <1>2, <1>3, <1>4, <1>5, <1>6, <1>7, <1>8, <1>9,
     <1>10, <1>11, <1>12, <1>13, <1>14, <1>15, <1>16
     DEF Next, SessionStep, Act, Answer, EndTurn

(***************************************************************************)
(* Every step keeps the turn counters of submitTask within their caps; the *)
(* second idle turn stops the session.                                     *)
(***************************************************************************)
LEMMA CountTypeNext == TypeOK /\ [Next]_vars => CountType'
<1> SUFFICES ASSUME CountType, [Next]_vars PROVE CountType'
  BY DEF TypeOK
<1> USE Bounds DEF CountType,
        loopVars, guardVars, graceVars, memoryVars, researchVars, resultVars, envVars
<1>1. CASE Seed
  <2>1. CASE StartLoop
    BY <2>1 DEF StartLoop
  <2>2. ASSUME NEW p \in Path, SeedPinned(p) PROVE CountType'
    BY <2>2 DEF SeedPinned
  <2>3. ASSUME NEW q \in Query, SeedResearch(q) PROVE CountType'
    BY <2>3 DEF SeedResearch, Research
  <2> QED
    BY <1>1, <2>1, <2>2, <2>3 DEF Seed
<1>2. CASE BeginTurn \/ GetTurn
  BY <1>2 DEF BeginTurn, GetTurn, Stop
<1>3. CASE Ops
  <2>1. ASSUME NEW n \in nodes, NEW o, ContextOp(n, o) PROVE CountType'
    BY <2>1 DEF ContextOp
  <2>2. ASSUME NEW p \in Path, ResolveSnippet(p) PROVE CountType'
    BY <2>2 DEF ResolveSnippet
  <2>3. CASE ReformAndAskAgain
    BY <2>3 DEF ReformAndAskAgain, Reform, NextTurn, Stop
  <2>4. CASE StartActions
    BY <2>4 DEF StartActions
  <2> QED
    BY <1>3, <2>1, <2>2, <2>3, <2>4 DEF Ops
<1>4. CASE Gather
  <2>1. ASSUME NEW kind \in ReadKind, NEW target \in Target, ReadOnly(kind, target)
        PROVE  CountType'
    BY <2>1 DEF ReadOnly, CanAct, ActionFrame
  <2>2. ASSUME NEW q \in Query, DoResearch(q) PROVE CountType'
    BY <2>2 DEF DoResearch, Research, CanAct, ActionFrame
  <2>3. ASSUME NEW kind \in AskKind, Consult(kind) PROVE CountType'
    BY <2>3 DEF Consult, CanAct, ActionFrame
  <2> QED
    BY <1>4, <2>1, <2>2, <2>3 DEF Gather
<1>5. CASE Gate \/ ProposeCommand
  BY <1>5 DEF Gate, ResearchRequired, ProposeCommand, CanAct, ActionFrame
<1>6. CASE Edit
  <2>1. ASSUME NEW kind \in EditKind, NEW p \in Path, EditThrows(kind, p)
        PROVE  CountType'
    BY <2>1 DEF EditThrows, Stop, CanEdit, CanAct, ActionFrame
  <2>2. ASSUME NEW kind \in EditKind, NEW p \in Path, NEW status, EditRefused(kind, p, status)
        PROVE  CountType'
    BY <2>2 DEF EditRefused, CanEdit, CanAct, ActionFrame
  <2>3. ASSUME NEW kind \in EditKind, NEW p \in Path, NEW after \in Content,
               EditDuplicate(kind, p, after)
        PROVE  CountType'
    BY <2>3 DEF EditDuplicate, CanEdit, CanAct, ActionFrame
  <2>4. ASSUME NEW kind \in EditKind, NEW p \in Path, NEW after \in Content,
               EditProposed(kind, p, after)
        PROVE  CountType'
    BY <2>4 DEF EditProposed, CanEdit, CanAct, ActionFrame
  <2> QED
    BY <1>6, <2>1, <2>2, <2>3, <2>4 DEF Edit
<1>7. CASE Finish \/ EndActions \/ Validate
  BY <1>7 DEF Finish, EndActions, Validate
<1>8. CASE Reject \/ RunCommand \/ CommitThrows
  BY <1>8 DEF Reject, RunCommand, CommitThrows, AnswerFrame, Stop
<1>9. CASE Commit
  BY <1>9 DEF Commit, Approved, AnswerFrame
<1>10. CASE Complete \/ Continue
  BY <1>10 DEF Complete, Continue, Reform, Closing, Stop
<1>11. CASE NoActions
  BY <1>11 DEF NoActions, EndLocals, NoReply, NextTurn, Stop, MayReshape, MayWarn
<1>12. CASE ProductiveTurn
  BY <1>12 DEF ProductiveTurn, EndLocals, NoReply, NextTurn, Stop
<1>13. CASE ExcusedTurn
  BY <1>13 DEF ExcusedTurn, EndLocals, NoReply, NextTurn, Stop
<1>14. CASE IdleTurn
  BY <1>14 DEF IdleTurn, EndLocals, NoReply, NextTurn, Stop
<1>15. CASE World
  BY <1>15 DEF World, ExternalChange, Interrupt
<1>16. CASE UNCHANGED vars
  BY <1>16 DEF vars
<1> QED
  BY <1>1, <1>2, <1>3, <1>4, <1>5, <1>6, <1>7, <1>8, <1>9,
     <1>10, <1>11, <1>12, <1>13, <1>14, <1>15, <1>16
     DEF Next, SessionStep, Act, Answer, EndTurn

(* Every step keeps the flags and the locals of the turn what they are. *)
LEMMA FlagTypeNext == TypeOK /\ [Next]_vars => FlagType'
<1> SUFFICES ASSUME FlagType, FilesType, [Next]_vars PROVE FlagType'
  BY DEF TypeOK
<1> USE Bounds DEF FlagType,
        loopVars, guardVars, graceVars, memoryVars, researchVars, resultVars, envVars
<1>1. CASE Seed
  BY <1>1 DEF Seed, SeedPinned, StartLoop, SeedResearch, Research
<1>2. CASE BeginTurn \/ GetTurn
  BY <1>2 DEF BeginTurn, GetTurn, Stop
<1>3. CASE Ops
  BY <1>3 DEF Ops, ContextOp, ResolveSnippet, ReformAndAskAgain, StartActions, Reform,
              NextTurn, Stop
<1>4. CASE Gather
  <2>1. ASSUME NEW kind \in ReadKind, NEW target \in Target, ReadOnly(kind, target)
        PROVE  FlagType'
    BY <2>1 DEF ReadOnly, ActionFrame
  <2>2. ASSUME NEW q \in Query, DoResearch(q) PROVE FlagType'
    BY <2>2 DEF DoResearch, Research, ActionFrame
  <2>3. ASSUME NEW kind \in AskKind, Consult(kind) PROVE FlagType'
    BY <2>3 DEF Consult, ActionFrame
  <2> QED
    BY <1>4, <2>1, <2>2, <2>3 DEF Gather
<1>5. CASE Gate \/ ProposeCommand
  BY <1>5 DEF Gate, ResearchRequired, ProposeCommand, CanAct, ActionFrame
<1>6. CASE Edit
  <2>1. ASSUME NEW kind \in EditKind, NEW p \in Path, EditThrows(kind, p)
        PROVE  FlagType'
    BY <2>1 DEF EditThrows, Stop, CanEdit, CanAct, ActionFrame
  <2>2. ASSUME NEW kind \in EditKind, NEW p \in Path, NEW status, EditRefused(kind, p, status)
        PROVE  FlagType'
    BY <2>2 DEF EditRefused, CanEdit, CanAct, ActionFrame
  <2>3. ASSUME NEW kind \in EditKind, NEW p \in Path, NEW after \in Content,
               EditDuplicate(kind, p, after)
        PROVE  FlagType'
    BY <2>3 DEF EditDuplicate, CanEdit, CanAct, ActionFrame
  <2>4. ASSUME NEW kind \in EditKind, NEW p \in Path, NEW after \in Content,
               EditProposed(kind, p, after)
        PROVE  FlagType'
    BY <2>4 DEF EditProposed, CanEdit, CanAct, ActionFrame
  <2> QED
    BY <1>6, <2>1, <2>2, <2>3, <2>4 DEF Edit
<1>7. CASE Finish \/ EndActions \/ Validate
  BY <1>7 DEF Finish, EndActions, Validate
<1>8. CASE Reject \/ RunCommand \/ CommitThrows
  BY <1>8 DEF Reject, RunCommand, CommitThrows, AnswerFrame, Stop
<1>9. CASE Commit
  <2>1. pending \in Awaiting
    BY DEF FilesType
  <2>2. touched' \subseteq Path
    BY <1>9, <2>1 DEF Commit, Approved, Awaiting, NoAction, EditKind, AnswerFrame
  <2> QED
    BY <1>9, <2>2 DEF Commit, Approved, AnswerFrame
<1>10. CASE Complete \/ Continue
  BY <1>10 DEF Complete, Continue, Reform, Closing, Stop
<1>11. CASE NoActions
  BY <1>11 DEF NoActions, EndLocals, NoReply, NextTurn, Stop, MayReshape, MayWarn
<1>12. CASE ProductiveTurn
  BY <1>12 DEF ProductiveTurn, EndLocals, NoReply, NextTurn, Stop
<1>13. CASE ExcusedTurn
  BY <1>13 DEF ExcusedTurn, EndLocals, NoReply, NextTurn, Stop
<1>14. CASE IdleTurn
  BY <1>14 DEF IdleTurn, EndLocals, NoReply, NextTurn, Stop
<1>15. CASE World
  BY <1>15 DEF World, ExternalChange, Interrupt
<1>16. CASE UNCHANGED vars
  BY <1>16 DEF vars
<1> QED
  BY <1>1, <1>2, <1>3, <1>4, <1>5, <1>6, <1>7, <1>8, <1>9,
     <1>10, <1>11, <1>12, <1>13, <1>14, <1>15, <1>16
     DEF Next, SessionStep, Act, Answer, EndTurn

(***************************************************************************)
(* Every step keeps signatures, research and validation results what they  *)
(* are.                                                                    *)
(***************************************************************************)
LEMMA ResultTypeNext == TypeOK /\ [Next]_vars => ResultType'
<1> SUFFICES ASSUME ResultType, FlagType, [Next]_vars PROVE ResultType'
  BY DEF TypeOK
<1> USE Bounds DEF ResultType, FlagType,
        loopVars, guardVars, graceVars, memoryVars, researchVars, resultVars, envVars
<1>1. CASE Seed
  <2>1. CASE StartLoop
    BY <2>1 DEF StartLoop
  <2>2. ASSUME NEW p \in Path, SeedPinned(p) PROVE ResultType'
    BY <2>2 DEF SeedPinned
  <2>3. ASSUME NEW q \in Query, SeedResearch(q) PROVE ResultType'
    <3>1. /\ signatures' \subseteq Signature /\ researchCount' \in 0..MaxResearch
          /\ researched' \in BOOLEAN
      BY <2>3, ResearchType DEF SeedResearch
    <3> QED
      BY <2>3, <3>1 DEF SeedResearch
  <2> QED
    BY <1>1, <2>1, <2>2, <2>3 DEF Seed
<1>2. CASE BeginTurn \/ GetTurn
  BY <1>2 DEF BeginTurn, GetTurn, Stop
<1>3. CASE Ops
  BY <1>3 DEF Ops, ContextOp, ResolveSnippet, ReformAndAskAgain, StartActions, Reform,
              NextTurn, Stop
<1>4. CASE Gather
  <2>1. ASSUME NEW kind \in ReadKind, NEW target \in Target, ReadOnly(kind, target)
        PROVE  ResultType'
    <3>1. <<kind, target>> \in Signature
      BY DEF Signature
    <3>2. signatures' \subseteq Signature
      BY <2>1, <3>1 DEF ReadOnly
    <3>3. untrue' \subseteq {"read", "search", "applied"}
      BY <2>1 DEF ReadOnly, StaleAnswer
    <3> QED
      BY <2>1, <3>2, <3>3 DEF ReadOnly, ActionFrame
  <2>2. ASSUME NEW q \in Query, DoResearch(q) PROVE ResultType'
    <3>1. /\ signatures' \subseteq Signature /\ researchCount' \in 0..MaxResearch
          /\ researched' \in BOOLEAN
      BY <2>2, ResearchType DEF DoResearch
    <3> QED
      BY <2>2, <3>1 DEF DoResearch, ActionFrame
  <2>3. ASSUME NEW kind \in AskKind, Consult(kind) PROVE ResultType'
    BY <2>3 DEF Consult, ActionFrame, Signature
  <2> QED
    BY <1>4, <2>1, <2>2, <2>3 DEF Gather
<1>5. CASE Gate \/ ProposeCommand
  BY <1>5 DEF Gate, ResearchRequired, ProposeCommand, CanAct, ActionFrame
<1>6. CASE Edit
  <2>1. ASSUME NEW kind \in EditKind, NEW p \in Path, EditThrows(kind, p)
        PROVE  ResultType'
    BY <2>1 DEF EditThrows, Stop, CanEdit, CanAct, ActionFrame, Signature
  <2>2. ASSUME NEW kind \in EditKind, NEW p \in Path, NEW status, EditRefused(kind, p, status)
        PROVE  ResultType'
    BY <2>2 DEF EditRefused, CanEdit, CanAct, ActionFrame, Signature
  <2>3. ASSUME NEW kind \in EditKind, NEW p \in Path, NEW after \in Content,
               EditDuplicate(kind, p, after)
        PROVE  ResultType'
    BY <2>3 DEF EditDuplicate, CanEdit, CanAct, ActionFrame, Signature
  <2>4. ASSUME NEW kind \in EditKind, NEW p \in Path, NEW after \in Content,
               EditProposed(kind, p, after)
        PROVE  ResultType'
    BY <2>4 DEF EditProposed, CanEdit, CanAct, ActionFrame, Signature
  <2> QED
    BY <1>6, <2>1, <2>2, <2>3, <2>4 DEF Edit
<1>7. CASE Finish \/ EndActions \/ Validate
  BY <1>7 DEF Finish, EndActions, Validate
<1>8. CASE Reject \/ RunCommand \/ CommitThrows
  BY <1>8 DEF Reject, RunCommand, CommitThrows, AnswerFrame, Stop
<1>9. CASE Commit
  <2>1. signatures' \subseteq signatures
    BY <1>9 DEF Commit, Approved, Reviewable, Obsolete
  <2> QED
    BY <1>9, <2>1 DEF Commit, Approved, AnswerFrame
<1>10. CASE Complete \/ Continue
  BY <1>10 DEF Complete, Continue, Reform, Closing, Stop
<1>11. CASE NoActions
  BY <1>11 DEF NoActions, EndLocals, NoReply, NextTurn, Stop, MayReshape, MayWarn
<1>12. CASE ProductiveTurn
  BY <1>12 DEF ProductiveTurn, EndLocals, NoReply, NextTurn, Stop
<1>13. CASE ExcusedTurn
  BY <1>13 DEF ExcusedTurn, EndLocals, NoReply, NextTurn, Stop
<1>14. CASE IdleTurn
  BY <1>14 DEF IdleTurn, EndLocals, NoReply, NextTurn, Stop
<1>15. CASE World
  BY <1>15 DEF World, ExternalChange, Interrupt
<1>16. CASE UNCHANGED vars
  BY <1>16 DEF vars
<1> QED
  BY <1>1, <1>2, <1>3, <1>4, <1>5, <1>6, <1>7, <1>8, <1>9,
     <1>10, <1>11, <1>12, <1>13, <1>14, <1>15, <1>16
     DEF Next, SessionStep, Act, Answer, EndTurn

(***************************************************************************)
(* Every step keeps the files, the proposal that waits for approval and    *)
(* the context nodes what they are.                                        *)
(***************************************************************************)
LEMMA FilesTypeNext == TypeOK /\ [Next]_vars => FilesType'
<1> SUFFICES ASSUME FilesType, [Next]_vars PROVE FilesType'
  BY DEF TypeOK
<1> USE Bounds DEF FilesType,
        loopVars, guardVars, graceVars, memoryVars, researchVars, resultVars, envVars
<1>1. CASE Seed
  <2>1. CASE StartLoop
    BY <2>1 DEF StartLoop
  <2>2. ASSUME NEW p \in Path, SeedPinned(p) PROVE FilesType'
    <3>1. <<"operator-selected", p>> \in Label /\ disk[p] \in Text
      BY DEF Label, FileLabel, Text
    <3> QED
      BY <2>2, <3>1, RememberedType DEF SeedPinned
  <2>3. ASSUME NEW q \in Query, SeedResearch(q) PROVE FilesType'
    BY <2>3 DEF SeedResearch
  <2> QED
    BY <1>1, <2>1, <2>2, <2>3 DEF Seed
<1>2. CASE BeginTurn \/ GetTurn
  BY <1>2 DEF BeginTurn, GetTurn, Stop
<1>3. CASE Ops
  <2>1. ASSUME NEW n \in nodes, NEW o \in {"drop", "expand", "collapse"}, ContextOp(n, o)
        PROVE  FilesType'
    <3>1. Revised(n, o) \in Node
      BY DEF Revised, Node, Reason
    <3> QED
      BY <2>1, <3>1 DEF ContextOp
  <2>2. ASSUME NEW p \in Path, ResolveSnippet(p) PROVE FilesType'
    <3>1. <<"requested", p>> \in Label /\ disk[p] \in Text
      BY DEF Label, FileLabel, Text
    <3> QED
      BY <2>2, <3>1, RememberedType DEF ResolveSnippet
  <2>3. CASE ReformAndAskAgain
    <3>1. nodes' \subseteq Node
      BY <2>3, ReformType DEF ReformAndAskAgain
    <3> QED
      BY <2>3, <3>1 DEF ReformAndAskAgain, NextTurn, Stop
  <2>4. CASE StartActions
    BY <2>4 DEF StartActions
  <2> QED
    BY <1>3, <2>1, <2>2, <2>3, <2>4 DEF Ops
<1>4. CASE Gather
  <2>1. ASSUME NEW kind \in ReadKind, NEW target \in Target, ReadOnly(kind, target)
        PROVE  FilesType'
    <3>1. View(target, disk) \in Text /\ <<kind, target>> \in Label
      BY <2>1, ViewType DEF ReadOnly
    <3>2. nodes' \subseteq Node
      <4>1. ASSUME NEW n \in nodes
            PROVE  (nodes \ {n}) \cup {[n EXCEPT !.expanded = TRUE]} \subseteq Node
        BY DEF Node
      <4> QED
        BY <2>1, <3>1, <4>1, RememberedType DEF ReadOnly, Gathered
    <3> QED
      BY <2>1, <3>2 DEF ReadOnly, ActionFrame, CanAct
  <2>2. ASSUME NEW q \in Query, DoResearch(q) PROVE FilesType'
    BY <2>2 DEF DoResearch, ActionFrame, CanAct
  <2>3. ASSUME NEW kind \in AskKind, Consult(kind) PROVE FilesType'
    BY <2>3 DEF Consult, ActionFrame, CanAct
  <2> QED
    BY <1>4, <2>1, <2>2, <2>3 DEF Gather
<1>5. CASE Gate \/ ProposeCommand
  BY <1>5 DEF Gate, ResearchRequired, ProposeCommand, CanAct, ActionFrame,
              Awaiting, NoAction
<1>6. CASE Edit
  <2>1. ASSUME NEW kind \in EditKind, NEW p \in Path, EditThrows(kind, p)
        PROVE  FilesType'
    BY <2>1 DEF EditThrows, ActionFrame, Stop
  <2>2. ASSUME NEW kind \in EditKind, NEW p \in Path, NEW status, EditRefused(kind, p, status)
        PROVE  FilesType'
    BY <2>2 DEF EditRefused, ActionFrame
  <2>3. ASSUME NEW kind \in EditKind, NEW p \in Path, NEW after \in Content,
               EditDuplicate(kind, p, after)
        PROVE  FilesType'
    BY <2>3 DEF EditDuplicate, ActionFrame
  <2>4. ASSUME NEW kind \in EditKind, NEW p \in Path, NEW after \in Content,
               EditProposed(kind, p, after)
        PROVE  FilesType'
    <3>1. pending' \in Awaiting /\ pending' # NoAction
      BY <2>4 DEF EditProposed, Awaiting, NoAction, EditKind
    <3> QED
      BY <2>4, <3>1 DEF EditProposed, ActionFrame
  <2> QED
    BY <1>6, <2>1, <2>2, <2>3, <2>4 DEF Edit
<1>7. CASE Finish \/ EndActions \/ Validate
  BY <1>7 DEF Finish, EndActions, Validate
<1>8. CASE Reject \/ RunCommand \/ CommitThrows
  <2>1. CASE Reject \/ CommitThrows
    BY <2>1 DEF Reject, CommitThrows, AnswerFrame, Awaiting, Stop
  <2>2. CASE RunCommand
    <3>1. nodes' \subseteq Node
      <4>1. \A ps : Tainted(nodes, ps, "command") \in SUBSET Node
        BY TaintedType DEF Reason
      <4> QED
        BY <2>2, <4>1 DEF RunCommand
    <3>2. disk' \in [Path -> FileState]
      BY <2>2 DEF RunCommand, FileState
    <3> QED
      BY <2>2, <3>1, <3>2 DEF RunCommand, AnswerFrame, Awaiting
  <2> QED
    BY <1>8, <2>1, <2>2
<1>9. CASE Commit
  <2> DEFINE p == pending.path
  <2>1. p \in Path /\ pending.after \in Content
    BY <1>9 DEF Commit, Approved, Awaiting, NoAction, EditKind
  <2>2. disk' \in [Path -> FileState]
    BY <1>9, <2>1 DEF Commit, Approved, FileState
  <2>3. nodes' \subseteq Node /\ nextId' \in Nat
    <3>1. \A status \in EditStatus : <<status, p>> \in Label
      BY <2>1 DEF Label, FileLabel
    <3>2. pending.after \in Text
      BY <2>1 DEF Text, FileState
    <3>3. Retired(nodes, p) \in SUBSET Node
      BY RetiredType
    <3>4. \A r \in Reason : /\ Tainted(nodes, {p}, r) \in SUBSET Node
                            /\ Tainted(Retired(nodes, p), {p}, r) \in SUBSET Node
      BY <3>3, TaintedType
    <3>5. PICK status \in EditStatus, ns \in SUBSET Node :
            nodes' = Remembered(ns, <<status, p>>, pending.after)
      <4>1. PICK status \in EditStatus : Approved(status)
        BY <1>9 DEF Commit
      <4>2. \E ns \in SUBSET Node : nodes' = Remembered(ns, <<status, p>>, pending.after)
        BY <3>4, <4>1 DEF Approved, Reason
      <4> QED
        BY <4>2
    <3>6. nextId' = nextId + 1
      BY <1>9 DEF Commit, Approved
    <3>7. nodes' \in SUBSET Node
      BY <3>1, <3>2, <3>5, RememberedType
    <3>8. nextId' \in Nat
      BY <3>6
    <3> QED
      BY <3>7, <3>8
  <2> QED
    BY <1>9, <2>2, <2>3 DEF Commit, Approved, AnswerFrame, Awaiting
<1>10. CASE Complete \/ Continue
  <2>1. nodes' \subseteq Node
    BY <1>10, ReformType DEF Complete, Continue
  <2> QED
    BY <1>10, <2>1 DEF Complete, Continue, Stop
<1>11. CASE NoActions
  BY <1>11 DEF NoActions, EndLocals, NoReply, NextTurn, Stop, MayReshape, MayWarn
<1>12. CASE ProductiveTurn
  BY <1>12 DEF ProductiveTurn, EndLocals, NoReply, NextTurn, Stop
<1>13. CASE ExcusedTurn
  BY <1>13 DEF ExcusedTurn, EndLocals, NoReply, NextTurn, Stop
<1>14. CASE IdleTurn
  BY <1>14 DEF IdleTurn, EndLocals, NoReply, NextTurn, Stop
<1>15. CASE World
  <2>1. ASSUME NEW p \in Path, NEW text \in Content \cup {NoFile}, ExternalChange(p, text)
        PROVE  FilesType'
    <3>1. nodes' \subseteq Node
      BY <2>1, TaintedType DEF ExternalChange, Reason
    <3> QED
      BY <2>1, <3>1 DEF ExternalChange, FileState
  <2> QED
    BY <1>15, <2>1 DEF World, Interrupt
<1>16. CASE UNCHANGED vars
  BY <1>16 DEF vars
<1> QED
  BY <1>1, <1>2, <1>3, <1>4, <1>5, <1>6, <1>7, <1>8, <1>9,
     <1>10, <1>11, <1>12, <1>13, <1>14, <1>15, <1>16
     DEF Next, SessionStep, Act, Answer, EndTurn

(* Every step keeps the bookkeeping of corrections what it is. *)
LEMMA GraceTypeNext == TypeOK /\ [Next]_vars => GraceType'
<1> SUFFICES ASSUME GraceType, [Next]_vars PROVE GraceType'
  BY DEF TypeOK
<1> USE Bounds DEF GraceType,
        loopVars, guardVars, graceVars, memoryVars, researchVars, resultVars, envVars
<1>1. CASE Seed
  BY <1>1 DEF Seed, SeedPinned, StartLoop, SeedResearch, Research
<1>2. CASE BeginTurn \/ GetTurn
  <2>1. CASE BeginTurn
    BY <2>1 DEF BeginTurn, Stop
  <2>2. CASE GetTurn
    <3>1. graces' \subseteq Grace /\ gracePending' \in BOOLEAN
      <4>1. <<"truncated">> \in Grace
        BY DEF Grace
      <4> QED
        BY <2>2, <4>1, GrantType DEF GetTurn
    <3> QED
      BY <2>2, <3>1 DEF GetTurn
  <2> QED
    BY <1>2, <2>1, <2>2
<1>3. CASE Ops
  BY <1>3 DEF Ops, ContextOp, ResolveSnippet, ReformAndAskAgain, StartActions, Reform,
              NextTurn, Stop
<1>4. CASE Gather
  BY <1>4 DEF Gather, ReadOnly, DoResearch, Research, Consult, CanAct, ActionFrame
<1>5. CASE Gate \/ ProposeCommand
  BY <1>5 DEF Gate, ResearchRequired, ProposeCommand, CanAct, ActionFrame
<1>6. CASE Edit
  <2>1. ASSUME NEW kind \in EditKind, NEW p \in Path, EditThrows(kind, p)
        PROVE  GraceType'
    BY <2>1 DEF EditThrows, CanEdit, CanAct, ActionFrame
  <2>2. ASSUME NEW kind \in EditKind, NEW p \in Path, NEW status, EditRefused(kind, p, status)
        PROVE  GraceType'
    <3>1. CASE status = "missing-file"
      BY <2>2, <3>1 DEF EditRefused, ActionFrame
    <3>2. CASE status \in {"anchor", "split"}
      <4>1. misses' \subseteq {"anchor", "split"} \X Path
        BY <2>2, <3>2 DEF EditRefused
      <4>2. graces' \subseteq Grace /\ gracePending' \in BOOLEAN
        <5>1. <<status, p>> \in Grace
          BY <3>2 DEF Grace
        <5> QED
          BY <2>2, <5>1, <3>2, GrantType DEF EditRefused
      <4> QED
        BY <2>2, <4>1, <4>2 DEF EditRefused, ActionFrame
    <3> QED
      BY <2>2, <3>1, <3>2 DEF EditRefused
  <2>3. ASSUME NEW kind \in EditKind, NEW p \in Path, NEW after \in Content,
               EditDuplicate(kind, p, after)
        PROVE  GraceType'
    BY <2>3 DEF EditDuplicate, CanEdit, CanAct, ActionFrame
  <2>4. ASSUME NEW kind \in EditKind, NEW p \in Path, NEW after \in Content,
               EditProposed(kind, p, after)
        PROVE  GraceType'
    BY <2>4 DEF EditProposed, CanEdit, CanAct, ActionFrame
  <2> QED
    BY <1>6, <2>1, <2>2, <2>3, <2>4 DEF Edit
<1>7. CASE Finish \/ EndActions \/ Validate
  BY <1>7 DEF Finish, EndActions, Validate
<1>8. CASE Reject \/ RunCommand \/ CommitThrows
  BY <1>8 DEF Reject, RunCommand, CommitThrows, AnswerFrame, Stop
<1>9. CASE Commit
  BY <1>9 DEF Commit, Approved, AnswerFrame
<1>10. CASE Complete \/ Continue
  BY <1>10 DEF Complete, Continue, Reform, Closing, Stop
<1>11. CASE NoActions
  BY <1>11 DEF NoActions, EndLocals, NoReply, NextTurn, Stop, MayReshape, MayWarn
<1>12. CASE ProductiveTurn
  BY <1>12 DEF ProductiveTurn, EndLocals, NoReply, NextTurn, Stop
<1>13. CASE ExcusedTurn
  <2>1. gracePending' \in BOOLEAN
    BY <1>13 DEF ExcusedTurn
  <2>2. stall' \in Nat
    BY <1>13 DEF ExcusedTurn
  <2> QED
    BY <1>13, <2>1, <2>2 DEF ExcusedTurn, EndLocals
<1>14. CASE IdleTurn
  BY <1>14 DEF IdleTurn, EndLocals
<1>15. CASE World
  BY <1>15 DEF World, ExternalChange, Interrupt
<1>16. CASE UNCHANGED vars
  BY <1>16 DEF vars
<1> QED
  BY <1>1, <1>2, <1>3, <1>4, <1>5, <1>6, <1>7, <1>8, <1>9,
     <1>10, <1>11, <1>12, <1>13, <1>14, <1>15, <1>16
     DEF Next, SessionStep, Act, Answer, EndTurn

(* submitTask starts in a state of the right type. *)
LEMMA InitType == Init => TypeOK
<1> SUFFICES ASSUME Init PROVE TypeOK
  OBVIOUS
<1>1. PlaceType
  BY DEF Init, PlaceType, StopReason
<1>2. CountType
  BY Bounds DEF Init, CountType
<1>3. FlagType
  <2>1. /\ touched \subseteq Path /\ finished \in BOOLEAN /\ progress \in BOOLEAN
        /\ interrupt \in {"none", "deadline", "cancel"}
    BY DEF Init
  <2>2. reply \in [acts : BOOLEAN, sufficient : BOOLEAN]
    BY DEF Init, NoReply
  <2> QED
    BY <2>1, <2>2 DEF FlagType
<1>4. GraceType
  BY DEF Init, GraceType
<1>5. FilesType
  <2>1. disk \in [Path -> FileState]
    BY DEF Init, FileState
  <2>2. pending \in Awaiting /\ pc # "approve"
    BY DEF Init, Awaiting
  <2>3. nodes \subseteq Node /\ nextId \in Nat /\ externals \in 0..MaxExternal
    BY Bounds DEF Init
  <2> QED
    BY <2>1, <2>2, <2>3 DEF FilesType
<1>6. ResultType
  <2>1. signatures \subseteq Signature /\ researchCount \in 0..MaxResearch
    BY Bounds DEF Init
  <2>2. /\ researched \in BOOLEAN /\ wrote \in BOOLEAN /\ dirty \in BOOLEAN
        /\ lastValidation \in {"none", "valid", "invalid"}
        /\ untrue \subseteq {"read", "search", "applied"}
    BY DEF Init
  <2> QED
    BY <2>1, <2>2 DEF ResultType
<1> QED
  BY <1>1, <1>2, <1>3, <1>4, <1>5, <1>6 DEF TypeOK

(***************************************************************************)
(* Type correctness of the session: among others, the turn, action,        *)
(* research and reform caps of submitTask are never exceeded, for any      *)
(* caps.                                                                   *)
(***************************************************************************)
THEOREM SessionTypeCorrect == Spec => []TypeOK
<1>1. TypeOK /\ [Next]_vars => TypeOK'
  BY PlaceTypeNext, CountTypeNext, FlagTypeNext, GraceTypeNext, FilesTypeNext,
     ResultTypeNext DEF TypeOK
<1> QED
  BY InitType, <1>1, PTL DEF Spec

-----------------------------------------------------------------------------
(* The grace that was bought and not yet used. *)
Owed == IF gracePending THEN 1 ELSE 0

(***************************************************************************)
(* The turns without progress are paid for: each by the idle counter or by *)
(* a grace of its own, less the one still owed.  This is what makes        *)
(* StallsAreBounded inductive.                                             *)
(***************************************************************************)
StallInv ==
  /\ IsFiniteSet(graces)
  /\ Cardinality(graces) <= MaxGraces
  /\ gracePending => graces # {}
  /\ stall + Owed <= idle + Cardinality(graces)

(* The number of graces is a number, and positive once there is one. *)
LEMMA Counted ==
  ASSUME IsFiniteSet(graces)
  PROVE  /\ Cardinality(graces) \in Nat
         /\ graces # {} => Cardinality(graces) > 0
<1>1. Cardinality(graces) \in Nat /\ (Cardinality(graces) = 0 <=> graces = {})
  BY FS_CardinalityType, FS_EmptySet
<1> QED
  BY <1>1

(***************************************************************************)
(* Buying a grace (_grantCorrectionGrace) pays for the turn it will        *)
(* excuse, and an instruction given before buys nothing.                   *)
(***************************************************************************)
LEMMA GrantPays ==
  ASSUME TypeOK, StallInv, NEW key, Grant(key), UNCHANGED <<stall, idle>>
  PROVE  StallInv'
<1>1. Cardinality(graces) \in Nat /\ stall \in Nat /\ idle \in Nat /\ MaxGraces \in Nat
  BY Counted, Bounds DEF StallInv, TypeOK, GraceType, CountType
<1>2. CASE UNCHANGED <<graces, gracePending>>
  BY <1>2 DEF StallInv, Owed
<1>3. CASE /\ key \notin graces /\ Cardinality(graces) < MaxGraces
           /\ graces' = graces \cup {key} /\ gracePending' = TRUE
  <2>1. IsFiniteSet(graces') /\ Cardinality(graces') = Cardinality(graces) + 1
    BY <1>3, FS_AddElement DEF StallInv
  <2>2. Owed' = 1 /\ Owed \in {0, 1}
    BY <1>3 DEF Owed
  <2>3. stall + Owed <= idle + Cardinality(graces)
    BY DEF StallInv
  <2>4. stall' + Owed' <= idle' + Cardinality(graces')
    BY <1>1, <2>1, <2>2, <2>3
  <2>5. Cardinality(graces') <= MaxGraces
    BY <1>1, <1>3, <2>1
  <2> QED
    BY <1>3, <2>1, <2>4, <2>5 DEF StallInv
<1> QED
  BY <1>2, <1>3 DEF Grant

(* Every step of the session keeps the turns without progress paid for. *)
LEMMA StallNext == TypeOK /\ StallInv /\ [Next]_vars => StallInv'
<1> SUFFICES ASSUME TypeOK, StallInv, [Next]_vars PROVE StallInv'
  OBVIOUS
<1>0. Cardinality(graces) \in Nat /\ stall \in Nat /\ idle \in 0..2
  BY Counted DEF StallInv, TypeOK, GraceType, CountType
<1>1. CASE UNCHANGED <<graces, gracePending, stall, idle>>
  BY <1>1 DEF StallInv, Owed
<1>2. CASE GetTurn
  <2>1. UNCHANGED <<stall, idle>>
    BY <1>2 DEF GetTurn, guardVars
  <2> QED
    BY <1>1, <1>2, <2>1, GrantPays DEF GetTurn
<1>3. CASE Edit
  <2>1. ASSUME NEW kind \in EditKind, NEW p \in Path, NEW status,
               EditRefused(kind, p, status)
        PROVE  StallInv'
    <3>1. UNCHANGED <<stall, idle>>
      BY <2>1 DEF EditRefused, ActionFrame, guardVars
    <3>2. UNCHANGED <<graces, gracePending>> \/ Grant(<<status, p>>)
      BY <2>1 DEF EditRefused, graceVars
    <3> QED
      BY <1>1, <3>1, <3>2, GrantPays
  <2>2. ASSUME NEW kind \in EditKind, NEW p \in Path, NEW after \in Content,
               EditThrows(kind, p) \/ EditDuplicate(kind, p, after)
                 \/ EditProposed(kind, p, after)
        PROVE  StallInv'
    BY <1>1, <2>2 DEF EditThrows, EditDuplicate, EditProposed, ActionFrame, guardVars,
                      graceVars
  <2>3. ASSUME NEW kind \in EditKind, NEW p \in Path, EditThrows(kind, p)
        PROVE  StallInv'
    BY <1>1, <2>3 DEF EditThrows, ActionFrame, guardVars, graceVars
  <2> QED
    BY <1>3, <2>1, <2>2, <2>3 DEF Edit
<1>4. CASE ProductiveTurn
  <2>1. stall' = 0 /\ idle' = 0 /\ UNCHANGED <<graces, gracePending>>
    BY <1>4 DEF ProductiveTurn, EndLocals
  <2>2. Owed' <= Cardinality(graces)
    BY <1>0, <2>1, Counted DEF StallInv, Owed
  <2> QED
    BY <1>0, <2>1, <2>2 DEF StallInv, Owed
<1>5. CASE ExcusedTurn
  <2>1. /\ stall' = stall + 1 /\ gracePending /\ gracePending' = FALSE
        /\ UNCHANGED <<graces, idle>>
    BY <1>5 DEF ExcusedTurn, EndLocals
  <2> QED
    BY <1>0, <2>1 DEF StallInv, Owed
<1>6. CASE IdleTurn
  <2>1. /\ stall' = stall + 1 /\ idle' = idle + 1 /\ ~gracePending
        /\ UNCHANGED <<graces, gracePending>>
    BY <1>6 DEF IdleTurn, EndLocals
  <2> QED
    BY <1>0, <2>1 DEF StallInv, Owed
<1>7. CASE Seed \/ BeginTurn \/ Ops
  BY <1>1, <1>7 DEF Seed, SeedPinned, SeedResearch, StartLoop, BeginTurn, Ops, ContextOp,
                    ResolveSnippet, ReformAndAskAgain, StartActions, guardVars, graceVars
<1>8. CASE Gather \/ Gate \/ ProposeCommand \/ Finish \/ EndActions
  BY <1>1, <1>8 DEF Gather, Gate, ReadOnly, DoResearch, Consult, ResearchRequired,
                    ProposeCommand, Finish, EndActions, ActionFrame, guardVars, graceVars
<1>9. CASE Answer
  BY <1>1, <1>9 DEF Answer, Reject, RunCommand, CommitThrows, Commit, Approved,
                    AnswerFrame, guardVars, graceVars
<1>10. CASE Validate \/ Complete \/ Continue \/ NoActions
  BY <1>1, <1>10 DEF Validate, Complete, Continue, NoActions, EndLocals, guardVars,
                     graceVars
<1>11. CASE World \/ UNCHANGED vars
  BY <1>1, <1>11 DEF World, ExternalChange, Interrupt, guardVars, graceVars, vars
<1> QED
  BY <1>2, <1>3, <1>4, <1>5, <1>6, <1>7, <1>8, <1>9, <1>10, <1>11
     DEF Next, SessionStep, Act, EndTurn

(***************************************************************************)
(* StallsAreBounded, for every number of files, graces and turns: the idle *)
(* guard of submitTask cannot be held off by alternating corrections.      *)
(***************************************************************************)
THEOREM SessionStallsAreBounded == Spec => []StallsAreBounded
<1>1. Init => StallInv
  <2>1. Init => Cardinality(graces) = 0 /\ IsFiniteSet(graces)
    BY FS_EmptySet DEF Init
  <2> QED
    BY <2>1, Bounds DEF Init, StallInv, Owed
<1>2. TypeOK /\ StallInv => StallsAreBounded
  <2> SUFFICES ASSUME TypeOK, StallInv, idle < 2 PROVE stall <= 1 + MaxGraces
    BY DEF StallsAreBounded
  <2>1. Cardinality(graces) \in Nat /\ stall \in Nat /\ idle \in 0..1 /\ MaxGraces \in Nat
    BY Counted, Bounds DEF StallInv, TypeOK, GraceType, CountType
  <2>2. stall <= idle + Cardinality(graces) /\ Cardinality(graces) <= MaxGraces
    BY <2>1 DEF StallInv, Owed
  <2> QED
    BY <2>1, <2>2
<1> QED
  BY SessionTypeCorrect, <1>1, <1>2, StallNext, PTL DEF Spec

-----------------------------------------------------------------------------
(***************************************************************************)
(* Why a completed session is validated: while a validator is there and an *)
(* edit was written, the session is between validations with the last one  *)
(* failed, or has progress that forces the next; only the turn that passes *)
(* validation closes as finished.                                          *)
(***************************************************************************)
CompletedInv ==
  /\ pc # "stopped" => stop = "none"
  /\ pc = "seed" => ~wrote
  /\ HasValidator /\ wrote =>
       /\ pc \in {"turn", "model", "ops", "guard"} => lastValidation = "invalid"
       /\ pc \in {"act", "approve", "settle"} => lastValidation = "invalid" \/ progress
       /\ pc = "close" => IF finished THEN lastValidation = "valid" /\ ~dirty
                                      ELSE lastValidation = "invalid"

(* The inductive invariant behind CompletedIsValidated. *)
CompletedIInv == CompletedInv /\ CompletedIsValidated

(* Every step of the session preserves it. *)
LEMMA CompletedNext == TypeOK /\ CompletedIInv /\ [Next]_vars => CompletedIInv'
<1> SUFFICES ASSUME TypeOK, CompletedIInv, [Next]_vars PROVE CompletedIInv'
  OBVIOUS
<1> USE DEF CompletedIInv, CompletedInv, CompletedIsValidated, resultVars
<1>1. CASE Seed
  <2>1. /\ pc = "seed" /\ pc' \in {"seed", "turn"} /\ UNCHANGED <<wrote, stop, dirty>>
    BY <1>1 DEF Seed, SeedPinned, SeedResearch, StartLoop, loopVars
  <2> QED
    BY <2>1
<1>2. CASE BeginTurn \/ GetTurn
  BY <1>2 DEF BeginTurn, GetTurn, Stop
<1>3. CASE Ops
  <2>1. CASE ReformAndAskAgain
    BY <2>1 DEF ReformAndAskAgain, NextTurn, Stop
  <2>2. CASE StartActions
    BY <2>2 DEF StartActions
  <2>3. ASSUME NEW n \in nodes, NEW op, ContextOp(n, op) PROVE CompletedIInv'
    BY <2>3 DEF ContextOp
  <2>4. ASSUME NEW p \in Path, ResolveSnippet(p) PROVE CompletedIInv'
    BY <2>4 DEF ResolveSnippet, loopVars
  <2> QED
    BY <1>3, <2>1, <2>2, <2>3, <2>4 DEF Ops
<1>4. CASE Gather \/ Gate \/ ProposeCommand
  <2>1. /\ pc = "act" /\ pc' \in {"act", "approve"}
        /\ UNCHANGED <<stop, wrote, lastValidation>>
        /\ progress => progress'
    <3> DEFINE Goal == /\ pc = "act" /\ pc' \in {"act", "approve"}
                       /\ UNCHANGED <<stop, wrote, lastValidation>>
                       /\ progress => progress'
    <3>0. progress \in BOOLEAN
      BY DEF TypeOK, FlagType
    <3>1. ASSUME NEW kind, NEW target, ReadOnly(kind, target) PROVE Goal
      BY <3>0, <3>1 DEF ReadOnly, CanAct, ActionFrame
    <3>2. ASSUME NEW q, DoResearch(q) PROVE Goal
      BY <3>0, <3>2 DEF DoResearch, Research, CanAct, ActionFrame
    <3>3. ASSUME NEW kind, Consult(kind) \/ ResearchRequired(kind) PROVE Goal
      BY <3>0, <3>3 DEF Consult, ResearchRequired, CanAct, ActionFrame
    <3>4. CASE ProposeCommand
      BY <3>4 DEF ProposeCommand, CanAct, ActionFrame
    <3> QED
      BY <1>4, <3>1, <3>2, <3>3, <3>4 DEF Gather, Gate
  <2> QED
    BY <2>1
<1>5. CASE Edit
  <2>1. /\ pc = "act" /\ UNCHANGED <<wrote, lastValidation, progress>>
        /\ \/ pc' \in {"act", "approve"} /\ UNCHANGED stop
           \/ pc' = "stopped" /\ stop' = "threw"
    <3> DEFINE Goal == /\ pc = "act" /\ UNCHANGED <<wrote, lastValidation, progress>>
                       /\ \/ pc' \in {"act", "approve"} /\ UNCHANGED stop
                          \/ pc' = "stopped" /\ stop' = "threw"
    <3>1. ASSUME NEW kind, NEW p, EditThrows(kind, p) PROVE Goal
      BY <3>1 DEF EditThrows, CanEdit, CanAct, ActionFrame, Stop
    <3>2. ASSUME NEW kind, NEW p, NEW status, EditRefused(kind, p, status)
          PROVE  Goal
      BY <3>2 DEF EditRefused, CanEdit, CanAct, ActionFrame
    <3>3. ASSUME NEW kind, NEW p, NEW after, EditDuplicate(kind, p, after)
          PROVE  Goal
      BY <3>3 DEF EditDuplicate, CanEdit, CanAct, ActionFrame
    <3>4. ASSUME NEW kind, NEW p, NEW after, EditProposed(kind, p, after)
          PROVE  Goal
      BY <3>4 DEF EditProposed, CanEdit, CanAct, ActionFrame
    <3> QED
      BY <1>5, <3>1, <3>2, <3>3, <3>4 DEF Edit
  <2> QED
    BY <2>1
<1>6. CASE Finish \/ EndActions
  BY <1>6 DEF Finish, EndActions
<1>7. CASE Answer
  <2> DEFINE Answered ==
        /\ pc = "approve" /\ UNCHANGED lastValidation
        /\ \/ /\ pc' = "act" /\ UNCHANGED stop
              /\ (wrote' = wrote /\ (progress => progress')) \/ progress'
           \/ pc' = "stopped" /\ stop' = "threw"
  <2>1. Answered
    <3>1. CASE Reject \/ RunCommand \/ CommitThrows
      BY <3>1 DEF Reject, RunCommand, CommitThrows, AnswerFrame, Stop
    <3>2. ASSUME NEW status \in EditStatus, Approved(status) PROVE Answered
      BY <3>2 DEF Approved, AnswerFrame
    <3> QED
      BY <1>7, <3>1, <3>2 DEF Answer, Commit
  <2> QED
    BY <2>1
<1>8. CASE Validate
  BY <1>8 DEF Validate
<1>9. CASE Complete
  <2>1. pc = "settle" => ~(HasValidator /\ wrote)
    BY <1>9 DEF Complete, Closing, MustValidate
  <2> QED
    BY <1>9, <2>1 DEF Complete, Closing, Stop
<1>10. CASE Continue
  BY <1>10 DEF Continue, Closing, MustValidate
<1>11. CASE NoActions \/ ProductiveTurn \/ ExcusedTurn \/ IdleTurn
  <2>1. /\ pc = "guard" /\ UNCHANGED <<wrote, lastValidation, dirty>>
        /\ \/ pc' = "turn" /\ UNCHANGED stop
           \/ pc' = "stopped" /\ stop' # "completed"
           \/ pc' = "stopped" /\ (HasValidator => lastValidation = "valid")
    BY <1>11 DEF NoActions, ProductiveTurn, ExcusedTurn, IdleTurn, EndLocals, NextTurn, Stop
  <2> QED
    BY <2>1
<1>12. CASE World \/ UNCHANGED vars
  <2>1. UNCHANGED <<pc, stop, wrote, lastValidation, dirty, progress, finished>>
    BY <1>12 DEF World, ExternalChange, Interrupt, loopVars, vars
  <2> QED
    BY <2>1
<1> QED
  BY <1>1, <1>2, <1>3, <1>4, <1>5, <1>6, <1>7, <1>8, <1>9, <1>10, <1>11, <1>12
     DEF Next, SessionStep, Act, EndTurn

(***************************************************************************)
(* CompletedIsValidated, for every validator outcome, turn cap and         *)
(* workspace: submitTask reports "completed" after a written edit only on  *)
(* a passing validation of what it left.                                   *)
(***************************************************************************)
THEOREM SessionCompletedIsValidated == Spec => []CompletedIsValidated
<1>1. Init => CompletedIInv
  BY DEF Init, CompletedIInv, CompletedInv, CompletedIsValidated
<1>2. CompletedIInv => CompletedIsValidated
  BY DEF CompletedIInv
<1> QED
  BY SessionTypeCorrect, <1>1, <1>2, CompletedNext, PTL DEF Spec

-----------------------------------------------------------------------------
(* A node shows a file as it is, or is excused. *)
Current(n, files) ==
  n.live /\ n.label[1] \in Replaceable /\ n.taint \subseteq {"write"}
    => n.text = files[n.label[2]]

(* A label about a file names a path. *)
LEMMA LabelShape ==
  ASSUME NEW label \in Label, label[1] \in Replaceable
  PROVE  label[2] \in Path /\ label = <<label[1], label[2]>>
  BY DEF Label, FileLabel, Replaceable

(***************************************************************************)
(* A change to a file that marks the nodes about it, as something else     *)
(* than an edit of the session, leaves every other node current.           *)
(***************************************************************************)
LEMMA TaintedIsExcused ==
  ASSUME NEW ns \in SUBSET Node, \A n \in ns : Current(n, disk),
         disk \in [Path -> FileState], NEW p \in Path, NEW x, NEW reason, reason # "write"
  PROVE  \A n \in Tainted(ns, {p}, reason) : Current(n, [disk EXCEPT ![p] = x])
<1> SUFFICES ASSUME NEW m \in ns
             PROVE  Current(IF m.label[2] \in {p} \cup {Workspace}
                              THEN [m EXCEPT !.taint = @ \cup {reason}] ELSE m,
                            [disk EXCEPT ![p] = x])
  BY DEF Tainted
<1>1. m \in Node /\ Current(m, disk)
  OBVIOUS
<1>2. CASE m.label[2] \in {p} \cup {Workspace}
  <2>1. [m EXCEPT !.taint = @ \cup {reason}].taint = m.taint \cup {reason}
    BY <1>1 DEF Node
  <2> QED
    BY <1>2, <2>1 DEF Current
<1>3. CASE m.label[2] \notin {p} \cup {Workspace}
  <2>1. m.label[1] \in Replaceable => m.label[2] \in Path
    BY <1>1, LabelShape DEF Node
  <2> QED
    BY <1>1, <1>3, <2>1 DEF Current
<1> QED
  BY <1>2, <1>3

(***************************************************************************)
(* A write that first retires the nodes about the file                     *)
(* (_retireSupersededFileContext) leaves every live node current.          *)
(***************************************************************************)
LEMMA RetiredIsCurrent ==
  ASSUME NEW ns \in SUBSET Node, \A n \in ns : Current(n, disk),
         disk \in [Path -> FileState], NEW p \in Path, NEW x, NEW reason
  PROVE  \A n \in Tainted(Retired(ns, p), {p}, reason) : Current(n, [disk EXCEPT ![p] = x])
<1> DEFINE kept(m) == IF m.label \in Replaceable \X {p} THEN [m EXCEPT !.live = FALSE] ELSE m
           marked(m) == IF m.label[2] \in {p} \cup {Workspace}
                          THEN [m EXCEPT !.taint = @ \cup {reason}] ELSE m
<1>0. SUFFICES ASSUME NEW m \in ns
               PROVE  Current(marked(kept(m)), [disk EXCEPT ![p] = x])
  <2>1. Retired(ns, p) = {kept(m) : m \in ns}
    BY DEF Retired
  <2>2. Tainted(Retired(ns, p), {p}, reason) = {marked(m) : m \in Retired(ns, p)}
    BY DEF Tainted
  <2> HIDE DEF kept, marked
  <2> QED
    BY <2>1, <2>2
<1>1. m \in Node /\ Current(m, disk) /\ kept(m) \in Node
  BY DEF Node
<1>2. /\ marked(kept(m)).live = kept(m).live /\ marked(kept(m)).label = m.label
      /\ marked(kept(m)).text = m.text
      /\ m.taint \subseteq marked(kept(m)).taint
  BY <1>1 DEF Node
<1>3. CASE m.label[1] \notin Replaceable
  BY <1>2, <1>3 DEF Current
<1>4. CASE m.label[1] \in Replaceable /\ m.label[2] = p
  <2>1. m.label \in Replaceable \X {p}
    BY <1>1, <1>4, LabelShape DEF Node
  <2>2. kept(m).live = FALSE
    BY <1>1, <2>1 DEF Node
  <2> QED
    BY <1>2, <2>2 DEF Current
<1>5. CASE m.label[1] \in Replaceable /\ m.label[2] # p
  <2>1. m.label[2] \in Path
    BY <1>1, <1>5, LabelShape DEF Node
  <2>2. kept(m).live => m.live
    BY <1>1 DEF Node
  <2> QED
    BY <1>1, <1>2, <1>5, <2>1, <2>2 DEF Current
<1> QED
  BY <1>3, <1>4, <1>5

(* Remembering what a file holds now leaves every node current. *)
LEMMA RememberedIsCurrent ==
  ASSUME NEW ns, NEW files, \A n \in ns : Current(n, files),
         NEW label, NEW text, label[1] \in Replaceable => text = files[label[2]]
  PROVE  \A n \in Remembered(ns, label, text) : Current(n, files)
  BY DEF Remembered, Current

(* Expanding a node does not change what it shows. *)
LEMMA ExpandedIsCurrent ==
  ASSUME NEW n \in Node, NEW files, Current(n, files)
  PROVE  Current([n EXCEPT !.expanded = TRUE], files)
  BY DEF Node, Current

(* A reform of the context only expands nodes. *)
LEMMA ReformIsCurrent ==
  ASSUME nodes \in SUBSET Node, \A n \in nodes : Current(n, disk), Reform
  PROVE  \A n \in nodes' : Current(n, disk)
<1>1. PICK matched \in SUBSET nodes :
        nodes' = (nodes \ matched) \cup {[n EXCEPT !.expanded = TRUE] : n \in matched}
  BY DEF Reform
<1>2. \A n \in matched : Current([n EXCEPT !.expanded = TRUE], disk)
  BY <1>1, ExpandedIsCurrent
<1> QED
  BY <1>1, <1>2

(* EvidenceIsCurrent, node by node. *)
EvidenceInv == \A n \in nodes : Current(n, disk)

(* A commit writes the file of the edit, and the text it was approved with. *)
LEMMA WrittenDisk ==
  ASSUME NEW status, Approved(status)
  PROVE  /\ \E x : disk' = [disk EXCEPT ![pending.path] = x]
         /\ status = "written" => disk' = [disk EXCEPT ![pending.path] = pending.after]
BY DEF Approved, ComesTo

(* And none when it says so. *)
LEMMA LeftAloneDisk ==
  ASSUME disk \in [Path -> FileState], pending.path \in Path, NEW status,
         Approved(status), status \in {"unchanged", "hash-mismatch", "rollback"}
  PROVE  /\ UNCHANGED disk
         /\ status = "unchanged" => disk[pending.path] = pending.after
<1>1. PICK text : /\ ComesTo(disk[pending.path], pending.expected, pending.after, status, text)
                  /\ disk' = [disk EXCEPT ![pending.path] = text]
  BY DEF Approved
<1>2. text = disk[pending.path]
  BY <1>1 DEF ComesTo
<1>3. status = "unchanged" => disk[pending.path] = pending.after
  BY <1>1 DEF ComesTo
<1> QED
  BY <1>1, <1>2, <1>3

(***************************************************************************)
(* Every step of the session keeps its evidence current; the writes of     *)
(* _handleMutation are the steps that could break it.                      *)
(***************************************************************************)
LEMMA EvidenceNext == TypeOK /\ EvidenceInv /\ [Next]_vars => EvidenceInv'
<1> SUFFICES ASSUME TypeOK, EvidenceInv, [Next]_vars PROVE EvidenceInv'
  OBVIOUS
<1>0. nodes \in SUBSET Node /\ disk \in [Path -> FileState] /\ pending \in Awaiting
  BY DEF TypeOK, FilesType
<1>1. CASE UNCHANGED <<disk, nodes>>
  BY <1>1 DEF EvidenceInv, Current
<1>2. ASSUME NEW label, NEW text, UNCHANGED disk, nodes' = Remembered(nodes, label, text),
             label[1] \in Replaceable => text = disk[label[2]]
      PROVE  EvidenceInv'
  BY <1>2, RememberedIsCurrent DEF EvidenceInv
<1>3. CASE Seed
  <2>1. ASSUME NEW p \in Path, SeedPinned(p) PROVE EvidenceInv'
    BY <1>2, <2>1 DEF SeedPinned
  <2>2. ASSUME NEW q \in Query, SeedResearch(q) PROVE EvidenceInv'
    BY <1>1, <2>2 DEF SeedResearch
  <2>3. CASE StartLoop
    BY <1>1, <2>3 DEF StartLoop, memoryVars
  <2> QED
    BY <1>3, <2>1, <2>2, <2>3 DEF Seed
<1>4. CASE BeginTurn \/ GetTurn
  BY <1>1, <1>4 DEF BeginTurn, GetTurn, memoryVars
<1>5. CASE Ops
  <2>1. ASSUME NEW n \in nodes, NEW o \in {"drop", "expand", "collapse"}, ContextOp(n, o)
        PROVE  EvidenceInv'
    <3>1. n \in Node /\ Current(n, disk)
      BY <1>0 DEF EvidenceInv
    <3>2. Current(Revised(n, o), disk)
      BY <3>1 DEF Revised, Node, Current
    <3>3. nodes' = (nodes \ {n}) \cup {Revised(n, o)} /\ UNCHANGED disk
      BY <2>1 DEF ContextOp
    <3> QED
      BY <3>2, <3>3 DEF EvidenceInv
  <2>2. ASSUME NEW p \in Path, ResolveSnippet(p) PROVE EvidenceInv'
    BY <1>2, <2>2 DEF ResolveSnippet
  <2>3. CASE ReformAndAskAgain
    <3>1. Reform /\ UNCHANGED disk
      BY <2>3 DEF ReformAndAskAgain
    <3> QED
      BY <1>0, <3>1, ReformIsCurrent DEF EvidenceInv
  <2>4. CASE StartActions
    BY <1>1, <2>4 DEF StartActions, memoryVars
  <2> QED
    BY <1>5, <2>1, <2>2, <2>3, <2>4 DEF Ops
<1>6. CASE Gather
  <2>1. ASSUME NEW kind \in ReadKind, NEW target \in Target, ReadOnly(kind, target)
        PROVE  EvidenceInv'
    <3>1. UNCHANGED disk
      BY <2>1 DEF ReadOnly, ActionFrame
    <3>2. CASE nodes' = Remembered(nodes, <<kind, target>>, View(target, disk))
      <4>1. kind \in Replaceable => target \in Path
        BY <2>1, LabelShape DEF ReadOnly
      <4>2. kind \in Replaceable => View(target, disk) = disk[target]
        BY <4>1, SessionAssumption DEF View
      <4> QED
        BY <1>2, <3>1, <3>2, <4>2
    <3>3. ASSUME NEW n \in nodes, nodes' = (nodes \ {n}) \cup {[n EXCEPT !.expanded = TRUE]}
          PROVE  EvidenceInv'
      <4>1. Current([n EXCEPT !.expanded = TRUE], disk)
        BY <1>0, ExpandedIsCurrent DEF EvidenceInv
      <4> QED
        BY <3>1, <3>3, <4>1 DEF EvidenceInv
    <3> QED
      BY <2>1, <3>2, <3>3 DEF ReadOnly, Gathered
  <2>2. ASSUME NEW q, DoResearch(q) PROVE EvidenceInv'
    BY <1>1, <2>2 DEF DoResearch, ActionFrame
  <2>3. ASSUME NEW kind, Consult(kind) PROVE EvidenceInv'
    BY <1>1, <2>3 DEF Consult, ActionFrame
  <2> QED
    BY <1>6, <2>1, <2>2, <2>3 DEF Gather
<1>7. CASE Gate \/ ProposeCommand \/ Finish \/ EndActions
  BY <1>1, <1>7 DEF Gate, ResearchRequired, ProposeCommand, Finish, EndActions, ActionFrame,
                    memoryVars
<1>8. CASE Edit
  <2>1. ASSUME NEW kind, NEW p, EditThrows(kind, p)
        PROVE  UNCHANGED <<disk, nodes>>
    BY <2>1 DEF EditThrows, ActionFrame, memoryVars
  <2>2. ASSUME NEW kind, NEW p, NEW status, EditRefused(kind, p, status)
        PROVE  UNCHANGED <<disk, nodes>>
    BY <2>2 DEF EditRefused, ActionFrame
  <2>3. ASSUME NEW kind, NEW p, NEW after,
               EditDuplicate(kind, p, after) \/ EditProposed(kind, p, after)
        PROVE  UNCHANGED <<disk, nodes>>
    BY <2>3 DEF EditDuplicate, EditProposed, ActionFrame, memoryVars
  <2> QED
    BY <1>1, <1>8, <2>1, <2>2, <2>3 DEF Edit
<1>9. CASE Reject \/ CommitThrows
  BY <1>1, <1>9 DEF Reject, CommitThrows, memoryVars
<1>10. CASE RunCommand
  <2>1. ASSUME NEW p \in Path, NEW text, disk' = [disk EXCEPT ![p] = text],
               nodes' = Tainted(nodes, {p}, "command")
        PROVE  EvidenceInv'
    BY <1>0, <2>1, TaintedIsExcused DEF EvidenceInv
  <2> QED
    BY <1>1, <1>10, <2>1 DEF RunCommand
<1>11. CASE Commit
  <2> DEFINE p == pending.path
  <2>1. p \in Path
    BY <1>0, <1>11 DEF Commit, Approved, Awaiting, NoAction, EditKind
  <2>2. CASE Approved("written")
    <3>1. /\ disk' = [disk EXCEPT ![p] = pending.after]
          /\ nodes' = Remembered(Tainted(Retired(nodes, p), {p}, "write"),
                                 <<"written", p>>, pending.after)
      BY <2>2, WrittenDisk DEF Approved
    <3>2. \A n \in Tainted(Retired(nodes, p), {p}, "write") : Current(n, disk')
      BY <1>0, <2>1, <3>1, RetiredIsCurrent DEF EvidenceInv
    <3>3. disk'[p] = pending.after
      BY <1>0, <2>1, <3>1
    <3> QED
      BY <3>1, <3>2, <3>3, RememberedIsCurrent DEF EvidenceInv
  <2>3. CASE Approved("unchanged")
    <3>1. UNCHANGED disk /\ disk[p] = pending.after
      BY <1>0, <2>1, <2>3, LeftAloneDisk
    <3>2. nodes' = Remembered(nodes, <<"unchanged", p>>, pending.after)
      BY <2>3 DEF Approved
    <3> QED
      BY <1>2, <3>1, <3>2
  <2>4. ASSUME NEW status \in {"hash-mismatch", "failed"}, Approved(status)
        PROVE  EvidenceInv'
    <3>1. PICK x : disk' = [disk EXCEPT ![p] = x]
      BY <2>4, WrittenDisk
    <3>2. PICK r \in {"mismatch", "failure"} :
            nodes' = Remembered(Tainted(nodes, {p}, r), <<status, p>>, pending.after)
      BY <2>4 DEF Approved
    <3>3. \A n \in Tainted(nodes, {p}, r) : Current(n, disk')
      BY <1>0, <2>1, <3>1, TaintedIsExcused DEF EvidenceInv
    <3>4. status \notin Replaceable
      BY <2>4 DEF Replaceable
    <3> QED
      BY <3>2, <3>3, <3>4, RememberedIsCurrent DEF EvidenceInv
  <2>5. CASE Approved("rollback")
    <3>1. UNCHANGED disk
      BY <1>0, <2>1, <2>5, LeftAloneDisk
    <3>2. nodes' = Remembered(nodes, <<"rollback", p>>, pending.after)
      BY <2>5 DEF Approved
    <3> QED
      BY <1>2, <3>1, <3>2 DEF Replaceable
  <2> QED
    BY <1>11, <2>2, <2>3, <2>4, <2>5 DEF Commit, EditStatus
<1>12. CASE Validate \/ Complete \/ NoActions \/ ProductiveTurn \/ ExcusedTurn \/ IdleTurn
  BY <1>1, <1>12 DEF Validate, Complete, NoActions, ProductiveTurn, ExcusedTurn, IdleTurn,
                     EndLocals, memoryVars
<1>13. CASE Continue
  <2>1. UNCHANGED disk /\ (Reform \/ UNCHANGED nodes)
    BY <1>13 DEF Continue
  <2> QED
    BY <1>0, <1>1, <2>1, ReformIsCurrent DEF EvidenceInv
<1>14. CASE World
  <2>1. ASSUME NEW p \in Path, NEW text, ExternalChange(p, text)
        PROVE  EvidenceInv'
    BY <1>0, <2>1, TaintedIsExcused DEF EvidenceInv, ExternalChange
  <2>2. CASE Interrupt
    BY <1>1, <2>2 DEF Interrupt, memoryVars
  <2> QED
    BY <1>14, <2>1, <2>2 DEF World
<1>15. CASE UNCHANGED vars
  BY <1>1, <1>15 DEF vars
<1> QED
  BY <1>3, <1>4, <1>5, <1>6, <1>7, <1>8, <1>9, <1>10, <1>11, <1>12, <1>13, <1>14, <1>15
     DEF Next, SessionStep, Act, Answer, EndTurn

(***************************************************************************)
(* EvidenceIsCurrent, for any number of files, reads, searches, snippets   *)
(* and edits: the own writes of the session leave nothing in play that     *)
(* shows an older text of the file, the reports of edits that did not      *)
(* succeed excepted.                                                       *)
(***************************************************************************)
THEOREM SessionEvidenceIsCurrent == Spec => []EvidenceIsCurrent
<1>1. Init => EvidenceInv
  BY DEF Init, EvidenceInv
<1>2. EvidenceInv => EvidenceIsCurrent
  BY DEF EvidenceInv, EvidenceIsCurrent, Current
<1> QED
  BY SessionTypeCorrect, <1>1, <1>2, EvidenceNext, PTL DEF Spec

-----------------------------------------------------------------------------
(* Every session shrinks.                                                  *)

(* The weight of the turns left. *)
LEMMA TurnsLeft ==
  ASSUME NEW t \in 0..MaxTurns
  PROVE  /\ TurnWork \in Nat /\ TurnWork >= 7
         /\ (MaxTurns - t) * TurnWork \in Nat
         /\ (MaxTurns - (t + 1)) * TurnWork + TurnWork = (MaxTurns - t) * TurnWork
         /\ MaxTurns * TurnWork \in Nat
         /\ (MaxTurns - 1) * TurnWork + TurnWork = MaxTurns * TurnWork
<1>1. TurnWork \in Nat /\ TurnWork >= 7
  BY Bounds DEF TurnWork
<1>2. \A k, w \in Nat : k * w \in Nat /\ (k - 1) * w + w = k * w
  OBVIOUS
<1>3. MaxTurns \in Nat /\ MaxTurns - t \in Nat /\ MaxTurns - (t + 1) = (MaxTurns - t) - 1
  BY Bounds
<1> HIDE DEF TurnWork
<1> QED
  BY <1>1, <1>2, <1>3

(* Within a turn something is left of it. *)
LEMMA LeftIsPositive ==
  ASSUME TypeOK, pc \notin {"seed", "stopped"}
  PROVE  LeftOfTurn \in Nat /\ LeftOfTurn > 0
<1>1. /\ opsApplied \in 0..MaxOps /\ supplied \in 0..MaxSnippets
      /\ executed \in 0..MaxActions
  BY DEF TypeOK, CountType
<1>2. TurnWork \in Nat /\ TurnWork >= 7
  BY Bounds DEF TurnWork
<1> QED
  BY Bounds, <1>1, <1>2 DEF TypeOK, PlaceType, LeftOfTurn

LEMMA RemainingIsNat ==
  TypeOK => Remaining \in Nat /\ (pc # "stopped" => Remaining > 0)
<1> SUFFICES ASSUME TypeOK
             PROVE  Remaining \in Nat /\ (pc # "stopped" => Remaining > 0)
  OBVIOUS
<1>1. turn \in 0..MaxTurns
  BY DEF TypeOK, CountType
<1>2. (MaxTurns - turn) * TurnWork \in Nat /\ MaxTurns * TurnWork \in Nat
  BY <1>1, TurnsLeft
<1>3. CASE pc \in {"seed", "stopped"}
  BY <1>2, <1>3 DEF Remaining
<1>4. CASE pc \notin {"seed", "stopped"}
  BY <1>2, <1>4, LeftIsPositive DEF Remaining
<1> QED
  BY <1>3, <1>4

(***************************************************************************)
(* The four ways nearer to the end: stop, go on in the turn, begin the     *)
(* next one, begin the first.                                              *)
(***************************************************************************)
LEMMA StopIsNearer ==
  ASSUME TypeOK, pc # "stopped", pc' = "stopped"
  PROVE  Remaining' < Remaining
<1>1. Remaining' = 0
  BY DEF Remaining
<1> QED
  BY <1>1, RemainingIsNat

LEMMA WithinIsNearer ==
  ASSUME TypeOK, pc \notin {"seed", "stopped"}, pc' \notin {"seed", "stopped"},
         UNCHANGED turn, LeftOfTurn' \in Int, LeftOfTurn' < LeftOfTurn
  PROVE  Remaining' < Remaining
<1>1. (MaxTurns - turn) * TurnWork \in Nat
  BY TurnsLeft DEF TypeOK, CountType
<1>2. Remaining = (MaxTurns - turn) * TurnWork + LeftOfTurn
  BY DEF Remaining
<1>3. Remaining' = (MaxTurns - turn) * TurnWork + LeftOfTurn'
  BY DEF Remaining
<1> QED
  BY <1>1, <1>2, <1>3, LeftIsPositive

LEMMA NextTurnIsNearer ==
  ASSUME TypeOK, pc \in {"ops", "guard"}, NextTurn
  PROVE  Remaining' < Remaining
<1>1. CASE Stop("max-turns")
  BY <1>1, StopIsNearer DEF Stop
<1>2. CASE pc' = "turn" /\ turn' = turn + 1
  <2>1. turn \in 0..MaxTurns
    BY DEF TypeOK, CountType
  <2>2. Remaining = (MaxTurns - turn) * TurnWork + LeftOfTurn
    BY DEF Remaining
  <2>3. Remaining' = (MaxTurns - (turn + 1)) * TurnWork + TurnWork
    BY <1>2 DEF Remaining, LeftOfTurn, TurnWork
  <2>4. /\ (MaxTurns - turn) * TurnWork \in Nat
        /\ Remaining' = (MaxTurns - turn) * TurnWork
    BY <2>1, <2>3, TurnsLeft
  <2> QED
    BY <2>2, <2>4, LeftIsPositive
<1> QED
  BY <1>1, <1>2 DEF NextTurn

LEMMA StartIsNearer ==
  ASSUME StartLoop
  PROVE  Remaining' < Remaining
<1>1. Remaining = MaxTurns * TurnWork + 1
  BY DEF StartLoop, Remaining
<1>2. Remaining' = (MaxTurns - 1) * TurnWork + TurnWork
  BY DEF StartLoop, Remaining, LeftOfTurn, TurnWork
<1>3. 0 \in 0..MaxTurns
  BY Bounds
<1>4. MaxTurns * TurnWork \in Nat /\ Remaining' = MaxTurns * TurnWork
  BY <1>2, <1>3, TurnsLeft
<1> QED
  BY <1>1, <1>4

(* An action takes one of the actions left, and its answer less. *)
LEMMA ActionIsNearer ==
  ASSUME TypeOK, NEW kind, CanAct(kind), ActionFrame, pc' \in {"act", "approve"}
  PROVE  Remaining' < Remaining
<1>1. executed \in 0..MaxActions /\ executed' = executed + 1 /\ executed < MaxActions
  BY DEF TypeOK, CountType, CanAct, ActionFrame
<1>2. LeftOfTurn = 2 * (MaxActions - executed) + 4
  BY DEF CanAct, LeftOfTurn
<1>3. LeftOfTurn' = 2 * (MaxActions - (executed + 1)) + 4
        \/ LeftOfTurn' = 2 * (MaxActions - (executed + 1)) + 5
  BY <1>1 DEF LeftOfTurn
<1>4. LeftOfTurn' \in Int /\ LeftOfTurn' < LeftOfTurn
  BY Bounds, <1>1, <1>2, <1>3
<1> QED
  BY <1>4, WithinIsNearer DEF CanAct, ActionFrame

-----------------------------------------------------------------------------
(* A file that was not shown is shown. *)
LEMMA RememberedIsShown ==
  ASSUME NEW label \in FileLabel \X Path, NEW text, label \notin Shown,
         nodes' = Remembered(nodes, label, text)
  PROVE  Shown \subseteq Shown' /\ Shown # Shown'
<1> DEFINE new == [id |-> nextId, label |-> label, text |-> text, live |-> TRUE,
                   expanded |-> FALSE, taint |-> {}]
<1>1. nodes' = nodes \cup {new}
  BY DEF Remembered
<1>2. new.label = label /\ new.live
  OBVIOUS
<1>3. Shown \subseteq Shown'
  BY <1>1 DEF Shown
<1>4. label \in Shown'
  BY <1>1, <1>2 DEF Shown
<1> QED
  BY <1>3, <1>4

(* Nothing moves, and what there is to show grows. *)
Stays == UNCHANGED <<pc, turn, opsApplied, supplied, executed>>

LEMMA SeedSupplies ==
  ASSUME TypeOK, Seed, vars' # vars
  PROVE  Remaining' < Remaining \/ (Stays /\ Supplies)
<1>1. ASSUME NEW p \in Path, SeedPinned(p)
      PROVE  Stays /\ Supplies
  <2>1. <<"operator-selected", p>> \in FileLabel \X Path
    BY DEF FileLabel
  <2>2. <<"operator-selected", p>> \notin Shown
    BY <1>1 DEF SeedPinned, Shown
  <2>3. Shown \subseteq Shown' /\ Shown # Shown'
    BY <1>1, <2>1, <2>2, RememberedIsShown DEF SeedPinned
  <2> QED
    BY <1>1, <2>3 DEF SeedPinned, Supplies, Stays, loopVars
<1>2. ASSUME NEW q \in Query, SeedResearch(q)
      PROVE  Stays /\ Supplies
  <2>1. researchCount \in Nat
    BY Bounds DEF TypeOK, ResultType
  <2>2. CASE researchCount' = researchCount + 1
    BY <1>2, <2>1, <2>2 DEF SeedResearch, Supplies, Stays
  <2>3. CASE UNCHANGED <<progress, signatures, researchVars>>
    <3>1. UNCHANGED vars
      BY <1>2, <2>3 DEF SeedResearch, guardVars, graceVars, resultVars, envVars,
                        researchVars, vars
    <3> QED
      BY <3>1
  <2>4. /\ researchCount < MaxResearch /\ MaxResearch \in Nat
        /\ Research(q) /\ UNCHANGED pc
    BY <1>2, Bounds DEF SeedResearch
  <2>5. \/ researchCount' = researchCount + 1
        \/ UNCHANGED <<progress, signatures, researchVars>>
    BY <2>1, <2>4 DEF Research
  <2> QED
    BY <2>2, <2>3, <2>5
<1> QED
  BY <1>1, <1>2, StartIsNearer DEF Seed

LEMMA OpsShrink ==
  ASSUME TypeOK, Ops
  PROVE  Remaining' < Remaining
<1>0. /\ opsApplied \in 0..MaxOps /\ supplied \in 0..MaxSnippets
      /\ executed \in 0..MaxActions
  BY DEF TypeOK, CountType
<1>1. ASSUME NEW n \in nodes, NEW o, ContextOp(n, o)
      PROVE  Remaining' < Remaining
  <2>1. /\ LeftOfTurn = (MaxOps - opsApplied) + (MaxSnippets - supplied)
                           + 2 * MaxActions + 5
        /\ LeftOfTurn' = (MaxOps - (opsApplied + 1)) + (MaxSnippets - supplied)
                            + 2 * MaxActions + 5
    BY <1>1 DEF ContextOp, LeftOfTurn
  <2>2. LeftOfTurn' \in Int /\ LeftOfTurn' < LeftOfTurn
    BY Bounds, <1>0, <2>1
  <2> QED
    BY <1>1, <2>2, WithinIsNearer DEF ContextOp
<1>2. ASSUME NEW p \in Path, ResolveSnippet(p)
      PROVE  Remaining' < Remaining
  <2>1. /\ LeftOfTurn = (MaxOps - opsApplied) + (MaxSnippets - supplied)
                           + 2 * MaxActions + 5
        /\ LeftOfTurn' = (MaxOps - opsApplied) + (MaxSnippets - (supplied + 1))
                            + 2 * MaxActions + 5
    BY <1>2 DEF ResolveSnippet, LeftOfTurn
  <2>2. LeftOfTurn' \in Int /\ LeftOfTurn' < LeftOfTurn
    BY Bounds, <1>0, <2>1
  <2> QED
    BY <1>2, <2>2, WithinIsNearer DEF ResolveSnippet
<1>3. CASE ReformAndAskAgain
  BY <1>3, NextTurnIsNearer DEF ReformAndAskAgain
<1>4. CASE StartActions
  <2>1. /\ LeftOfTurn = (MaxOps - opsApplied) + (MaxSnippets - supplied)
                           + 2 * MaxActions + 5
        /\ LeftOfTurn' = 2 * (MaxActions - 0) + 4
    BY <1>4 DEF StartActions, LeftOfTurn
  <2>2. LeftOfTurn' \in Int /\ LeftOfTurn' < LeftOfTurn
    BY Bounds, <1>0, <2>1
  <2> QED
    BY <1>4, <2>2, WithinIsNearer DEF StartActions
<1> QED
  BY <1>1, <1>2, <1>3, <1>4 DEF Ops

LEMMA TopShrinks ==
  ASSUME TypeOK, BeginTurn \/ GetTurn
  PROVE  Remaining' < Remaining
<1>1. CASE pc' = "stopped"
  BY <1>1, StopIsNearer DEF BeginTurn, GetTurn
<1>2. CASE BeginTurn /\ pc' = "model" /\ UNCHANGED turn
  <2>1. LeftOfTurn = TurnWork /\ LeftOfTurn' = TurnWork - 1
    BY <1>2 DEF BeginTurn, LeftOfTurn, TurnWork
  <2>2. LeftOfTurn' \in Int /\ LeftOfTurn' < LeftOfTurn
    BY Bounds, <2>1 DEF TurnWork
  <2> QED
    BY <1>2, <2>2, WithinIsNearer DEF BeginTurn
<1>3. CASE GetTurn /\ pc' = "ops" /\ opsApplied' = 0 /\ supplied' = 0 /\ UNCHANGED turn
  <2>1. /\ LeftOfTurn = TurnWork - 1
        /\ LeftOfTurn' = (MaxOps - 0) + (MaxSnippets - 0) + 2 * MaxActions + 5
    BY <1>3 DEF GetTurn, LeftOfTurn
  <2>2. LeftOfTurn' \in Int /\ LeftOfTurn' < LeftOfTurn
    BY Bounds, <2>1 DEF TurnWork
  <2> QED
    BY <1>3, <2>2, WithinIsNearer DEF GetTurn
<1> QED
  BY <1>1, <1>2, <1>3 DEF BeginTurn, GetTurn, Stop

LEMMA ActShrinks ==
  ASSUME TypeOK, Act
  PROVE  Remaining' < Remaining
<1>0. executed \in 0..MaxActions
  BY DEF TypeOK, CountType
<1>1. ASSUME NEW kind, NEW target, ReadOnly(kind, target)
      PROVE  Remaining' < Remaining
  <2>1. CanAct(kind) /\ ActionFrame /\ UNCHANGED pc
    BY <1>1 DEF ReadOnly
  <2> QED
    BY <2>1, ActionIsNearer DEF CanAct
<1>2. ASSUME NEW q, DoResearch(q)
      PROVE  Remaining' < Remaining
  BY <1>2, ActionIsNearer DEF DoResearch, CanAct
<1>3. ASSUME NEW kind, Consult(kind) \/ ResearchRequired(kind)
      PROVE  Remaining' < Remaining
  BY <1>3, ActionIsNearer DEF Consult, ResearchRequired, CanAct
<1>4. CASE ProposeCommand
  BY <1>4, ActionIsNearer DEF ProposeCommand
<1>5. ASSUME NEW kind, NEW p, EditThrows(kind, p)
      PROVE  Remaining' < Remaining
  BY <1>5, StopIsNearer DEF EditThrows, CanEdit, CanAct, Stop
<1>6. ASSUME NEW kind, NEW p, NEW status, EditRefused(kind, p, status)
      PROVE  Remaining' < Remaining
  <2>1. CanAct(kind) /\ ActionFrame /\ UNCHANGED pc
    BY <1>6 DEF EditRefused, CanEdit
  <2> QED
    BY <2>1, ActionIsNearer DEF CanAct
<1>7. ASSUME NEW kind, NEW p, NEW after,
             EditDuplicate(kind, p, after) \/ EditProposed(kind, p, after)
      PROVE  Remaining' < Remaining
  <2>1. CanAct(kind) /\ ActionFrame /\ pc' \in {"act", "approve"}
    BY <1>7 DEF EditDuplicate, EditProposed, CanEdit, CanAct
  <2> QED
    BY <2>1, ActionIsNearer
<1>8. CASE Finish \/ EndActions
  <2>1. LeftOfTurn = 2 * (MaxActions - executed) + 4 /\ LeftOfTurn' = 3
    BY <1>8 DEF Finish, EndActions, LeftOfTurn
  <2>2. LeftOfTurn' \in Int /\ LeftOfTurn' < LeftOfTurn
    BY Bounds, <1>0, <2>1
  <2> QED
    BY <1>8, <2>2, WithinIsNearer DEF Finish, EndActions
<1> QED
  BY <1>1, <1>2, <1>3, <1>4, <1>5, <1>6, <1>7, <1>8 DEF Act, Gather, Gate, Edit

LEMMA AnswerShrinks ==
  ASSUME TypeOK, Answer
  PROVE  Remaining' < Remaining
<1>1. CASE CommitThrows
  BY <1>1, StopIsNearer DEF CommitThrows, Stop
<1>2. CASE Reject \/ RunCommand \/ Commit
  <2>1. pc = "approve" /\ pc' = "act" /\ AnswerFrame
    BY <1>2 DEF Reject, RunCommand, Commit, Approved
  <2>2. executed \in 0..MaxActions /\ UNCHANGED <<turn, executed>>
    BY <2>1 DEF TypeOK, CountType, AnswerFrame
  <2>3. /\ LeftOfTurn = 2 * (MaxActions - executed) + 5
        /\ LeftOfTurn' = 2 * (MaxActions - executed) + 4
    BY <2>1, <2>2 DEF LeftOfTurn
  <2>4. LeftOfTurn' \in Int /\ LeftOfTurn' < LeftOfTurn
    BY Bounds, <2>2, <2>3
  <2> QED
    BY <2>1, <2>2, <2>4, WithinIsNearer
<1> QED
  BY <1>1, <1>2 DEF Answer

LEMMA EndTurnShrinks ==
  ASSUME TypeOK, EndTurn
  PROVE  Remaining' < Remaining
<1>1. CASE Validate
  <2>1. LeftOfTurn = 3 /\ LeftOfTurn' = 2
    BY <1>1 DEF Validate, LeftOfTurn
  <2> QED
    BY <1>1, <2>1, WithinIsNearer DEF Validate
<1>2. CASE Complete
  BY <1>2, StopIsNearer DEF Complete, Closing, Stop
<1>3. CASE Continue
  <2>1. LeftOfTurn \in {2, 3} /\ LeftOfTurn' = 1
    BY <1>3 DEF Continue, Closing, LeftOfTurn
  <2> QED
    BY <1>3, <2>1, WithinIsNearer DEF Continue, Closing
<1>4. CASE NoActions \/ ProductiveTurn \/ ExcusedTurn \/ IdleTurn
  <2>1. pc = "guard" /\ (NextTurn \/ pc' = "stopped")
    BY <1>4 DEF NoActions, ProductiveTurn, ExcusedTurn, IdleTurn, Stop
  <2> QED
    BY <2>1, NextTurnIsNearer, StopIsNearer
<1> QED
  BY <1>1, <1>2, <1>3, <1>4 DEF EndTurn

(* What stays leaves what remains as it is. *)
LEMMA StaysRemains ==
  ASSUME Stays
  PROVE  UNCHANGED Remaining
<1>1. UNCHANGED LeftOfTurn
  BY DEF Stays, LeftOfTurn
<1> QED
  BY <1>1 DEF Stays, Remaining

LEMMA WorldStays ==
  ASSUME TypeOK, World
  PROVE  Stays /\ envVars' # envVars
<1>1. ASSUME NEW p, NEW text, ExternalChange(p, text)
      PROVE  Stays /\ envVars' # envVars
  <2>1. externals \in Nat /\ externals' = externals + 1
    BY <1>1, Bounds DEF TypeOK, FilesType, ExternalChange
  <2> QED
    BY <1>1, <2>1 DEF ExternalChange, Stays, loopVars, envVars
<1>2. CASE Interrupt
  BY <1>2 DEF Interrupt, Stays, loopVars, envVars
<1> QED
  BY <1>1, <1>2 DEF World

(***************************************************************************)
(* SessionShrinks, for any workspace, any caps and any model: with it, a   *)
(* session whose awaits settle ends after as many steps as its caps allow. *)
(***************************************************************************)
THEOREM SessionEachStepShrinks == Spec => SessionShrinks
<1>1. ASSUME TypeOK, Next, vars' # vars
      PROVE  \/ Remaining' < Remaining
             \/ UNCHANGED Remaining /\ (Supplies \/ envVars' # envVars)
  <2>1. Remaining' < Remaining \/ (Stays /\ (Supplies \/ envVars' # envVars))
    BY <1>1, SeedSupplies, OpsShrink, TopShrinks, ActShrinks, AnswerShrinks,
       EndTurnShrinks, WorldStays DEF Next, SessionStep
  <2> QED
    BY <2>1, StaysRemains
<1>2. (TypeOK => Remaining \in Nat)'
  BY RemainingIsNat, PTL
<1>3. TypeOK /\ TypeOK' /\ [Next]_vars
        => [/\ Remaining' \in Nat
            /\ \/ Remaining' < Remaining
               \/ UNCHANGED Remaining /\ (Supplies \/ envVars' # envVars)]_vars
  BY <1>1, <1>2
<1> QED
  BY SessionTypeCorrect, <1>3, PTL DEF Spec, SessionShrinks

=============================================================================
