------------------------- MODULE LMStudioChatProofs -------------------------
(***************************************************************************)
(* What holds of LMStudioChat for any number of calls and any budgets of   *)
(* retries, with or without REST: its types, the two invariants about      *)
(* transports, that the history is a conversation, and that the handler    *)
(* implements Conversation.                                                *)
(***************************************************************************)
EXTENDS LMStudioChat, SequenceTheorems, TLAPS

(* While an attempt is made there is an attempt left to count. *)
Counted == pc \in {"truncating", "requesting", "probing"} => call.attempt < MaxAttempts

TypeInv == TypeOK /\ Counted

(* The budgets are numbers, as ChatAssumption says. *)
LEMMA Budgets ==
  /\ MaxSchemaRetries \in Nat /\ MaxHangRetries \in Nat /\ MaxCalls \in Nat
  /\ MaxAttempts \in Nat /\ MaxAttempts > 0
  /\ HasRest \in BOOLEAN /\ Schemas \subseteq Schema
  BY ChatAssumption DEF MaxAttempts

(* A load leaves the handler's three flags flags. *)
LEMMA LoadType ==
  ASSUME TypeOK, Load
  PROVE  model' \in BOOLEAN /\ wsDisabled' \in BOOLEAN /\ preferRest' \in BOOLEAN
  BY DEF TypeOK, Load, handler

(* Popping and appending leave a history of entries. *)
LEMMA HistoryType ==
  ASSUME NEW h \in Seq(Entry), NEW id \in Nat
  PROVE  /\ Popped(h) \in Seq(Entry)
         /\ Append(h, Prompt(id)) \in Seq(Entry)
         /\ Append(h, Answer(id)) \in Seq(Entry)
<1>1. Prompt(id) \in Entry /\ Answer(id) \in Entry
  BY DEF Prompt, Answer, Entry
<1> QED
  BY <1>1 DEF Popped

(* A retry counts its attempt, and stays within the budgets. *)
LEMMA AgainType ==
  ASSUME call \in Call, call.attempt < MaxAttempts
  PROVE  /\ Again \in Call
         /\ \A o \in {"none"} \cup Transport :
              /\ [Again EXCEPT !.override = o] \in Call
              /\ [Again EXCEPT !.fellBack = TRUE, !.override = o] \in Call
         /\ call.hangRetries < MaxHangRetries => Turned \in Call
         /\ call.schemaRetries < MaxSchemaRetries
              => [Again EXCEPT !.schemaRetries = @ + 1] \in Call
<1> USE Budgets DEF Call, Transport
<1>1. call.attempt + 1 \in 0..MaxAttempts
  OBVIOUS
<1>2. call.hangRetries < MaxHangRetries => call.hangRetries + 1 \in 0..MaxHangRetries
  OBVIOUS
<1>3. call.schemaRetries < MaxSchemaRetries => call.schemaRetries + 1 \in 0..MaxSchemaRetries
  OBVIOUS
<1>4. Again \in Call
  BY <1>1 DEF Again
<1>5. Again.hangRetries = call.hangRetries /\ Again.schemaRetries = call.schemaRetries
  BY DEF Again
<1>6. call.hangRetries < MaxHangRetries => Turned \in Call
  BY <1>2, <1>4, <1>5 DEF Turned
<1>7. call.schemaRetries < MaxSchemaRetries => [Again EXCEPT !.schemaRetries = @ + 1] \in Call
  BY <1>3, <1>4, <1>5
<1> QED
  BY <1>4, <1>6, <1>7

-----------------------------------------------------------------------------
LEMMA TypeInit == Init => TypeInv
<1> SUFFICES ASSUME Init PROVE TypeInv
  OBVIOUS
<1>1. NewCall(0, "none", FALSE) \in Call
  BY Budgets DEF NewCall, Call, Schema, Transport
<1>2. model \in BOOLEAN /\ wsDisabled \in BOOLEAN /\ preferRest \in BOOLEAN
  BY DEF Init, Started
<1>3. history \in Seq(Entry) /\ prior \in Seq(Entry)
  BY DEF Init
<1>4. pc \in Place /\ outcome \in Outcome /\ left \subseteq Nat /\ Counted
  BY DEF Init, Place, Outcome, Counted
<1> QED
  BY <1>1, <1>2, <1>3, <1>4 DEF Init, TypeInv, TypeOK

LEMMA TypeNext == TypeInv /\ [Next]_vars => TypeInv'
<1> SUFFICES ASSUME TypeInv, [Next]_vars PROVE TypeInv'
  OBVIOUS
<1> USE Budgets
<1>0. TypeOK /\ Counted
  BY DEF TypeInv
<1>1. call \in Call /\ call.id \in Nat /\ history \in Seq(Entry) /\ prior \in Seq(Entry)
  BY <1>0 DEF TypeOK, Call
<1>2. Popped(history) \in Seq(Entry)
  BY <1>1, HistoryType
<1>3. Append(history, Prompt(call.id)) \in Seq(Entry)
  BY <1>1, HistoryType
<1>4. Append(history, Answer(call.id)) \in Seq(Entry)
  BY <1>1, HistoryType
<1>5. ASSUME NEW schema \in Schemas, NEW isolated \in BOOLEAN, ChatStream(schema, isolated)
      PROVE  TypeInv'
  <2>1. call' \in Call
    BY <1>1, <1>5 DEF ChatStream, NewCall, Call, Schema, Transport
  <2> QED
    BY <1>0, <1>5, <2>1 DEF ChatStream, TypeInv, TypeOK, Counted, Place, Outcome, handler
<1>6. CASE Attempt
  <2>1. call' \in Call /\ call'.attempt = call.attempt
    BY <1>1, <1>6 DEF Attempt, Call, Transport
  <2> QED
    BY <1>0, <1>1, <1>3, <1>6, <2>1
       DEF Attempt, Return, TypeInv, TypeOK, Counted, Place, Outcome, handler
<1>7. CASE Spent
  BY <1>0, <1>7 DEF Spent, Return, TypeInv, TypeOK, Counted, Place, Outcome, handler
<1>8. CASE Truncate
  <2>1. PICK i \in DOMAIN history : history' = SubSeq(history, i, Len(history))
    BY <1>8 DEF Truncate, Suffixes
  <2>2. history' \in Seq(Entry)
    BY <1>1, <2>1
  <2> QED
    BY <1>0, <1>8, <2>2 DEF Truncate, TypeInv, TypeOK, Counted, Place, handler
<1>9. CASE TruncateFails
  <2>1. call.attempt < MaxAttempts /\ call' = Again
    BY <1>0, <1>9 DEF TruncateFails, Counted, Again
  <2>2. call' \in Call
    BY <1>1, <2>1, AgainType
  <2> QED
    BY <1>0, <1>9, <2>2 DEF TruncateFails, TypeInv, TypeOK, Counted, Place, handler
<1>10. CASE Mend
  BY <1>0, <1>2, <1>10, LoadType DEF Mend, TypeInv, TypeOK, Counted, Place
<1>11. CASE Respond
  BY <1>0, <1>4, <1>11 DEF Respond, TypeInv, TypeOK, Counted, Place, Outcome, handler
<1>12. ASSUME NEW failure \in Failure, Catch(failure)
       PROVE  TypeInv'
  <2>1. call.attempt < MaxAttempts
    BY <1>0, <1>12 DEF Catch, Counted
  <2>2. \/ call' = call \/ call' = Again
        \/ call' = [Again EXCEPT !.fellBack = TRUE, !.override = "ws"]
        \/ RetryHang(failure) /\ call' = Turned
        \/ RetrySchema(failure) /\ call' = [Again EXCEPT !.schemaRetries = @ + 1]
    BY <1>12 DEF Catch
  <2>5. "ws" \in {"none"} \cup Transport
    BY DEF Transport
  <2>6. call' \in Call
    BY <1>1, <2>1, <2>2, <2>5, AgainType DEF RetryHang, RetrySchema
  <2>3. pc' \in Place /\ outcome' \in Outcome /\ preferRest' \in BOOLEAN
    BY <1>0, <1>12 DEF Catch, TypeOK, Place, Outcome
  <2>4. Counted'
    BY <1>12, <2>1 DEF Catch, Counted
  <2> QED
    BY <1>0, <1>2, <1>12, <2>3, <2>4, <2>6 DEF Catch, TypeInv, TypeOK
<1>13. CASE Reloaded
  BY <1>0, <1>13, LoadType DEF Reloaded, TypeInv, TypeOK, Counted, Place
<1>14. CASE Probe
  <2>1. call.attempt < MaxAttempts
    BY <1>0, <1>14 DEF Probe, Counted
  <2>2. call' \in Call
    BY <1>1, <1>14, <2>1, AgainType DEF Probe, Transport
  <2> QED
    BY <1>0, <1>14, <2>2 DEF Probe, Return, TypeInv, TypeOK, Counted, Place, Outcome
<1>15. CASE Recorded
  BY <1>0, <1>15 DEF Recorded, Return, TypeInv, TypeOK, Counted, Place, handler
<1>16. CASE EnsureLoaded
  BY <1>0, <1>16, LoadType DEF EnsureLoaded, TypeInv, TypeOK, Counted
<1>17. CASE Resume
  BY <1>0, <1>1, <1>17 DEF Resume, Started, TypeInv, TypeOK, Counted, Place, Outcome
<1>18. CASE UNCHANGED vars
  BY <1>0, <1>18 DEF vars, handler, TypeInv, TypeOK, Counted
<1>19. CASE ClearHistory
  BY <1>0, <1>1, <1>19 DEF ClearHistory, TypeInv, TypeOK, Counted, handler
<1> QED
  BY <1>5, <1>6, <1>7, <1>8, <1>9, <1>10, <1>11, <1>12, <1>13, <1>14, <1>15, <1>16,
     <1>17, <1>18, <1>19 DEF Next, Step

(***************************************************************************)
(* Every variable keeps its type: no retry of chatStream takes a counter   *)
(* past its budget, in whatever order the four kinds of retry combine.     *)
(***************************************************************************)
THEOREM ChatTypeCorrect == Spec => []TypeOK
<1>1. TypeInv => TypeOK
  BY DEF TypeInv
<1> QED
  BY TypeInit, TypeNext, <1>1, PTL DEF Spec

-----------------------------------------------------------------------------
(* Transports.                                                             *)

(***************************************************************************)
(* What HangTurns rests on: from the hang on, over the loop's top, the     *)
(* override names the other transport; whatever else failed forgets it.    *)
(***************************************************************************)
HangInv ==
  /\ pc \in {"mending", "reloading"} => call.stalled = "none"
  /\ HasRest /\ call.stalled # "none" =>
       /\ pc = "loop" => call.override # "none" /\ call.override # call.stalled
       /\ pc \in {"truncating", "requesting"} => call.transport # call.stalled \/ wsDisabled

LEMMA HangInit == Init => HangInv
  BY DEF Init, NewCall, HangInv

(* A retry for any reason forgets the hang before it, and one after a hang *)
(* turns away from where it hung.                                          *)
LEMMA StalledAfter ==
  ASSUME call \in Call
  PROVE  /\ Again.stalled = "none"
         /\ \A o : [Again EXCEPT !.override = o].stalled = "none"
         /\ [Again EXCEPT !.fellBack = TRUE, !.override = "ws"].stalled = "none"
         /\ [Again EXCEPT !.schemaRetries = @ + 1].stalled = "none"
         /\ HasRest => Turned.override # "none" /\ Turned.override # Turned.stalled
<1>1. Again.stalled = "none"
  BY DEF Again, Call
<1>2. /\ \A o : [Again EXCEPT !.override = o].stalled = "none"
      /\ [Again EXCEPT !.fellBack = TRUE, !.override = "ws"].stalled = "none"
      /\ [Again EXCEPT !.schemaRetries = @ + 1].stalled = "none"
  BY DEF Again, Call
<1>3. HasRest => Turned.override # "none" /\ Turned.override # Turned.stalled
  BY DEF Turned, Again, Call
<1> QED
  BY <1>1, <1>2, <1>3

LEMMA HangNext == TypeInv /\ HangInv /\ [Next]_vars => HangInv'
<1> SUFFICES ASSUME TypeInv, HangInv, [Next]_vars PROVE HangInv'
  OBVIOUS
<1>0. call \in Call /\ HasRest \in BOOLEAN
  BY Budgets DEF TypeInv, TypeOK
<1>1. ASSUME NEW schema \in Schemas, NEW isolated \in BOOLEAN, ChatStream(schema, isolated)
      PROVE  HangInv'
  BY <1>1 DEF ChatStream, NewCall, HangInv
<1>2. CASE Attempt
  <2>1. CASE pc' = "idle"
    BY <2>1 DEF HangInv
  <2>2. CASE pc' # "idle"
    <3>1. /\ pc = "loop" /\ pc' \in {"truncating", "requesting"} /\ UNCHANGED wsDisabled
          /\ call' = [call EXCEPT !.transport = IF UseRest THEN "rest" ELSE "ws"]
      BY <1>2, <2>2 DEF Attempt, Return, handler
    <3>2. call'.stalled = call.stalled /\ call'.transport = IF UseRest THEN "rest" ELSE "ws"
      BY <1>0, <3>1 DEF Call
    <3>3. ASSUME HasRest, call.stalled # "none"
          PROVE  call'.transport # call.stalled \/ wsDisabled
      <4>1. call.override # "none" /\ call.override # call.stalled
        BY <3>1, <3>3 DEF HangInv
      <4>2. call.override \in Transport /\ call.stalled \in Transport
        BY <1>0, <3>3, <4>1 DEF Call
      <4>3. wsDisabled \/ (UseRest <=> call.override = "rest")
        BY <3>3, <4>1 DEF UseRest
      <4> QED
        BY <3>2, <4>1, <4>2, <4>3 DEF Transport
    <3> QED
      BY <3>1, <3>2, <3>3 DEF HangInv
  <2> QED
    BY <2>1, <2>2
<1>3. CASE Spent
  BY <1>3 DEF Spent, Return, HangInv
<1>4. CASE Truncate
  BY <1>4 DEF Truncate, HangInv, handler
<1>5. CASE TruncateFails
  BY <1>0, <1>5 DEF TruncateFails, HangInv, Call
<1>6. CASE Mend \/ Reloaded
  BY <1>6 DEF Mend, Reloaded, HangInv
<1>7. CASE Respond
  BY <1>7 DEF Respond, HangInv
<1>8. ASSUME NEW failure \in Failure, Catch(failure)
      PROVE  HangInv'
  <2>1. CASE pc' \in {"probing", "recording"}
    BY <2>1 DEF HangInv
  <2>2. CASE RetryHang(failure) /\ pc' = "loop" /\ call' = Turned
    BY <1>0, <2>2, StalledAfter DEF HangInv
  <2>3. CASE /\ pc' \in {"reloading", "loop"}
             /\ \/ call' = Again
                \/ call' = [Again EXCEPT !.fellBack = TRUE, !.override = "ws"]
                \/ call' = [Again EXCEPT !.schemaRetries = @ + 1]
    <3>1. call'.stalled = "none"
      BY <1>0, <2>3, StalledAfter
    <3> QED
      BY <3>1 DEF HangInv
  <2> QED
    BY <1>8, <2>1, <2>2, <2>3 DEF Catch
<1>9. CASE Probe
  <2>1. CASE pc' = "idle"
    BY <2>1 DEF HangInv
  <2>2. CASE pc' # "idle"
    <3>1. call' = [Again EXCEPT !.override = "rest"]
      BY <1>9, <2>2 DEF Probe, Return
    <3>2. call'.stalled = "none"
      BY <1>0, <3>1, StalledAfter
    <3> QED
      BY <3>2 DEF HangInv
  <2> QED
    BY <2>1, <2>2
<1>10. CASE Recorded
  BY <1>10 DEF Recorded, Return, HangInv
<1>11. CASE EnsureLoaded \/ ClearHistory
  BY <1>11 DEF EnsureLoaded, ClearHistory, HangInv
<1>12. CASE Resume
  BY <1>12 DEF Resume, HangInv
<1>13. CASE UNCHANGED vars
  BY <1>13 DEF vars, handler, HangInv
<1> QED
  BY <1>1, <1>2, <1>3, <1>4, <1>5, <1>6, <1>7, <1>8, <1>9, <1>10, <1>11, <1>12, <1>13
     DEF Next, Step

(***************************************************************************)
(* A retry after a hang goes over the other transport, however overrides,  *)
(* preferences and fallbacks came before.                                  *)
(***************************************************************************)
THEOREM ChatHangTurns == Spec => []HangTurns
<1>1. TypeInv /\ HangInv => HangTurns
  BY Budgets DEF HangInv, HangTurns
<1> QED
  BY TypeInit, TypeNext, HangInit, HangNext, <1>1, PTL DEF Spec

(* Once the web socket is off, requests go over REST: the gate is asked    *)
(* first, and loads, which may set it, happen between requests.            *)
LEMMA DisabledNext == TypeInv /\ DisabledStaysOff /\ [Next]_vars => DisabledStaysOff'
<1> SUFFICES ASSUME TypeInv, DisabledStaysOff, [Next]_vars PROVE DisabledStaysOff'
  OBVIOUS
<1>0. call \in Call
  BY DEF TypeInv, TypeOK
<1>1. CASE Attempt
  <2>1. CASE pc' = "idle"
    BY <2>1 DEF DisabledStaysOff
  <2>2. CASE pc' # "idle"
    <3>1. /\ UNCHANGED wsDisabled
          /\ call' = [call EXCEPT !.transport = IF UseRest THEN "rest" ELSE "ws"]
      BY <1>1, <2>2 DEF Attempt, Return, handler
    <3>2. call'.transport = IF UseRest THEN "rest" ELSE "ws"
      BY <1>0, <3>1 DEF Call
    <3> QED
      BY <3>1, <3>2 DEF UseRest, DisabledStaysOff
  <2> QED
    BY <2>1, <2>2
<1>2. CASE Truncate
  BY <1>2 DEF Truncate, handler, DisabledStaysOff
<1>3. ASSUME NEW failure \in Failure, Catch(failure)
      PROVE  DisabledStaysOff'
  BY <1>3 DEF Catch, DisabledStaysOff
<1>4. CASE UNCHANGED vars
  BY <1>4 DEF vars, handler, DisabledStaysOff
<1>5. CASE EnsureLoaded \/ ClearHistory
  BY <1>5 DEF EnsureLoaded, ClearHistory, DisabledStaysOff
<1>6. CASE Spent \/ TruncateFails \/ Mend \/ Respond \/ Reloaded \/ Probe \/ Recorded \/ Resume
  BY <1>6 DEF Spent, TruncateFails, Mend, Respond, Reloaded, Probe, Recorded, Resume, Return,
              DisabledStaysOff
<1>7. ASSUME NEW schema \in Schemas, NEW isolated \in BOOLEAN, ChatStream(schema, isolated)
      PROVE  DisabledStaysOff'
  BY <1>7 DEF ChatStream, DisabledStaysOff
<1> QED
  BY <1>1, <1>2, <1>3, <1>4, <1>5, <1>6, <1>7 DEF Next, Step

(***************************************************************************)
(* A web socket turned off by a protocol warning, or by a host without     *)
(* room for the model, is not used by any later attempt if there is REST.  *)
(***************************************************************************)
THEOREM ChatDisabledStaysOff == Spec => []DisabledStaysOff
<1>1. Init => DisabledStaysOff
  BY DEF Init, DisabledStaysOff
<1> QED
  BY TypeInit, TypeNext, DisabledNext, <1>1, PTL DEF Spec

-----------------------------------------------------------------------------
(* The history is a conversation.                                          *)

(* Each answer follows its prompt, and each prompt that is not in l has    *)
(* its answer.                                                             *)
Settled(h, l) ==
  \A i \in DOMAIN h :
    IF h[i].role = "assistant"
      THEN i > 1 /\ h[i - 1] = Prompt(h[i].call)
      ELSE h[i].call \in l \/ (i < Len(h) /\ h[i + 1] = Answer(h[i].call))

(* The last entry is the prompt of call id. *)
EndsWith(h, id) == h # <<>> /\ h[Len(h)] = Prompt(id)

LEMMA SettledMore ==
  ASSUME NEW h \in Seq(Entry), NEW l, NEW m, l \subseteq m, Settled(h, l)
  PROVE  Settled(h, m)
  BY DEF Settled

LEMMA SettledEmpty == \A l : Settled(<<>>, l)
  BY DEF Settled

LEMMA PushedEntries ==
  ASSUME NEW h \in Seq(Entry), NEW e \in Entry
  PROVE  /\ Len(Append(h, e)) = Len(h) + 1
         /\ \A i \in 1..Len(h) : Append(h, e)[i] = h[i]
         /\ Append(h, e)[Len(h) + 1] = e
         /\ Append(h, e) # <<>>
         /\ Popped(Append(h, e)) = h
<1>1. Append(h, e) \in Seq(Entry) /\ Len(Append(h, e)) = Len(h) + 1
  OBVIOUS
<1>2. Append(h, e) # <<>>
  BY AppendProperties
<1>3. Popped(Append(h, e)) = SubSeq(Append(h, e), 1, Len(h))
  BY <1>1, <1>2 DEF Popped
<1> QED
  BY <1>1, <1>2, <1>3

LEMMA PartEntries ==
  ASSUME NEW h \in Seq(Entry), NEW a \in Nat \ {0}, NEW b \in Nat, b <= Len(h)
  PROVE  /\ SubSeq(h, a, b) \in Seq(Entry)
         /\ Len(SubSeq(h, a, b)) = IF a <= b THEN b - a + 1 ELSE 0
         /\ DOMAIN SubSeq(h, a, b) = 1..b - a + 1
         /\ \A i \in 1..b - a + 1 : SubSeq(h, a, b)[i] = h[i + a - 1]
<1>1. \A i \in a..b : h[i] \in Entry
  BY ElementOfSeq
<1>2. /\ SubSeq(h, a, b) \in Seq(Entry)
      /\ Len(SubSeq(h, a, b)) = IF a <= b THEN b - a + 1 ELSE 0
      /\ \A i \in 1..b - a + 1 : SubSeq(h, a, b)[i] = h[a + i - 1]
  BY <1>1, SubSeqProperties
<1>3. \A i \in 1..b - a + 1 : a + i - 1 = i + a - 1
  OBVIOUS
<1> QED
  BY <1>2, <1>3, LenProperties

LEMMA PoppedEntries ==
  ASSUME NEW h \in Seq(Entry), h # <<>>
  PROVE  /\ DOMAIN h = 1..Len(h) /\ Len(h) \in Nat \ {0}
         /\ Popped(h) \in Seq(Entry) /\ Len(Popped(h)) = Len(h) - 1
         /\ DOMAIN Popped(h) = 1..Len(h) - 1
         /\ \A i \in 1..Len(h) - 1 : Popped(h)[i] = h[i]
<1>1. DOMAIN h = 1..Len(h) /\ Len(h) \in Nat \ {0}
  BY EmptySeq, LenProperties
<1> DEFINE m == Len(h) - 1
<1>2. m \in Nat /\ m <= Len(h) /\ 1 \in Nat \ {0} /\ Popped(h) = SubSeq(h, 1, m)
  BY <1>1 DEF Popped
<1> HIDE DEF m
<1>3. m - 1 + 1 = m /\ (IF 1 <= m THEN m - 1 + 1 ELSE 0) = m /\ \A i \in 1..m : i + 1 - 1 = i
  BY <1>2
<1>4. /\ SubSeq(h, 1, m) \in Seq(Entry) /\ Len(SubSeq(h, 1, m)) = m
      /\ DOMAIN SubSeq(h, 1, m) = 1..m
      /\ \A i \in 1..m : SubSeq(h, 1, m)[i] = h[i]
  BY <1>2, <1>3, PartEntries
<1> QED
  BY <1>1, <1>2, <1>4 DEF m

(* A refused or abandoned prompt stays, and is left. *)
LEMMA SettledPushed ==
  ASSUME NEW h \in Seq(Entry), NEW id \in Nat, NEW l, Settled(h, l), id \in l
  PROVE  Settled(Append(h, Prompt(id)), l)
<1>1. Prompt(id) \in Entry /\ Prompt(id).role = "user" /\ Prompt(id).call = id
  BY DEF Prompt, Entry
<1> DEFINE g == Append(h, Prompt(id))
<1>2. /\ Len(g) = Len(h) + 1 /\ DOMAIN g = 1..Len(h) + 1 /\ DOMAIN h = 1..Len(h)
      /\ \A i \in 1..Len(h) : g[i] = h[i]
      /\ g[Len(h) + 1] = Prompt(id)
  BY <1>1, PushedEntries
<1> QED
  BY <1>1, <1>2 DEF Settled

LEMMA SettledLeft ==
  ASSUME NEW h \in Seq(Entry), NEW id \in Nat, NEW l, EndsWith(h, id),
         Settled(Popped(h), l), id \in l
  PROVE  Settled(h, l)
<1>1. Prompt(id).role = "user" /\ Prompt(id).call = id
  BY DEF Prompt
<1>2. /\ Len(h) > 0 /\ DOMAIN h = 1..Len(h) /\ DOMAIN Popped(h) = 1..Len(h) - 1
      /\ Len(Popped(h)) = Len(h) - 1
      /\ \A i \in 1..Len(h) - 1 : Popped(h)[i] = h[i]
  BY PoppedEntries DEF EndsWith
<1> QED
  BY <1>1, <1>2 DEF Settled, EndsWith

(* The answer settles its prompt. *)
LEMMA SettledAnswered ==
  ASSUME NEW h \in Seq(Entry), NEW id \in Nat, NEW l, EndsWith(h, id), Settled(Popped(h), l)
  PROVE  Settled(Append(h, Answer(id)), l)
<1>1. /\ Prompt(id).role = "user" /\ Prompt(id).call = id
      /\ Answer(id) \in Entry /\ Answer(id).role = "assistant" /\ Answer(id).call = id
  BY DEF Prompt, Answer, Entry
<1>2. /\ Len(h) > 0 /\ DOMAIN h = 1..Len(h) /\ DOMAIN Popped(h) = 1..Len(h) - 1
      /\ Len(Popped(h)) = Len(h) - 1
      /\ \A i \in 1..Len(h) - 1 : Popped(h)[i] = h[i]
  BY PoppedEntries DEF EndsWith
<1> DEFINE g == Append(h, Answer(id))
<1>3. /\ Len(g) = Len(h) + 1 /\ DOMAIN g = 1..Len(h) + 1
      /\ \A i \in 1..Len(h) : g[i] = h[i]
      /\ g[Len(h) + 1] = Answer(id)
  BY <1>1, PushedEntries
<1> SUFFICES ASSUME NEW i \in 1..Len(h) + 1
             PROVE  IF g[i].role = "assistant"
                      THEN i > 1 /\ g[i - 1] = Prompt(g[i].call)
                      ELSE g[i].call \in l \/ (i < Len(g) /\ g[i + 1] = Answer(g[i].call))
  BY <1>3 DEF Settled
<1>4. CASE i = Len(h) + 1
  <2>1. i - 1 = Len(h) /\ i - 1 \in 1..Len(h) /\ i > 1
    BY <1>2, <1>4
  <2>2. g[i] = Answer(id) /\ g[i - 1] = Prompt(id)
    BY <1>3, <1>4, <2>1 DEF EndsWith
  <2> QED
    BY <1>1, <2>1, <2>2
<1>5. CASE i = Len(h)
  <2>1. g[i] = Prompt(id) /\ g[i + 1] = Answer(id) /\ i < Len(g)
    BY <1>2, <1>3, <1>5 DEF EndsWith
  <2> QED
    BY <1>1, <2>1
<1>6. CASE i < Len(h)
  BY <1>2, <1>3, <1>6 DEF Settled
<1> QED
  BY <1>2, <1>4, <1>5, <1>6

(* g is h without its first d entries. *)
Suffix(g, h, d) == g = SubSeq(h, d + 1, Len(h))

(* A suffix, and what is before its last entry, hold the entries of the    *)
(* whole, d places on.                                                     *)
LEMMA SuffixEntries ==
  ASSUME NEW h \in Seq(Entry), NEW d \in Nat, d < Len(h),
         NEW g, Suffix(g, h, d)
  PROVE  /\ g \in Seq(Entry) /\ g # <<>> /\ Len(g) + d = Len(h) /\ g[Len(g)] = h[Len(h)]
         /\ \A i \in 1..Len(g) : i + d \in DOMAIN h /\ g[i] = h[i + d]
         /\ Len(Popped(g)) + d = Len(Popped(h))
         /\ \A i \in 1..Len(Popped(g)) : i + d \in DOMAIN Popped(h)
                                          /\ Popped(g)[i] = Popped(h)[i + d]
<1>1. DOMAIN h = 1..Len(h) /\ Len(h) \in Nat
  BY LenProperties
<1> DEFINE a == d + 1
           b == Len(h)
<1>a. a \in Nat \ {0} /\ b \in Nat /\ b <= Len(h) /\ a <= b
  BY <1>1
<1>c. g = SubSeq(h, a, b)
  BY DEF Suffix
<1> HIDE DEF a, b
<1>b. /\ g \in Seq(Entry) /\ Len(g) = b - a + 1
      /\ \A i \in 1..b - a + 1 : g[i] = h[i + a - 1]
  BY <1>a, <1>c, PartEntries
<1>2. /\ g \in Seq(Entry) /\ Len(g) = Len(h) - d
      /\ \A i \in 1..Len(h) - d : g[i] = h[i + d]
  <2>1. b - a + 1 = Len(h) - d
    BY <1>1 DEF a, b
  <2>2. \A i \in 1..Len(h) - d : i + a - 1 = i + d
    BY <1>1 DEF a
  <2> QED
    BY <1>b, <2>1, <2>2
<1>3. Len(g) \in Nat \ {0} /\ Len(g) + d = Len(h) /\ g # <<>> /\ h # <<>>
  <2>1. Len(h) \in Nat /\ Len(h) # 0
    BY <1>1
  <2>2. Len(h) - d \in Nat /\ Len(h) - d # 0 /\ (Len(h) - d) + d = Len(h)
    BY <2>1
  <2>3. g # <<>> /\ h # <<>>
    BY <1>2, <2>1, <2>2, EmptySeq
  <2> QED
    BY <1>2, <2>2, <2>3
<1>4. ASSUME NEW i \in 1..Len(g)
      PROVE  i + d \in DOMAIN h /\ g[i] = h[i + d]
  <2>1. i + d \in 1..Len(h)
    BY <1>1, <1>3
  <2> QED
    BY <1>1, <1>2, <2>1
<1>5. g[Len(g)] = h[Len(h)]
  BY <1>3, <1>4
<1>6. /\ Len(Popped(g)) = Len(g) - 1 /\ Len(Popped(h)) = Len(h) - 1
      /\ DOMAIN Popped(h) = 1..Len(h) - 1
      /\ \A i \in 1..Len(g) - 1 : Popped(g)[i] = g[i]
      /\ \A i \in 1..Len(h) - 1 : Popped(h)[i] = h[i]
  BY <1>2, <1>3, PoppedEntries
<1>7. ASSUME NEW i \in 1..Len(Popped(g))
      PROVE  i + d \in DOMAIN Popped(h) /\ Popped(g)[i] = Popped(h)[i + d]
  <2>1. i \in 1..Len(g) - 1 /\ i \in 1..Len(g) /\ i + d \in 1..Len(h) - 1
    BY <1>1, <1>3, <1>6
  <2> QED
    BY <1>4, <1>6, <2>1
<1>8. Len(Popped(g)) + d = Len(Popped(h))
  <2>0. \A x, y, z \in Int : x + y = z => (x - 1) + y = z - 1
    OBVIOUS
  <2>a. Len(g) \in Int /\ Len(h) \in Int /\ d \in Int
    BY <1>1, <1>3
  <2>1. (Len(g) - 1) + d = Len(h) - 1
    BY <1>3, <2>0, <2>a
  <2> QED
    BY <1>6, <2>1
<1> QED
  BY <1>2, <1>3, <1>4, <1>5, <1>7, <1>8

(* What a truncation leaves starts with a prompt, and ends as before. *)
LEMMA SettledSuffix ==
  ASSUME NEW h \in Seq(Entry), NEW id \in Nat, NEW l, EndsWith(h, id), Settled(Popped(h), l),
         NEW d \in Nat, d < Len(h), h[d + 1].role = "user",
         NEW g, Suffix(g, h, d)
  PROVE  EndsWith(g, id) /\ Settled(Popped(g), l)
<1> DEFINE f == Popped(h)
           q == Popped(g)
<1>1. /\ g \in Seq(Entry) /\ g # <<>> /\ g[Len(g)] = h[Len(h)]
      /\ 1 \in 1..Len(g) => g[1] = h[1 + d]
      /\ Len(q) + d = Len(f)
      /\ \A i \in 1..Len(q) : i + d \in DOMAIN f /\ q[i] = f[i + d]
  BY SuffixEntries
<1>2. EndsWith(g, id)
  BY <1>1 DEF EndsWith
<1>3. /\ f \in Seq(Entry) /\ q \in Seq(Entry) /\ Len(g) \in Nat \ {0}
      /\ Len(q) = Len(g) - 1 /\ \A i \in 1..Len(g) - 1 : q[i] = g[i]
  BY <1>1, PoppedEntries DEF EndsWith
<1>4. DOMAIN f = 1..Len(f) /\ DOMAIN q = 1..Len(q) /\ Len(f) \in Nat /\ Len(q) \in Nat
  BY <1>3, LenProperties
<1>5. 1 \in DOMAIN q => q[1].role = "user"
  <2>1. 1 \in 1..Len(g) /\ 1 + d = d + 1
    BY <1>3
  <2> QED
    BY <1>1, <1>3, <1>4, <2>1
<1>9. Settled(f, l)
  OBVIOUS
<1> HIDE DEF f, q
<1>6. ASSUME NEW i \in DOMAIN q, q[i].role = "assistant"
      PROVE  i > 1 /\ q[i - 1] = Prompt(q[i].call)
  <2> DEFINE k == i + d
  <2>1. k \in DOMAIN f /\ q[i] = f[k]
    BY <1>1, <1>4
  <2>2. f[k - 1] = Prompt(q[i].call)
    <3> HIDE DEF k
    <3> QED
      BY <1>6, <1>9, <2>1 DEF Settled
  <2>3. i # 1
    BY <1>5, <1>6
  <2>4. i - 1 \in 1..Len(q) /\ (i - 1) + d = k - 1 /\ i > 1
    BY <1>4, <2>3
  <2>5. q[i - 1] = f[(i - 1) + d]
    BY <1>1, <2>4
  <2> QED
    BY <2>2, <2>4, <2>5
<1>7. ASSUME NEW i \in DOMAIN q, q[i].role # "assistant"
      PROVE  q[i].call \in l \/ (i < Len(q) /\ q[i + 1] = Answer(q[i].call))
  <2> DEFINE k == i + d
  <2>1. k \in DOMAIN f /\ q[i] = f[k]
    BY <1>1, <1>4
  <2>2. q[i].call \in l \/ (k < Len(f) /\ f[k + 1] = Answer(q[i].call))
    <3> HIDE DEF k
    <3> QED
      BY <1>7, <1>9, <2>1 DEF Settled
  <2>3. CASE k < Len(f)
    <3>1. i + 1 \in 1..Len(q) /\ (i + 1) + d = k + 1 /\ i < Len(q)
      <4>1. Len(q) + d = Len(f)
        BY <1>1
      <4> QED
        BY <1>4, <2>3, <4>1
    <3>2. q[i + 1] = f[(i + 1) + d]
      BY <1>1, <3>1
    <3> QED
      BY <2>2, <3>1, <3>2
  <2> QED
    BY <2>2, <2>3
<1>8. Settled(q, l)
  BY <1>6, <1>7 DEF Settled
<1> QED
  BY <1>2, <1>8 DEF q

Asking == pc \in {"truncating", "requesting", "mending"}

(***************************************************************************)
(* The inductive invariant: while a prompt is asked it is the last entry,  *)
(* and what is before it is settled; at any other time the whole history   *)
(* is, and so is the one an isolated call put aside.                       *)
(***************************************************************************)
TalkInv ==
  /\ Settled(prior, left)
  /\ Asking => EndsWith(history, call.id) /\ Settled(Popped(history), left)
  /\ ~Asking => Settled(history, left)
  /\ pc \notin {"idle", "recording"} => outcome = "none"

LEMMA TalkInit == Init => TalkInv
  BY SettledEmpty DEF Init, TalkInv, Asking

(* Whatever is returned is settled, in isolation or not. *)
LEMMA TalkReturn ==
  ASSUME TalkInv, NEW h, NEW result, Return(h, result), left \subseteq left', UNCHANGED prior,
         prior \in Seq(Entry), Settled(h, left')
  PROVE  TalkInv'
<1>1. Settled(prior, left')
  BY SettledMore DEF TalkInv
<1>2. Settled(history', left')
  BY <1>1 DEF Return
<1> QED
  BY <1>1, <1>2 DEF Return, TalkInv, Asking

LEMMA TalkNext == TypeInv /\ TalkInv /\ [Next]_vars => TalkInv'
<1> SUFFICES ASSUME TypeInv, TalkInv, [Next]_vars PROVE TalkInv'
  OBVIOUS
<1>0. /\ call \in Call /\ call.id \in Nat /\ history \in Seq(Entry) /\ prior \in Seq(Entry)
      /\ Prompt(call.id) \in Entry
  BY DEF TypeInv, TypeOK, Call, Prompt, Entry
<1>1. ASSUME NEW schema \in Schemas, NEW isolated \in BOOLEAN, ChatStream(schema, isolated)
      PROVE  TalkInv'
  BY <1>1, SettledEmpty DEF ChatStream, TalkInv, Asking
<1>2. CASE Attempt
  <2> DEFINE pushed == Append(history, Prompt(call.id))
  <2>1. Settled(history, left)
    BY <1>2 DEF Attempt, TalkInv, Asking
  <2>2. CASE Return(pushed, "refused") /\ left' = left \cup {call.id}
    <3>1. Settled(history, left')
      BY <1>0, <2>1, <2>2, SettledMore
    <3>2. Settled(pushed, left')
      BY <1>0, <2>2, <3>1, SettledPushed
    <3> QED
      BY <1>0, <1>2, <2>2, <3>2, TalkReturn DEF Attempt
  <2>3. CASE /\ history' = pushed /\ pc' \in {"requesting", "truncating"}
             /\ call' = [call EXCEPT !.transport = IF UseRest THEN "rest" ELSE "ws"]
             /\ UNCHANGED <<outcome, left>>
    <3>1. call'.id = call.id
      BY <1>0, <2>3 DEF Call
    <3>2. EndsWith(pushed, call.id) /\ Popped(pushed) = history
      BY <1>0, PushedEntries DEF EndsWith
    <3> QED
      BY <1>2, <2>1, <2>3, <3>1, <3>2 DEF Attempt, TalkInv, Asking
  <2> QED
    BY <1>2, <2>2, <2>3 DEF Attempt
<1>3. CASE Spent
  BY <1>0, <1>3, TalkReturn DEF Spent, TalkInv, Asking
<1>4. CASE Truncate
  <2>1. PICK i \in DOMAIN history : /\ history[i].role = "user"
                                    /\ history' = SubSeq(history, i, Len(history))
    BY <1>4 DEF Truncate, Suffixes
  <2> DEFINE d == i - 1
  <2>2. d \in Nat /\ d < Len(history) /\ d + 1 = i
    BY <1>0, LenProperties
  <2>3. EndsWith(history, call.id) /\ Settled(Popped(history), left)
    BY <1>4 DEF Truncate, TalkInv, Asking
  <2>4. Suffix(history', history, d)
    BY <2>1, <2>2 DEF Suffix
  <2> HIDE DEF d
  <2>5. history[d + 1].role = "user"
    BY <2>1, <2>2
  <2>6. EndsWith(history', call.id) /\ Settled(Popped(history'), left)
    BY <1>0, <2>2, <2>3, <2>4, <2>5, SettledSuffix
  <2> QED
    BY <1>4, <2>6 DEF Truncate, TalkInv, Asking
<1>5. CASE TruncateFails
  <2>1. call'.id = call.id
    BY <1>0, <1>5 DEF TruncateFails, Call
  <2> QED
    BY <1>5, <2>1 DEF TruncateFails, TalkInv, Asking
<1>6. CASE Mend \/ Reloaded
  BY <1>6 DEF Mend, Reloaded, TalkInv, Asking
<1>7. CASE Respond
  <2>1. Settled(history', left)
    BY <1>0, <1>7, SettledAnswered DEF Respond, TalkInv, Asking
  <2> QED
    BY <1>7, <2>1 DEF Respond, TalkInv, Asking
<1>8. ASSUME NEW failure \in Failure, Catch(failure)
      PROVE  TalkInv'
  <2>1. /\ Asking /\ history' = Popped(history) /\ UNCHANGED <<prior, left>>
        /\ pc' \in {"reloading", "loop", "probing", "recording"}
    BY <1>8 DEF Catch, Asking
  <2>2. pc' # "recording" => outcome' = outcome
    BY <1>8 DEF Catch
  <2>3. pc \notin {"idle", "recording"}
    BY <2>1 DEF Asking
  <2> QED
    BY <2>1, <2>2, <2>3 DEF TalkInv, Asking
<1>9. CASE Probe
  <2>1. CASE Return(history, "protocol")
    BY <1>0, <1>9, <2>1, TalkReturn DEF Probe, TalkInv, Asking
  <2>2. CASE pc' = "loop" /\ UNCHANGED <<history, outcome>>
    BY <1>9, <2>2 DEF Probe, TalkInv, Asking
  <2> QED
    BY <1>9, <2>1, <2>2 DEF Probe
<1>10. CASE Recorded
  BY <1>0, <1>10, TalkReturn DEF Recorded, TalkInv, Asking
<1>11. CASE EnsureLoaded \/ ClearHistory
  BY <1>11, SettledEmpty DEF EnsureLoaded, ClearHistory, TalkInv, Asking
<1>12. CASE Resume
  <2>1. left \subseteq left' /\ UNCHANGED <<history, prior>> /\ pc' = "idle"
    BY <1>12 DEF Resume
  <2>2. Settled(prior', left')
    BY <1>0, <2>1, SettledMore DEF TalkInv
  <2>3. CASE Asking
    <3>1. call.id \in left'
      BY <1>12, <2>3 DEF Resume, TalkInv, Asking
    <3>2. Settled(Popped(history), left')
      BY <1>0, <2>1, <2>3, SettledMore, HistoryType DEF TalkInv
    <3>3. Settled(history', left')
      BY <1>0, <2>1, <2>3, <3>1, <3>2, SettledLeft DEF TalkInv
    <3> QED
      BY <2>1, <2>2, <3>3 DEF TalkInv, Asking
  <2>4. CASE ~Asking
    <3>1. Settled(history', left')
      BY <1>0, <2>1, <2>4, SettledMore DEF TalkInv
    <3> QED
      BY <2>1, <2>2, <3>1 DEF TalkInv, Asking
  <2> QED
    BY <2>3, <2>4
<1>13. CASE UNCHANGED vars
  BY <1>13 DEF vars, handler, TalkInv, Asking
<1> QED
  BY <1>1, <1>2, <1>3, <1>4, <1>5, <1>6, <1>7, <1>8, <1>9, <1>10, <1>11, <1>12, <1>13
     DEF Next, Step

LEMMA TalkSettles == TypeInv /\ TalkInv => HistoryIsConversation
<1> SUFFICES ASSUME TypeInv, TalkInv PROVE HistoryIsConversation
  OBVIOUS
<1>0. history \in Seq(Entry) /\ Prompt(call.id).role = "user" /\ Prompt(call.id).call = call.id
  BY DEF TypeInv, TypeOK, Prompt
<1>1. CASE ~Asking
  BY <1>0, <1>1 DEF TalkInv, Settled, HistoryIsConversation
<1>2. CASE Asking
  <2>1. /\ DOMAIN history = 1..Len(history) /\ Len(history) > 0
        /\ DOMAIN Popped(history) = 1..Len(history) - 1
        /\ Len(Popped(history)) = Len(history) - 1
        /\ \A i \in 1..Len(history) - 1 : Popped(history)[i] = history[i]
    BY <1>0, <1>2, PoppedEntries DEF TalkInv, EndsWith
  <2>2. EndsWith(history, call.id) /\ Settled(Popped(history), left)
    BY <1>2 DEF TalkInv
  <2> QED
    BY <1>0, <1>2, <2>1, <2>2 DEF Settled, EndsWith, HistoryIsConversation, Asking
<1> QED
  BY <1>1, <1>2

(***************************************************************************)
(* The history is a conversation: no path through chatStream pops twice,   *)
(* or not at all, or takes an answer for its prompt.                       *)
(***************************************************************************)
THEOREM ChatHistoryIsConversation == Spec => []HistoryIsConversation
  BY TypeInit, TypeNext, TalkInit, TalkNext, TalkSettles, PTL DEF Spec

-----------------------------------------------------------------------------
(* The handler implements Conversation.                                    *)

(* Entries are in the order of their calls, up to call top; a call has at  *)
(* most a prompt and an answer.                                            *)
Ordered(h, top) ==
  /\ \A i \in DOMAIN h : h[i].call \in 1..top
  /\ \A i, j \in DOMAIN h :
       i < j => \/ h[i].call < h[j].call
                \/ h[i].call = h[j].call /\ h[i].role = "user" /\ h[j].role = "assistant"

LEMMA OrderedMore ==
  ASSUME NEW h \in Seq(Entry), NEW a \in Int, NEW b \in Int, a <= b, Ordered(h, a)
  PROVE  Ordered(h, b)
  BY DEF Ordered

LEMMA OrderedEmpty == \A top : Ordered(<<>>, top)
  BY DEF Ordered

(* A part of a history is ordered as the whole is. *)
LEMMA OrderedPart ==
  ASSUME NEW h \in Seq(Entry), NEW g \in Seq(Entry), NEW top, Ordered(h, top), NEW d \in Nat,
         \A i \in 1..Len(g) : i + d \in DOMAIN h /\ g[i] = h[i + d]
  PROVE  Ordered(g, top)
<1>0. DOMAIN g = 1..Len(g) /\ DOMAIN g \subseteq Int /\ DOMAIN h \subseteq Int
  BY LenProperties
<1>1. \A i \in DOMAIN g : g[i].call \in 1..top
  BY <1>0 DEF Ordered
<1>2. ASSUME NEW i \in DOMAIN g, NEW j \in DOMAIN g, i < j
      PROVE  \/ g[i].call < g[j].call
             \/ g[i].call = g[j].call /\ g[i].role = "user" /\ g[j].role = "assistant"
  <2>1. /\ i + d \in DOMAIN h /\ j + d \in DOMAIN h /\ i + d < j + d
        /\ g[i] = h[i + d] /\ g[j] = h[j + d]
    BY <1>0, <1>2
  <2> QED
    BY <2>1 DEF Ordered
<1> QED
  BY <1>1, <1>2 DEF Ordered

LEMMA OrderedPopped ==
  ASSUME NEW h \in Seq(Entry), NEW top, Ordered(h, top)
  PROVE  Ordered(Popped(h), top)
<1>1. CASE h = <<>>
  BY <1>1 DEF Popped
<1>2. CASE h # <<>>
  <2>1. /\ Popped(h) \in Seq(Entry)
        /\ \A i \in 1..Len(Popped(h)) : i \in DOMAIN h /\ Popped(h)[i] = h[i]
    BY <1>2, PoppedEntries
  <2>2. \A i \in 1..Len(Popped(h)) : i + 0 = i
    BY <2>1, LenProperties
  <2> QED
    BY <2>1, <2>2, OrderedPart
<1> QED
  BY <1>1, <1>2

(* A new prompt, or its answer, comes last. *)
LEMMA OrderedPushed ==
  ASSUME NEW h \in Seq(Entry), NEW id \in Nat, id > 0, Ordered(h, id - 1)
  PROVE  Ordered(Append(h, Prompt(id)), id)
<1>1. Prompt(id) \in Entry /\ Prompt(id).call = id
  BY DEF Prompt, Entry
<1> DEFINE g == Append(h, Prompt(id))
<1>2. /\ DOMAIN g = 1..Len(h) + 1 /\ DOMAIN h = 1..Len(h)
      /\ \A i \in 1..Len(h) : g[i] = h[i]
      /\ g[Len(h) + 1] = Prompt(id)
  BY <1>1, PushedEntries
<1> QED
  BY <1>1, <1>2 DEF Ordered

LEMMA OrderedAnswered ==
  ASSUME NEW h \in Seq(Entry), NEW id \in Nat, id > 0, EndsWith(h, id),
         Ordered(Popped(h), id - 1)
  PROVE  Ordered(Append(h, Answer(id)), id)
<1>1. /\ Answer(id) \in Entry /\ Answer(id).call = id /\ Answer(id).role = "assistant"
      /\ Prompt(id).call = id /\ Prompt(id).role = "user"
  BY DEF Answer, Prompt, Entry
<1>2. /\ Len(h) > 0 /\ DOMAIN Popped(h) = 1..Len(h) - 1
      /\ \A i \in 1..Len(h) - 1 : Popped(h)[i] = h[i]
  BY PoppedEntries DEF EndsWith
<1> DEFINE g == Append(h, Answer(id))
<1>3. /\ DOMAIN g = 1..Len(h) + 1
      /\ \A i \in 1..Len(h) - 1 : g[i] = Popped(h)[i]
      /\ g[Len(h)] = Prompt(id)
      /\ g[Len(h) + 1] = Answer(id)
  BY <1>1, <1>2, PushedEntries DEF EndsWith
<1>4. \A i \in 1..Len(h) - 1 : g[i].call \in 1..id - 1
  BY <1>2, <1>3 DEF Ordered
<1>5. \A i \in DOMAIN g : g[i].call \in 1..id
  BY <1>1, <1>2, <1>3, <1>4
<1>6. ASSUME NEW i \in DOMAIN g, NEW j \in DOMAIN g, i < j
      PROVE  \/ g[i].call < g[j].call
             \/ g[i].call = g[j].call /\ g[i].role = "user" /\ g[j].role = "assistant"
  <2>1. CASE j <= Len(h) - 1
    BY <1>2, <1>3, <1>6, <2>1 DEF Ordered
  <2>2. CASE j = Len(h)
    BY <1>1, <1>2, <1>3, <1>4, <1>6, <2>2
  <2>3. CASE j = Len(h) + 1
    <3>1. CASE i = Len(h)
      BY <1>1, <1>3, <2>3, <3>1
    <3>2. CASE i # Len(h)
      BY <1>1, <1>2, <1>3, <1>4, <1>6, <2>3, <3>2
    <3> QED
      BY <3>1, <3>2
  <2> QED
    BY <1>2, <1>3, <2>1, <2>2, <2>3
<1> QED
  BY <1>5, <1>6 DEF Ordered

(***************************************************************************)
(* The inductive invariant of the order: a prompt that is asked is the     *)
(* newest, and whatever else there is, put aside or not, is older.         *)
(***************************************************************************)
OrderInv ==
  /\ call.id <= MaxCalls /\ (pc # "idle" => call.id > 0)
  /\ Ordered(prior, call.id)
  /\ Ordered(history, call.id)
  /\ Asking => Ordered(Popped(history), call.id - 1)
  /\ pc \in {"loop", "reloading", "probing"} => Ordered(history, call.id - 1)

LEMMA OrderInit == Init => OrderInv
  BY OrderedEmpty, Budgets DEF Init, NewCall, OrderInv, Asking

LEMMA OrderNext == TypeInv /\ TalkInv /\ OrderInv /\ [Next]_vars => OrderInv'
<1> SUFFICES ASSUME TypeInv, TalkInv, OrderInv, [Next]_vars PROVE OrderInv'
  OBVIOUS
<1> USE Budgets
<1>0. /\ call \in Call /\ call.id \in Nat /\ history \in Seq(Entry) /\ prior \in Seq(Entry)
      /\ Prompt(call.id) \in Entry
  BY DEF TypeInv, TypeOK, Call, Prompt, Entry
<1>1. ASSUME NEW schema \in Schemas, NEW isolated \in BOOLEAN, ChatStream(schema, isolated)
      PROVE  OrderInv'
  <2>1. /\ call'.id = call.id + 1 /\ call'.id <= MaxCalls /\ pc' = "loop"
        /\ prior' = history /\ history' \in {<<>>, history}
    BY <1>0, <1>1 DEF ChatStream, NewCall
  <2>2. Ordered(history', call'.id - 1) /\ Ordered(prior', call'.id - 1)
    BY <1>0, <2>1, OrderedEmpty DEF OrderInv
  <2>3. Ordered(history', call'.id) /\ Ordered(prior', call'.id)
    BY <1>0, <2>1, <2>2, OrderedMore, OrderedEmpty
  <2> QED
    BY <1>0, <2>1, <2>2, <2>3 DEF OrderInv, Asking
<1>2. CASE Attempt
  <2> DEFINE pushed == Append(history, Prompt(call.id))
  <2>1. call.id > 0 /\ Ordered(history, call.id - 1) /\ Ordered(pushed, call.id)
    BY <1>0, <1>2, OrderedPushed DEF Attempt, OrderInv
  <2>2. CASE Return(pushed, "refused") /\ UNCHANGED call
    BY <1>2, <2>1, <2>2 DEF Attempt, Return, OrderInv, Asking
  <2>3. CASE /\ history' = pushed /\ pc' \in {"requesting", "truncating"}
             /\ call' = [call EXCEPT !.transport = IF UseRest THEN "rest" ELSE "ws"]
    <3>1. call'.id = call.id
      BY <1>0, <2>3 DEF Call
    <3>2. Popped(pushed) = history
      BY <1>0, PushedEntries
    <3> QED
      BY <1>2, <2>1, <2>3, <3>1, <3>2 DEF Attempt, OrderInv, Asking
  <2> QED
    BY <1>2, <2>2, <2>3 DEF Attempt
<1>3. CASE Spent
  BY <1>3 DEF Spent, Return, OrderInv, Asking
<1>4. CASE Truncate
  <2>1. PICK j \in DOMAIN history : history' = SubSeq(history, j, Len(history))
    BY <1>4 DEF Truncate, Suffixes
  <2> DEFINE d == j - 1
  <2>2. d \in Nat /\ d < Len(history) /\ d + 1 = j /\ history # <<>>
    BY <1>0, LenProperties, EmptySeq
  <2>a. Suffix(history', history, d)
    BY <2>1, <2>2 DEF Suffix
  <2> HIDE DEF d
  <2>3. /\ history' \in Seq(Entry) /\ history' # <<>>
        /\ \A i \in 1..Len(history') : i + d \in DOMAIN history
                                       /\ history'[i] = history[i + d]
        /\ \A i \in 1..Len(Popped(history')) :
             i + d \in DOMAIN Popped(history) /\ Popped(history')[i] = Popped(history)[i + d]
    BY <1>0, <2>2, <2>a, SuffixEntries
  <2>4. Ordered(history', call.id)
    BY <1>0, <2>2, <2>3, OrderedPart DEF OrderInv
  <2>5. Popped(history) \in Seq(Entry) /\ Popped(history') \in Seq(Entry)
    BY <1>0, <2>2, <2>3, PoppedEntries
  <2>6. Ordered(Popped(history), call.id - 1)
    BY <1>4 DEF Truncate, OrderInv, Asking
  <2>7. Ordered(Popped(history'), call.id - 1)
    BY <2>2, <2>3, <2>5, <2>6, OrderedPart
  <2> QED
    BY <1>4, <2>4, <2>7 DEF Truncate, OrderInv, Asking
<1>5. CASE TruncateFails
  <2>1. call'.id = call.id
    BY <1>0, <1>5 DEF TruncateFails, Call
  <2> QED
    BY <1>5, <2>1 DEF TruncateFails, OrderInv, Asking
<1>6. CASE Mend
  <2>1. Ordered(Popped(history), call.id)
    BY <1>0, OrderedPopped DEF OrderInv
  <2> QED
    BY <1>6, <2>1 DEF Mend, OrderInv, Asking
<1>7. CASE Respond
  <2>1. Ordered(history', call.id)
    BY <1>0, <1>7, OrderedAnswered DEF Respond, OrderInv, TalkInv, Asking
  <2> QED
    BY <1>7, <2>1 DEF Respond, OrderInv, Asking
<1>8. ASSUME NEW failure \in Failure, Catch(failure)
      PROVE  OrderInv'
  <2>1. /\ Asking /\ history' = Popped(history) /\ UNCHANGED prior
        /\ pc' \in {"reloading", "loop", "probing", "recording"}
    BY <1>8 DEF Catch, Asking
  <2>2. call'.id = call.id
    BY <1>0, <1>8 DEF Catch, Again, Turned, Call
  <2>3. Ordered(Popped(history), call.id)
    BY <1>0, OrderedPopped DEF OrderInv
  <2> QED
    BY <2>1, <2>2, <2>3 DEF OrderInv, Asking
<1>9. CASE Reloaded
  BY <1>9 DEF Reloaded, OrderInv, Asking
<1>10. CASE Probe
  <2>1. CASE Return(history, "protocol") /\ UNCHANGED call
    BY <1>10, <2>1 DEF Probe, Return, OrderInv, Asking
  <2>2. CASE /\ pc' = "loop" /\ UNCHANGED <<history, outcome>>
             /\ call' = [Again EXCEPT !.override = "rest"]
    <3>1. call'.id = call.id
      BY <1>0, <2>2 DEF Again, Call
    <3> QED
      BY <1>10, <2>2, <3>1 DEF Probe, OrderInv, Asking
  <2> QED
    BY <1>10, <2>1, <2>2 DEF Probe
<1>11. CASE Recorded
  BY <1>11 DEF Recorded, Return, OrderInv, Asking
<1>12. CASE EnsureLoaded \/ ClearHistory
  BY <1>0, <1>12, OrderedEmpty DEF EnsureLoaded, ClearHistory, OrderInv, Asking
<1>13. CASE Resume
  BY <1>13 DEF Resume, OrderInv, Asking
<1>14. CASE UNCHANGED vars
  BY <1>14 DEF vars, handler, OrderInv, Asking
<1> QED
  BY <1>1, <1>2, <1>3, <1>4, <1>5, <1>6, <1>7, <1>8, <1>9, <1>10, <1>11, <1>12, <1>13,
     <1>14 DEF Next, Step

(* The exchanges of a history. *)
Answered(h) == {h[i].call : i \in {j \in DOMAIN h : h[j].role = "assistant"}}

LEMMA AnsweredPushed ==
  ASSUME NEW h \in Seq(Entry), NEW id \in Nat
  PROVE  /\ Answered(Append(h, Prompt(id))) = Answered(h)
         /\ Answered(Append(h, Answer(id))) = Answered(h) \cup {id}
<1>1. /\ Prompt(id) \in Entry /\ Prompt(id).role = "user"
      /\ Answer(id) \in Entry /\ Answer(id).role = "assistant" /\ Answer(id).call = id
  BY DEF Prompt, Answer, Entry
<1>2. ASSUME NEW e \in Entry
      PROVE  /\ DOMAIN Append(h, e) = 1..Len(h) + 1 /\ DOMAIN h = 1..Len(h)
             /\ \A i \in 1..Len(h) : Append(h, e)[i] = h[i]
             /\ Append(h, e)[Len(h) + 1] = e
  BY PushedEntries
<1>3. Answered(Append(h, Prompt(id))) = Answered(h)
  BY <1>1, <1>2 DEF Answered
<1>4. Answered(Append(h, Answer(id))) = Answered(h) \cup {id}
  BY <1>1, <1>2 DEF Answered
<1> QED
  BY <1>3, <1>4

(* The prompt that is popped had no answer. *)
LEMMA AnsweredPopped ==
  ASSUME NEW h \in Seq(Entry), NEW id, EndsWith(h, id)
  PROVE  Answered(Popped(h)) = Answered(h)
<1>1. h[Len(h)].role = "user"
  BY DEF EndsWith, Prompt
<1>2. /\ Len(h) > 0 /\ DOMAIN h = 1..Len(h) /\ DOMAIN Popped(h) = 1..Len(h) - 1
      /\ \A i \in 1..Len(h) - 1 : Popped(h)[i] = h[i]
  BY PoppedEntries DEF EndsWith
<1>3. \A i \in DOMAIN h : h[i].role = "assistant" => i \in DOMAIN Popped(h)
  BY <1>1, <1>2
<1> QED
  BY <1>2, <1>3 DEF Answered

(* A suffix that starts with a prompt holds the exchanges from it on. *)
LEMMA AnsweredSuffix ==
  ASSUME NEW h \in Seq(Entry), NEW top \in Int, Ordered(h, top),
         NEW j \in DOMAIN h, h[j].role = "user"
  PROVE  Answered(SubSeq(h, j, Len(h))) = {e \in Answered(h) : h[j].call <= e}
<1> DEFINE g == SubSeq(h, j, Len(h))
<1>1. /\ DOMAIN h = 1..Len(h) /\ DOMAIN g = 1..Len(h) - j + 1
      /\ \A i \in DOMAIN g : g[i] = h[i + j - 1] /\ i + j - 1 \in DOMAIN h /\ i + j - 1 >= j
  OBVIOUS
<1>2. \A i \in DOMAIN h : h[i].call \in Int
  BY DEF Ordered
<1>3. ASSUME NEW i \in DOMAIN h, h[i].role = "assistant"
      PROVE  h[j].call <= h[i].call <=> j <= i
  <2>1. CASE i < j
    BY <1>1, <1>2, <1>3, <2>1 DEF Ordered
  <2>2. CASE j < i
    BY <1>1, <1>2, <1>3, <2>2 DEF Ordered
  <2>3. CASE i = j
    BY <1>3, <2>3
  <2> QED
    BY <1>1, <2>1, <2>2, <2>3
<1>4. ASSUME NEW e \in Answered(g)
      PROVE  e \in Answered(h) /\ h[j].call <= e
  <2>1. PICK i \in DOMAIN g : g[i].role = "assistant" /\ e = g[i].call
    BY <1>4 DEF Answered
  <2>2. i + j - 1 \in DOMAIN h /\ h[i + j - 1].role = "assistant" /\ e = h[i + j - 1].call
    BY <1>1, <2>1
  <2> QED
    BY <1>1, <1>3, <2>2 DEF Answered
<1>5. ASSUME NEW e \in Answered(h), h[j].call <= e
      PROVE  e \in Answered(g)
  <2>1. PICK i \in DOMAIN h : h[i].role = "assistant" /\ e = h[i].call
    BY <1>5 DEF Answered
  <2>2. j <= i
    BY <1>3, <1>5, <2>1
  <2>3. i - j + 1 \in DOMAIN g /\ g[i - j + 1] = h[i]
    BY <1>1, <2>2
  <2> QED
    BY <2>1, <2>3 DEF Answered
<1> QED
  BY <1>4, <1>5

(* What is returned is kept; in isolation it is what was put aside. *)
LEMMA KeptReturned ==
  ASSUME NEW h, NEW result, Return(h, result), pc # "idle",
         Answered(h) = Answered(history)
  PROVE  Exchanged' = Exchanged
<1>1. Kept' = IF call.isolated THEN prior ELSE h
  BY DEF Kept, Return
<1>2. Kept = IF call.isolated THEN prior ELSE history
  BY DEF Kept
<1>3. Exchanged = Answered(Kept) /\ Exchanged' = Answered(Kept')
  BY DEF Exchanged, Answered
<1> QED
  BY <1>1, <1>2, <1>3

(* Within a call, only its own history changes. *)
LEMMA KeptWithin ==
  ASSUME pc # "idle", pc' # "idle", UNCHANGED prior, call'.isolated = call.isolated,
         Answered(history') = Answered(history)
  PROVE  Exchanged' = Exchanged
<1>1. Kept' = IF call.isolated THEN prior ELSE history'
  BY DEF Kept
<1>2. Kept = IF call.isolated THEN prior ELSE history
  BY DEF Kept
<1>3. Exchanged = Answered(Kept) /\ Exchanged' = Answered(Kept')
  BY DEF Exchanged, Answered
<1> QED
  BY <1>1, <1>2, <1>3

(* A step that shows nothing of the exchanges, or ends the call without one. *)
LEMMA QuietStep ==
  ASSUME Exchanged' = Exchanged, call'.id = call.id,
         pc' \notin {"idle", "recording"} => pc \notin {"idle", "recording"}
  PROVE  [C!Next]_(C!vars)
<1>1. CASE pc' \notin {"idle", "recording"} <=> pc \notin {"idle", "recording"}
  BY <1>1 DEF C!vars
<1>2. CASE pc \notin {"idle", "recording"} /\ pc' \in {"idle", "recording"}
  BY <1>2 DEF C!Next, C!Close
<1> QED
  BY <1>1, <1>2

LEMMA ChatStepImplements ==
  TypeInv /\ TalkInv /\ OrderInv /\ [Next]_vars => [C!Next]_(C!vars)
<1> SUFFICES ASSUME TypeInv, TalkInv, OrderInv, [Next]_vars PROVE [C!Next]_(C!vars)
  OBVIOUS
<1> USE Budgets
<1>0. /\ call \in Call /\ call.id \in Nat /\ history \in Seq(Entry) /\ prior \in Seq(Entry)
      /\ call.isolated \in BOOLEAN
  BY DEF TypeInv, TypeOK, Call
<1>a. Exchanged = Answered(Kept) /\ Exchanged' = Answered(Kept')
  BY DEF Exchanged, Answered
<1>1. ASSUME NEW schema \in Schemas, NEW isolated \in BOOLEAN, ChatStream(schema, isolated)
      PROVE  C!Ask
  <2>1. /\ pc = "idle" /\ pc' = "loop" /\ Kept = history
        /\ call'.isolated = isolated /\ call'.id = call.id + 1
    BY <1>1 DEF Kept, ChatStream, NewCall
  <2>2. Kept' = history
    BY <1>1, <2>1 DEF Kept, ChatStream
  <2> QED
    BY <1>a, <2>1, <2>2 DEF C!Ask
<1>2. CASE Attempt
  <2> DEFINE pushed == Append(history, Prompt(call.id))
  <2>1. Answered(pushed) = Answered(history) /\ pc = "loop"
    BY <1>0, <1>2, AnsweredPushed DEF Attempt
  <2>2. CASE Return(pushed, "refused") /\ UNCHANGED call
    <3>1. Exchanged' = Exchanged
      BY <2>1, <2>2, KeptReturned
    <3> QED
      BY <2>1, <2>2, <3>1, QuietStep
  <2>3. CASE /\ history' = pushed /\ pc' \in {"requesting", "truncating"}
             /\ call' = [call EXCEPT !.transport = IF UseRest THEN "rest" ELSE "ws"]
    <3>1. call'.isolated = call.isolated /\ call'.id = call.id /\ UNCHANGED prior
      BY <1>0, <1>2, <2>3 DEF Call, Attempt
    <3>2. Exchanged' = Exchanged
      BY <2>1, <2>3, <3>1, KeptWithin
    <3> QED
      BY <2>1, <3>1, <3>2, QuietStep
  <2> QED
    BY <1>2, <2>2, <2>3 DEF Attempt
<1>3. CASE Spent \/ Recorded
  <2>1. Exchanged' = Exchanged
    BY <1>3, KeptReturned DEF Spent, Recorded
  <2>2. pc' = "idle" /\ UNCHANGED call
    BY <1>3 DEF Spent, Recorded, Return
  <2> QED
    BY <2>1, <2>2, QuietStep
<1>4. CASE Truncate
  <2>1. PICK j \in DOMAIN history : /\ history[j].role = "user"
                                    /\ history' = SubSeq(history, j, Len(history))
    BY <1>4 DEF Truncate, Suffixes
  <2>2. CASE call.isolated
    <3>1. Kept = prior /\ Kept' = prior
      BY <1>4, <2>2 DEF Truncate, Kept
    <3> QED
      BY <1>4, <1>a, <3>1, QuietStep DEF Truncate
  <2>3. CASE ~call.isolated
    <3>1. Kept = history /\ Kept' = history'
      BY <1>4, <2>3 DEF Truncate, Kept
    <3>2. Exchanged' = {e \in Exchanged : history[j].call <= e}
      BY <1>0, <1>a, <2>1, <3>1, AnsweredSuffix DEF OrderInv
    <3>3. history[j].call \in 1..call.id
      BY DEF OrderInv, Ordered
    <3>4. C!Forget(history[j].call)
      BY <1>4, <3>2 DEF Truncate, C!Forget
    <3> QED
      BY <3>3, <3>4 DEF C!Next
  <2> QED
    BY <1>0, <2>2, <2>3
<1>5. CASE TruncateFails
  <2>1. call'.isolated = call.isolated /\ call'.id = call.id
    BY <1>0, <1>5 DEF TruncateFails, Call
  <2>2. Exchanged' = Exchanged
    BY <1>5, <2>1, KeptWithin DEF TruncateFails
  <2> QED
    BY <1>5, <2>1, <2>2, QuietStep DEF TruncateFails
<1>6. CASE Mend
  <2>1. Answered(history') = Answered(history)
    BY <1>0, <1>6, AnsweredPopped DEF Mend, TalkInv, Asking
  <2>2. Exchanged' = Exchanged
    BY <1>6, <2>1, KeptWithin DEF Mend
  <2> QED
    BY <1>6, <2>2, QuietStep DEF Mend
<1>7. CASE Respond
  <2>1. CASE call.isolated
    <3>1. Kept = prior /\ Kept' = prior
      BY <1>7, <2>1 DEF Respond, Kept
    <3> QED
      BY <1>7, <1>a, <3>1, QuietStep DEF Respond
  <2>2. CASE ~call.isolated
    <3>1. Kept = history /\ Kept' = history'
      BY <1>7, <2>2 DEF Respond, Kept
    <3>2. Exchanged' = Exchanged \cup {call.id}
      BY <1>0, <1>7, <1>a, <3>1, AnsweredPushed DEF Respond
    <3> QED
      BY <1>7, <3>2 DEF Respond, C!Next, C!Answer
  <2> QED
    BY <1>0, <2>1, <2>2
<1>8. ASSUME NEW failure \in Failure, Catch(failure)
      PROVE  [C!Next]_(C!vars)
  <2>1. /\ Asking /\ history' = Popped(history) /\ UNCHANGED prior
        /\ pc \in {"truncating", "requesting"} /\ pc' # "idle"
    BY <1>8 DEF Catch, Asking
  <2>2. call'.isolated = call.isolated /\ call'.id = call.id
    BY <1>0, <1>8 DEF Catch, Again, Turned, Call
  <2>3. Answered(history') = Answered(history)
    BY <1>0, <2>1, AnsweredPopped DEF TalkInv
  <2>4. Exchanged' = Exchanged
    BY <2>1, <2>2, <2>3, KeptWithin
  <2> QED
    BY <2>1, <2>2, <2>4, QuietStep
<1>9. CASE Reloaded
  <2>1. Exchanged' = Exchanged
    BY <1>9, KeptWithin DEF Reloaded
  <2> QED
    BY <1>9, <2>1, QuietStep DEF Reloaded
<1>10. CASE Probe
  <2>1. CASE Return(history, "protocol") /\ UNCHANGED call
    <3>1. Exchanged' = Exchanged
      BY <1>10, <2>1, KeptReturned DEF Probe
    <3> QED
      BY <1>10, <2>1, <3>1, QuietStep DEF Probe
  <2>2. CASE /\ pc' = "loop" /\ UNCHANGED <<history, outcome>>
             /\ call' = [Again EXCEPT !.override = "rest"]
    <3>1. call'.isolated = call.isolated /\ call'.id = call.id
      BY <1>0, <2>2 DEF Again, Call
    <3>2. Exchanged' = Exchanged
      BY <1>10, <2>2, <3>1, KeptWithin DEF Probe
    <3> QED
      BY <1>10, <3>1, <3>2, QuietStep DEF Probe
  <2> QED
    BY <1>10, <2>1, <2>2 DEF Probe
<1>11. CASE EnsureLoaded \/ Resume
  <2>1. Kept = history /\ Kept' = history
    BY <1>11 DEF EnsureLoaded, Resume, Kept
  <2>2. pc' = "idle" /\ UNCHANGED call
    BY <1>11 DEF EnsureLoaded, Resume
  <2> QED
    BY <1>a, <2>1, <2>2, QuietStep
<1>12. CASE UNCHANGED vars
  <2>1. Kept' = Kept
    BY <1>12 DEF vars, Kept
  <2> QED
    BY <1>12, <1>a, <2>1, QuietStep DEF vars
<1>13. CASE ClearHistory
  <2>1. Kept' = <<>> /\ pc = "idle" /\ pc' = "idle" /\ call' = call
    BY <1>13 DEF ClearHistory, Kept
  <2>2. Exchanged' = {}
    BY <1>a, <2>1 DEF Answered
  <2> QED
    BY <2>1, <2>2 DEF C!Next, C!Clear
<1> QED
  BY <1>1, <1>2, <1>3, <1>4, <1>5, <1>6, <1>7, <1>8, <1>9, <1>10, <1>11, <1>12, <1>13
     DEF Next, Step, C!Next

(***************************************************************************)
(* The handler implements a conversation: whatever fails, is retried,      *)
(* isolated or resumed, each call adds its exchange or none, and exchanges *)
(* are forgotten from the oldest on.                                       *)
(***************************************************************************)
THEOREM ChatImplementsConversation == Spec => ImplementsConversation
<1>1. Init => C!Init
  BY DEF Init, NewCall, C!Init, Exchanged, Kept
<1> QED
  BY TypeInit, TypeNext, TalkInit, TalkNext, OrderInit, OrderNext, ChatStepImplements, <1>1,
     PTL DEF Spec, ImplementsConversation, C!Spec

(***************************************************************************)
(* What the handler has of being a conversation: an exchange that was cut  *)
(* off to fit the context, or a prompt that ended without an answer, never *)
(* comes back into the history that later prompts are sent with.           *)
(***************************************************************************)
THEOREM ChatNeverAgain == Spec => []C!InOrder /\ C!NeverAgain
<1>1. call.id \in Nat /\ C!InOrder /\ [C!Next]_(C!vars) => C!InOrder'
  <2> SUFFICES ASSUME call.id \in Nat, C!InOrder, [C!Next]_(C!vars) PROVE C!InOrder'
    OBVIOUS
  <2>1. CASE C!Ask
    <3>1. call.id + 1 \notin 1..call.id /\ 1..call.id \subseteq 1..call.id + 1
      OBVIOUS
    <3> QED
      BY <2>1, <3>1 DEF C!InOrder, C!Ask
  <2>2. CASE C!Answer
    <3>1. call.id > 0 /\ call.id \in 1..call.id
      BY <2>2 DEF C!InOrder, C!Answer
    <3>2. pc' \in {"idle", "recording"} /\ call'.id = call.id
      BY <2>2 DEF C!Answer
    <3>3. Exchanged' \subseteq 1..call.id
      BY <2>2, <3>1 DEF C!InOrder, C!Answer
    <3> QED
      BY <3>2, <3>3 DEF C!InOrder
  <2>3. CASE C!Close \/ C!Clear \/ \E oldest \in 1..call.id : C!Forget(oldest)
    BY <2>3 DEF C!InOrder, C!Close, C!Clear, C!Forget
  <2>4. CASE UNCHANGED C!vars
    BY <2>4 DEF C!InOrder, C!vars
  <2> QED
    BY <2>1, <2>2, <2>3, <2>4 DEF C!Next
<1>2. [C!Next]_(C!vars)
        => [\A e \in 1..call.id :
              e \notin Exchanged /\ ~(pc \notin {"idle", "recording"} /\ e = call.id)
                => e \notin Exchanged']_(C!vars)
  BY DEF C!Next, C!vars, C!Ask, C!Answer, C!Close, C!Clear, C!Forget
<1>3. C!Init => C!InOrder
  BY DEF C!Init, C!InOrder
<1>4. TypeOK => call.id \in Nat
  BY DEF TypeOK, Call
<1> QED
  BY ChatTypeCorrect, ChatImplementsConversation, <1>1, <1>2, <1>3, <1>4, PTL
     DEF ImplementsConversation, C!Spec, C!NeverAgain

-----------------------------------------------------------------------------
(* Every call shrinks.                                                     *)

(* What remains is a number, and more than nothing while a call is made. *)
LEMMA RemainingIsNat ==
  ASSUME TypeInv
  PROVE  Remaining \in Nat /\ (pc # "idle" => Remaining > 0)
<1>1. call.attempt \in 0..MaxAttempts /\ MaxAttempts \in Nat
  BY Budgets DEF TypeInv, TypeOK, Call
<1>2. pc # "idle" => Stage \in 1..5
  BY DEF TypeInv, TypeOK, Place, Stage
<1> QED
  BY <1>1, <1>2 DEF Remaining

(* Within an attempt a call goes from stage to stage; a counted attempt is *)
(* worth more than all of them.                                            *)
LEMMA NearerWithin ==
  ASSUME TypeInv, TypeInv', pc # "idle", pc' # "idle",
         \/ call'.attempt = call.attempt /\ Stage' < Stage
         \/ call'.attempt = call.attempt + 1
  PROVE  Remaining' \in Nat /\ Remaining' < Remaining
<1>1. /\ call.attempt \in 0..MaxAttempts /\ call'.attempt \in 0..MaxAttempts
      /\ MaxAttempts \in Nat
  BY Budgets DEF TypeInv, TypeOK, Call
<1>2. Stage \in 1..5 /\ Stage' \in 1..5
  BY DEF TypeInv, TypeOK, Place, Stage
<1> QED
  BY <1>1, <1>2 DEF Remaining

LEMMA ChatShrinks ==
  ASSUME TypeInv, TypeInv', Next, pc # "idle"
  PROVE  Remaining' \in Nat /\ Remaining' < Remaining
<1>0. call \in Call /\ call.attempt \in Nat
  BY Budgets DEF TypeInv, TypeOK, Call
<1>1. CASE pc' = "idle"
  <2>1. Remaining' = 0
    BY <1>1 DEF Remaining
  <2> QED
    BY <2>1, RemainingIsNat
<1> SUFFICES ASSUME pc' # "idle" PROVE Remaining' \in Nat /\ Remaining' < Remaining
  BY <1>1
<1> SUFFICES \/ call'.attempt = call.attempt /\ Stage' < Stage
             \/ call'.attempt = call.attempt + 1
  BY NearerWithin
<1>2. CASE Attempt
  <2>1. call' = [call EXCEPT !.transport = IF UseRest THEN "rest" ELSE "ws"]
    BY <1>2 DEF Attempt, Return
  <2>2. call'.attempt = call.attempt
    BY <1>0, <2>1 DEF Call
  <2> QED
    BY <1>2, <2>2 DEF Attempt, Return, Stage
<1>3. CASE Truncate
  BY <1>3 DEF Truncate, Stage
<1>4. CASE TruncateFails
  BY <1>0, <1>4 DEF TruncateFails, Call
<1>5. CASE Mend \/ Reloaded
  BY <1>5 DEF Mend, Reloaded, Stage
<1>6. CASE Respond
  BY <1>6 DEF Respond, Stage
<1>7. ASSUME NEW failure \in Failure, Catch(failure)
      PROVE  \/ call'.attempt = call.attempt /\ Stage' < Stage
             \/ call'.attempt = call.attempt + 1
  <2>1. CASE UNCHANGED call /\ pc' \in {"probing", "recording"}
    BY <1>7, <2>1 DEF Catch, Stage
  <2>2. CASE \/ call' = Again \/ call' = Turned
             \/ call' = [Again EXCEPT !.fellBack = TRUE, !.override = "ws"]
             \/ call' = [Again EXCEPT !.schemaRetries = @ + 1]
    BY <1>0, <2>2 DEF Again, Turned, Call
  <2> QED
    BY <1>7, <2>1, <2>2 DEF Catch
<1>8. CASE Probe
  BY <1>0, <1>8 DEF Probe, Return, Again, Call
<1>9. CASE Spent \/ Recorded \/ Resume
  BY <1>9 DEF Spent, Recorded, Resume, Return
<1>10. CASE \/ EnsureLoaded \/ ClearHistory
            \/ \E schema \in Schemas, isolated \in BOOLEAN : ChatStream(schema, isolated)
  BY <1>10 DEF EnsureLoaded, ClearHistory, ChatStream
<1> QED
  BY <1>2, <1>3, <1>4, <1>5, <1>6, <1>7, <1>8, <1>9, <1>10 DEF Next, Step

(***************************************************************************)
(* Each step of a call brings it nearer to its end, for any budgets: no    *)
(* combination of reloads, fallbacks and retries of chatStream goes round  *)
(* its loop for nothing.                                                   *)
(***************************************************************************)
THEOREM ChatCallShrinks == Spec => CallShrinks
<1>1. TypeInv /\ TypeInv' /\ [Next]_vars
        => [pc # "idle" => Remaining' \in Nat /\ Remaining' < Remaining]_vars
  <2> SUFFICES ASSUME TypeInv, TypeInv', Next, pc # "idle"
               PROVE  Remaining' \in Nat /\ Remaining' < Remaining
    OBVIOUS
  <2> QED
    BY ChatShrinks
<1> QED
  BY TypeInit, TypeNext, <1>1, PTL DEF Spec, CallShrinks

=============================================================================
