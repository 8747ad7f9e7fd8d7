------------------------ MODULE DataHubWritebackProofs ------------------------
(***************************************************************************)
(* DecisionInv holds in every reachable state of DataHubWriteback, for any *)
(* callers, runs, candidates and bounds.                                   *)
(*                                                                         *)
(* The argument is about two ways to be late. A request that was sent may  *)
(* be processed at any time: so what holds of DataHub has to hold of the   *)
(* requests on their way too (UnderAuthority, TagsAfterDecision). And a    *)
(* call may save what it decided to save before another run's decision was *)
(* reported: RivalsKnown says that no call begun later comes so far,       *)
(* because it reads a tag, and with it either its own document, and ends   *)
(* with success, or another's, and ends with a conflict.                   *)
(***************************************************************************)
EXTENDS DataHubWriteback, TLAPS

\* A caller's run, and the run's candidate, have the types they are used at.
LEMMA RunOfTyped ==
  ASSUME NEW c \in Callers
  PROVE  RunOf[c] \in Runs /\ Candidate[RunOf[c]] \in Candidates
BY WritebackAssumption DEF Candidates

\* No run is called like the marks for no document and for a curator's.
LEMMA MarksAreNoRuns == "NONE" \notin Runs /\ "OTHER" \notin Runs
BY WritebackAssumption

\* Nothing is authorized, written, tagged or reported at the beginning.
LEMMA InitHolds == Init => DecisionInv
<1> SUFFICES ASSUME Init PROVE DecisionInv
  OBVIOUS
<1>1. TypeOK
  BY DEF Init, TypeOK, Idle, Steps
<1>2. CallsAuthorized
  BY DEF Init, CallsAuthorized, Idle, Writing
<1>3. UnderAuthority
  BY MarksAreNoRuns DEF Init, UnderAuthority
<1>4. TagsAfterDecision /\ TagFollowsDecision
  BY DEF Init, TagsAfterDecision, TagFollowsDecision, At, Idle
<1>5. SuccessStands /\ RivalsKnown
  BY DEF Init, SuccessStands, RivalsKnown
<1> QED
  BY <1>1, <1>2, <1>3, <1>4, <1>5 DEF DecisionInv

-----------------------------------------------------------------------------
(* The steps of a call.                                                    *)

\* The call's step reports a success: it has just read its document and tag.
Reports(c) ==
  /\ Own(c) /\ tagged
  /\ wire' = wire
  /\ \A d \in Callers : Saving(d)' => Saving(d)
  /\ succeeded' = succeeded \cup {RunOf[c]}
  /\ racing' = IF RunOf[c] \in succeeded THEN racing
               ELSE [racing EXCEPT ![RunOf[c]] = {d \in Callers : Saving(d)}]

\* What a request sent by c's step was entitled to.
Sends(c) ==
  \A q \in wire' \ wire :
    /\ q \in [by : {c}, does : {"CONSUME", "SAVE", "TAG"}]
    /\ q.does = "SAVE" => At(c, "READY")
    /\ q.does = "TAG" => At(c, "TAG")

\* What every step of c's call keeps to.
CallStep(c) ==
  /\ call' \in [Callers -> [step : Steps, consumed : BOOLEAN, document : BOOLEAN]]
  /\ \A d \in Callers : d # c => call'[d] = call[d]
  /\ authority' \in [Runs -> [consumed : BOOLEAN, lapsed : BOOLEAN]]
  /\ \A r \in Runs : authority[r].consumed => authority'[r].consumed
  /\ call'[c].consumed \/ call'[c].step \in Writing => authority'[RunOf[c]].consumed
  /\ call'[c].step = "TAG" => Own(c)
  /\ Sends(c)
  /\ Saving(c)' => Saving(c) \/ ~tagged
  /\ Reports(c) \/ UNCHANGED <<succeeded, racing>>
  /\ UNCHANGED <<document, tagged, edits>>

\* A step that keeps to it preserves the invariant.
LEMMA CallStepPreserves ==
  ASSUME DecisionInv, NEW c \in Callers, CallStep(c)
  PROVE  DecisionInv'
<1>1. TypeOK /\ CallsAuthorized /\ UnderAuthority /\ TagsAfterDecision /\ TagFollowsDecision
      /\ SuccessStands /\ RivalsKnown
  BY DEF DecisionInv
<1>2. RunOf[c] \in Runs /\ Candidate[RunOf[c]] \in Candidates
  BY RunOfTyped
<1>3. \A q \in wire' : q \notin wire => q.by = c
  BY DEF CallStep, Sends
<1>4. TypeOK'
  <2>1. wire' \subseteq [by : Callers, does : {"CONSUME", "SAVE", "TAG"}]
    BY <1>1 DEF CallStep, Sends, TypeOK
  <2>2. succeeded' \subseteq Runs /\ racing' \in [Runs -> SUBSET Callers]
    BY <1>1, <1>2 DEF CallStep, Reports, TypeOK
  <2> QED
    BY <1>1, <2>1, <2>2 DEF CallStep, TypeOK
<1>5. CallsAuthorized'
  <2> SUFFICES ASSUME NEW d \in Callers, call'[d].consumed \/ call'[d].step \in Writing
               PROVE  authority'[RunOf[d]].consumed
    BY DEF CallsAuthorized
  <2>1. CASE d = c
    BY <2>1 DEF CallStep
  <2>2. CASE d # c
    BY <1>1, <2>2, RunOfTyped DEF CallStep, CallsAuthorized
  <2> QED
    BY <2>1, <2>2
<1>6. UnderAuthority'
  <2>1. ASSUME NEW q \in wire', q.does # "CONSUME"
        PROVE  authority'[RunOf[q.by]].consumed
    <3>1. CASE q \in wire
      BY <1>1, <2>1, <3>1, RunOfTyped DEF CallStep, UnderAuthority, TypeOK
    <3>2. CASE q \notin wire
      <4>1. q.by = c /\ call[c].step \in Writing
        BY <2>1, <3>2 DEF CallStep, Sends, At, Writing
      <4> QED
        BY <1>1, <1>2, <4>1 DEF CallStep, CallsAuthorized
    <3> QED
      BY <3>1, <3>2
  <2>2. \A k \in Candidates : document'[k] \in Runs => authority'[document'[k]].consumed
    BY <1>1 DEF CallStep, UnderAuthority
  <2> QED
    BY <2>1, <2>2 DEF UnderAuthority
<1>7. TagsAfterDecision'
  <2>1. ASSUME edits' = 0, NEW d \in Callers, call'[d].step = "TAG"
        PROVE  document'[Candidate[RunOf[d]]] # "NONE"
    <3>1. CASE d = c
      BY <1>2, <2>1, <3>1, MarksAreNoRuns DEF CallStep, Own, Document
    <3>2. CASE d # c
      BY <1>1, <2>1, <3>2 DEF CallStep, TagsAfterDecision, At, Document
    <3> QED
      BY <3>1, <3>2
  <2>2. ASSUME edits' = 0, NEW q \in wire', q.does = "TAG"
        PROVE  document'[Candidate[RunOf[q.by]]] # "NONE"
    <3>1. CASE q \in wire
      BY <1>1, <2>2, <3>1 DEF CallStep, TagsAfterDecision, Document
    <3>2. CASE q \notin wire
      BY <1>1, <2>2, <3>2 DEF CallStep, Sends, TagsAfterDecision, Document
    <3> QED
      BY <3>1, <3>2
  <2> QED
    BY <2>1, <2>2 DEF TagsAfterDecision, At, Document
<1>8. TagFollowsDecision'
  BY <1>1 DEF CallStep, TagFollowsDecision
<1>9. ASSUME edits = 0, NEW r \in succeeded
      PROVE  /\ racing'[r] = racing[r]
             /\ tagged /\ document[Candidate[r]] \in Rivals(r)
             /\ \A d \in Callers : Saving(d)' => Saving(d)
  <2>1. r \in Runs /\ tagged /\ document[Candidate[r]] \in Rivals(r)
    BY <1>1, <1>9 DEF SuccessStands, TypeOK
  <2>2. racing'[r] = racing[r]
    BY <1>1, <1>9, <2>1 DEF CallStep, Reports, TypeOK
  <2>3. \A d \in Callers : Saving(d)' => Saving(d)
    <3> SUFFICES ASSUME NEW d \in Callers, Saving(d)' PROVE Saving(d)
      OBVIOUS
    <3>1. CASE d = c
      BY <2>1, <3>1 DEF CallStep
    <3>2. CASE d # c
      BY <1>3, <3>2 DEF CallStep, Saving, Request
    <3> QED
      BY <3>1, <3>2
  <2> QED
    BY <2>1, <2>2, <2>3
<1>10. ASSUME NEW r \in succeeded', r \notin succeeded
       PROVE  /\ r = RunOf[c] /\ Own(c) /\ tagged
              /\ racing'[r] = {d \in Callers : Saving(d)}
              /\ \A d \in Callers : Saving(d)' => Saving(d)
  BY <1>1, <1>2, <1>10 DEF CallStep, Reports, TypeOK
<1>11. SuccessStands'
  <2> SUFFICES ASSUME edits' = 0, NEW r \in succeeded'
               PROVE  tagged' /\ document'[Candidate[r]] \in Rivals(r)'
    BY DEF SuccessStands
  <2>0. edits = 0 /\ document' = document /\ tagged' = tagged
    BY DEF CallStep
  <2>1. CASE r \in succeeded
    BY <1>9, <2>0, <2>1 DEF Rivals
  <2>2. CASE r \notin succeeded
    BY <1>10, <2>0, <2>2 DEF Rivals, Own, Document
  <2> QED
    BY <2>1, <2>2
<1>12. RivalsKnown'
  <2> SUFFICES ASSUME edits' = 0, NEW r \in succeeded', NEW d \in Callers,
                      Saving(d)', Candidate[RunOf[d]] = Candidate[r]
               PROVE  RunOf[d] \in Rivals(r)'
    BY DEF RivalsKnown
  <2>0. edits = 0
    BY DEF CallStep
  <2>1. CASE r \in succeeded
    <3>1. Saving(d) /\ racing'[r] = racing[r]
      BY <1>9, <2>0, <2>1
    <3> QED
      BY <1>1, <2>0, <2>1, <3>1 DEF Rivals, RivalsKnown
  <2>2. CASE r \notin succeeded
    <3>1. d \in racing'[r]
      BY <1>10, <2>2
    <3> QED
      BY <3>1 DEF Rivals
  <2> QED
    BY <2>1, <2>2
<1> QED
  BY <1>4, <1>5, <1>6, <1>7, <1>8, <1>11, <1>12 DEF DecisionInv

-----------------------------------------------------------------------------
(* Every step of a call keeps to CallStep.                                 *)

\* A call that ends keeps to it, whatever else the step does to authority and
\* wire.
LEMMA EndingIsCallStep ==
  ASSUME DecisionInv, NEW c \in Callers, Ends(c),
         authority' \in [Runs -> [consumed : BOOLEAN, lapsed : BOOLEAN]],
         \A r \in Runs : authority[r].consumed => authority'[r].consumed,
         Sends(c), \A q \in wire' : q \in wire \/ q.does = "CONSUME",
         UNCHANGED <<document, tagged, edits>>
  PROVE  CallStep(c)
<1>1. TypeOK
  BY DEF DecisionInv
<1>2. call' \in [Callers -> [step : Steps, consumed : BOOLEAN, document : BOOLEAN]]
  BY <1>1 DEF TypeOK, Ends, Idle, Steps
<1>3. call'[c].step = "IDLE" /\ ~call'[c].consumed /\ \A d \in Callers : d # c => call'[d] = call[d]
  BY <1>1 DEF TypeOK, Ends, Idle
<1>4. Saving(c)' => Saving(c)
  BY <1>3 DEF Saving, Request
<1> QED
  BY <1>2, <1>3, <1>4 DEF CallStep, Ends, Writing

\* So does a call that goes to another place and sends nothing, if it was
\* entitled to write, or goes to a place before that.
LEMMA GoingIsCallStep ==
  ASSUME DecisionInv, NEW c \in Callers, NEW step \in Steps, Goes(c, step),
         step \in Writing => call[c].consumed \/ call[c].step \in Writing,
         step = "TAG" => Own(c),
         step \in {"CONSUME", "READY", "SAVING"} => Saving(c) \/ ~tagged,
         UNCHANGED <<authority, wire, document, tagged, edits>>
  PROVE  CallStep(c)
<1>1. TypeOK /\ CallsAuthorized
  BY DEF DecisionInv
<1>2. call' \in [Callers -> [step : Steps, consumed : BOOLEAN, document : BOOLEAN]]
  BY <1>1 DEF TypeOK, Goes
<1>3. /\ call'[c].step = step /\ call'[c].consumed = call[c].consumed
      /\ \A d \in Callers : d # c => call'[d] = call[d]
  BY <1>1 DEF TypeOK, Goes
<1>4. call'[c].consumed \/ call'[c].step \in Writing => authority'[RunOf[c]].consumed
  BY <1>1, <1>3 DEF CallsAuthorized
<1>5. Saving(c)' => Saving(c) \/ ~tagged
  BY <1>3 DEF Saving, Request
<1>6. Sends(c)
  BY DEF Sends
<1> QED
  BY <1>1, <1>2, <1>3, <1>4, <1>5, <1>6 DEF CallStep, Goes, TypeOK

\* A call that ends without doing anything.
LEMMA GivingUpIsCallStep ==
  ASSUME DecisionInv, NEW c \in Callers, Ends(c),
         UNCHANGED <<authority, wire, document, tagged, edits>>
  PROVE  CallStep(c)
<1>1. TypeOK
  BY DEF DecisionInv
<1>2. Sends(c)
  BY DEF Sends
<1> QED
  BY <1>1, <1>2, EndingIsCallStep DEF TypeOK

\* A call that returns a receipt of what it has just read.
LEMMA ReturningIsCallStep ==
  ASSUME DecisionInv, NEW c \in Callers, NEW proof \in BOOLEAN, Returns(c, proof),
         proof => Own(c) /\ tagged,
         UNCHANGED <<authority, wire, document, tagged, edits>>
  PROVE  CallStep(c)
<1>1. TypeOK
  BY DEF DecisionInv
<1>2. CASE proof
  <2>0. call' = [call EXCEPT ![c] = Idle]
    BY <1>2 DEF Returns
  <2>1. call' \in [Callers -> [step : Steps, consumed : BOOLEAN, document : BOOLEAN]]
    BY <1>1, <2>0 DEF TypeOK, Idle, Steps
  <2>2. /\ call'[c].step = "IDLE" /\ ~call'[c].consumed
        /\ \A d \in Callers : d # c => call'[d] = call[d]
    BY <1>1, <2>0 DEF TypeOK, Idle
  <2>3. \A d \in Callers : Saving(d)' => Saving(d)
    BY <2>2 DEF Saving
  <2>4. Reports(c)
    BY <1>2, <2>3 DEF Returns, Reports
  <2>5. Sends(c)
    BY DEF Sends
  <2> QED
    BY <1>1, <2>1, <2>2, <2>3, <2>4, <2>5 DEF CallStep, TypeOK, Writing
<1>3. CASE ~proof
  BY <1>3, GivingUpIsCallStep DEF Returns
<1> QED
  BY <1>2, <1>3

\* Begin and Verify: nothing is written, and what is verified was read.
LEMMA BeginIsCallStep ==
  ASSUME DecisionInv, NEW c \in Callers, Begin(c) PROVE CallStep(c)
<1>1. "VERIFY" \in Steps /\ "VERIFY" \notin Writing
  BY DEF Steps, Writing
<1>2. Goes(c, "VERIFY") /\ UNCHANGED <<authority, wire, document, tagged, edits>>
  BY DEF Begin
<1> QED
  BY <1>1, <1>2, GoingIsCallStep

LEMMA VerifyIsCallStep ==
  ASSUME DecisionInv, NEW c \in Callers, Verify(c) PROVE CallStep(c)
<1>1. TypeOK /\ RunOf[c] \in Runs
  BY RunOfTyped DEF DecisionInv
<1>2. authority[RunOf[c]].consumed \in BOOLEAN
  BY <1>1 DEF TypeOK
<1>3. call' \in [Callers -> [step : Steps, consumed : BOOLEAN, document : BOOLEAN]]
  BY <1>1, <1>2 DEF TypeOK, Verify, Steps
<1>4. /\ call'[c].step = "BEFORE" /\ call'[c].consumed = authority[RunOf[c]].consumed
      /\ \A d \in Callers : d # c => call'[d] = call[d]
  BY <1>1 DEF TypeOK, Verify
<1>5. Saving(c)' => Saving(c)
  BY <1>4 DEF Saving, Verify, Request
<1>6. Sends(c)
  BY DEF Sends, Verify
<1> QED
  BY <1>1, <1>3, <1>4, <1>5, <1>6 DEF CallStep, TypeOK, Verify, datahub, Writing

\* The read before the write: who goes on found no tag.
LEMMA ReadBeforeIsCallStep ==
  ASSUME DecisionInv, NEW c \in Callers, ReadBefore(c) PROVE CallStep(c)
<1>1. TypeOK /\ CallsAuthorized /\ RunOf[c] \in Runs
  BY RunOfTyped DEF DecisionInv
<1>2. UNCHANGED <<authority, wire, document, tagged, edits>>
  BY DEF ReadBefore, datahub
<1>3. CASE Refuses(c)
  BY <1>2, <1>3, GivingUpIsCallStep DEF ReadBefore
<1>4. CASE ~Refuses(c) /\ Own(c) /\ tagged
  BY <1>2, <1>4, ReturningIsCallStep DEF ReadBefore
<1>5. CASE ~Refuses(c) /\ ~(Own(c) /\ tagged)
  <2>1. ~tagged
    BY <1>5 DEF Refuses
  <2>2. CASE ~call[c].consumed
    <3>1. Goes(c, "CONSUME")
      BY <1>5, <2>2 DEF ReadBefore
    <3>2. "CONSUME" \in Steps /\ "CONSUME" \notin Writing
      BY DEF Steps, Writing
    <3> QED
      BY <1>2, <2>1, <3>1, <3>2, GoingIsCallStep
  <2>3. CASE call[c].consumed /\ Lapsed(c)
    <3>1. Returns(c, FALSE)
      BY <1>5, <2>3 DEF ReadBefore
    <3> QED
      BY <1>2, <3>1, ReturningIsCallStep
  <2>4. CASE call[c].consumed /\ ~Lapsed(c)
    <3>1. /\ call' = [call EXCEPT ![c].step = "READY", ![c].document = Own(c)]
          /\ UNCHANGED <<succeeded, racing>>
      BY <1>5, <2>4 DEF ReadBefore
    <3> DEFINE found == Own(c)
    <3>0. found \in BOOLEAN
      BY DEF Own
    <3> HIDE DEF found
    <3>2. call' \in [Callers -> [step : Steps, consumed : BOOLEAN, document : BOOLEAN]]
      <4>1. call' = [call EXCEPT ![c].step = "READY", ![c].document = found]
        BY <3>1 DEF found
      <4> QED
        BY <1>1, <3>0, <4>1 DEF TypeOK, Steps
    <3>3. /\ call'[c].step = "READY" /\ call'[c].consumed = call[c].consumed
          /\ \A d \in Callers : d # c => call'[d] = call[d]
      BY <1>1, <3>1 DEF TypeOK
    <3>4. authority[RunOf[c]].consumed
      BY <1>1, <2>4 DEF CallsAuthorized
    <3>5. Sends(c)
      BY <1>2 DEF Sends
    <3> QED
      BY <1>1, <1>2, <2>1, <3>1, <3>2, <3>3, <3>4, <3>5 DEF CallStep, TypeOK
  <2> QED
    BY <2>2, <2>3, <2>4
<1> QED
  BY <1>3, <1>4, <1>5

\* The consumption: who goes on was told that it was accepted.
LEMMA ConsumeIsCallStep ==
  ASSUME DecisionInv, NEW c \in Callers, Consume(c) PROVE CallStep(c)
<1>1. TypeOK /\ RunOf[c] \in Runs
  BY RunOfTyped DEF DecisionInv
<1>2. At(c, "CONSUME") /\ UNCHANGED <<document, tagged, edits>>
  BY DEF Consume, datahub
<1>3. CASE ~authority[RunOf[c]].consumed /\ ~Lapsed(c)
           /\ authority' = [authority EXCEPT ![RunOf[c]].consumed = TRUE]
           /\ UNCHANGED wire /\ Goes(c, "READY")
  <2>1. call' \in [Callers -> [step : Steps, consumed : BOOLEAN, document : BOOLEAN]]
    BY <1>1, <1>3 DEF TypeOK, Goes, Steps
  <2>2. /\ call'[c].step = "READY" /\ \A d \in Callers : d # c => call'[d] = call[d]
    BY <1>1, <1>3 DEF TypeOK, Goes
  <2>3. /\ authority' \in [Runs -> [consumed : BOOLEAN, lapsed : BOOLEAN]]
        /\ authority'[RunOf[c]].consumed
        /\ \A r \in Runs : authority[r].consumed => authority'[r].consumed
    BY <1>1, <1>3 DEF TypeOK
  <2>4. Saving(c)
    BY <1>2 DEF Saving, At
  <2>5. Sends(c)
    BY <1>3 DEF Sends
  <2> QED
    BY <1>2, <1>3, <2>1, <2>2, <2>3, <2>4, <2>5 DEF CallStep, Goes
<1>4. CASE authority' = [authority EXCEPT ![RunOf[c]].consumed = TRUE]
           /\ UNCHANGED wire /\ Ends(c)
  <2>1. /\ authority' \in [Runs -> [consumed : BOOLEAN, lapsed : BOOLEAN]]
        /\ \A r \in Runs : authority[r].consumed => authority'[r].consumed
    BY <1>1, <1>4 DEF TypeOK
  <2>2. Sends(c) /\ \A q \in wire' : q \in wire
    BY <1>4 DEF Sends
  <2> QED
    BY <1>2, <1>4, <2>1, <2>2, EndingIsCallStep
<1>5. CASE wire' = wire \cup {Request(c, "CONSUME")} /\ Ends(c) /\ UNCHANGED authority
  <2>1. Sends(c) /\ \A q \in wire' : q \in wire \/ q.does = "CONSUME"
    BY <1>5 DEF Sends, Request
  <2> QED
    BY <1>1, <1>2, <1>5, <2>1, EndingIsCallStep DEF TypeOK
<1> QED
  BY <1>3, <1>4, <1>5 DEF Consume

\* A call that sends a request from a place where it may, and waits.
LEMMA SendingIsCallStep ==
  ASSUME DecisionInv, NEW c \in Callers,
         NEW does \in {"SAVE", "TAG"}, NEW step \in {"SAVING", "TAGGING"},
         does = "SAVE" => At(c, "READY"), does = "TAG" => At(c, "TAG"),
         does = "TAG" <=> step = "TAGGING",
         Goes(c, step), wire' = wire \cup {Request(c, does)},
         UNCHANGED <<authority, document, tagged, edits>>
  PROVE  CallStep(c)
<1>1. TypeOK /\ CallsAuthorized
  BY DEF DecisionInv
<1>2. call' \in [Callers -> [step : Steps, consumed : BOOLEAN, document : BOOLEAN]]
  BY <1>1 DEF TypeOK, Goes, Steps
<1>3. call'[c].step = step /\ \A d \in Callers : d # c => call'[d] = call[d]
  BY <1>1 DEF TypeOK, Goes
<1>4. authority[RunOf[c]].consumed
  BY <1>1 DEF CallsAuthorized, At, Writing
<1>5. Sends(c)
  BY DEF Sends, Request
<1>6. Saving(c)' => Saving(c)
  <2>1. CASE does = "SAVE"
    BY <2>1 DEF Saving, At
  <2>2. CASE does = "TAG"
    BY <1>3, <2>2 DEF Saving, Request
  <2> QED
    BY <2>1, <2>2
<1> QED
  BY <1>1, <1>2, <1>3, <1>4, <1>5, <1>6 DEF CallStep, Goes, TypeOK

\* The save, what it settles to, and the reads that follow.
LEMMA SaveDocumentIsCallStep ==
  ASSUME DecisionInv, NEW c \in Callers, SaveDocument(c) PROVE CallStep(c)
<1>1. At(c, "READY") /\ UNCHANGED <<authority, document, tagged, edits>>
  BY DEF SaveDocument, datahub
<1>2. CASE Ends(c) /\ UNCHANGED wire
  BY <1>1, <1>2, GivingUpIsCallStep
<1>3. CASE Goes(c, "AFTER") /\ UNCHANGED wire
  <2>1. call[c].step \in Writing /\ "AFTER" \in Steps
    BY <1>1 DEF At, Writing, Steps
  <2> QED
    BY <1>1, <1>3, <2>1, GoingIsCallStep
<1>4. CASE Goes(c, "SAVING") /\ wire' = wire \cup {Request(c, "SAVE")}
  BY <1>1, <1>4, SendingIsCallStep
<1> QED
  BY <1>2, <1>3, <1>4 DEF SaveDocument

LEMMA SaveSettlesIsCallStep ==
  ASSUME DecisionInv, NEW c \in Callers, SaveSettles(c) PROVE CallStep(c)
<1>1. call[c].step \in Writing /\ "AFTER" \in Steps /\ "RECHECK" \in Steps
  BY DEF SaveSettles, At, Writing, Steps
<1>2. (Goes(c, "AFTER") \/ Goes(c, "RECHECK")) /\ UNCHANGED <<authority, wire, document, tagged, edits>>
  BY DEF SaveSettles, datahub
<1> QED
  BY <1>1, <1>2, GoingIsCallStep

LEMMA ReadDocumentIsCallStep ==
  ASSUME DecisionInv, NEW c \in Callers, ReadDocument(c) PROVE CallStep(c)
<1>1. call[c].step \in Writing /\ {"AFTER", "TAG", "FINAL"} \subseteq Steps
  BY DEF ReadDocument, Writing, Steps
<1>2. UNCHANGED <<authority, wire, document, tagged, edits>>
  BY DEF ReadDocument, datahub
<1>3. CASE Ends(c)
  BY <1>2, <1>3, GivingUpIsCallStep
<1>4. CASE Returns(c, FALSE)
  BY <1>2, <1>4, ReturningIsCallStep
<1>5. CASE Own(c) /\ (Goes(c, "AFTER") \/ Goes(c, "FINAL") \/ Goes(c, "TAG"))
  BY <1>1, <1>2, <1>5, GoingIsCallStep
<1> QED
  BY <1>3, <1>4, <1>5 DEF ReadDocument

\* The tag, and the last read.
LEMMA AddTagsIsCallStep ==
  ASSUME DecisionInv, NEW c \in Callers, AddTags(c) PROVE CallStep(c)
<1>1. At(c, "TAG") /\ UNCHANGED <<authority, document, tagged, edits>>
  BY DEF AddTags, datahub
<1>2. CASE Goes(c, "FINAL") /\ UNCHANGED wire
  <2>1. call[c].step \in Writing /\ "FINAL" \in Steps
    BY <1>1 DEF At, Writing, Steps
  <2> QED
    BY <1>1, <1>2, <2>1, GoingIsCallStep
<1>3. CASE Goes(c, "TAGGING") /\ wire' = wire \cup {Request(c, "TAG")}
  BY <1>1, <1>3, SendingIsCallStep
<1> QED
  BY <1>2, <1>3 DEF AddTags

LEMMA TagSettlesIsCallStep ==
  ASSUME DecisionInv, NEW c \in Callers, TagSettles(c) PROVE CallStep(c)
<1>1. call[c].step \in Writing /\ "FINAL" \in Steps
  BY DEF TagSettles, At, Writing, Steps
<1>2. Goes(c, "FINAL") /\ UNCHANGED <<authority, wire, document, tagged, edits>>
  BY DEF TagSettles, datahub
<1> QED
  BY <1>1, <1>2, GoingIsCallStep

LEMMA ReadFinalIsCallStep ==
  ASSUME DecisionInv, NEW c \in Callers, ReadFinal(c) PROVE CallStep(c)
<1>1. UNCHANGED <<authority, wire, document, tagged, edits>>
  BY DEF ReadFinal, datahub
<1>2. CASE Ends(c)
  BY <1>1, <1>2, GivingUpIsCallStep
<1>3. CASE Returns(c, Own(c) /\ tagged)
  <2>1. (Own(c) /\ tagged) \in BOOLEAN
    BY DEF Own
  <2> QED
    BY <1>1, <1>3, <2>1, ReturningIsCallStep
<1> QED
  BY <1>2, <1>3 DEF ReadFinal

LEMMA StepIsCallStep ==
  ASSUME DecisionInv, NEW c \in Callers, Step(c) PROVE CallStep(c)
<1>1. CASE Fails(c)
  BY <1>1, GivingUpIsCallStep DEF Fails, datahub
<1> QED
  BY <1>1, BeginIsCallStep, VerifyIsCallStep, ReadBeforeIsCallStep, ConsumeIsCallStep,
     SaveDocumentIsCallStep, SaveSettlesIsCallStep, ReadDocumentIsCallStep, AddTagsIsCallStep,
     TagSettlesIsCallStep, ReadFinalIsCallStep DEF Step

-----------------------------------------------------------------------------
(* The other steps.                                                        *)

\* A request is processed, at once or late: what it does was entitled to when
\* it was sent, and still fits when it is done.
LEMMA ProcessesPreserves ==
  ASSUME DecisionInv, Processes PROVE DecisionInv'
<1>1. TypeOK /\ CallsAuthorized /\ UnderAuthority /\ TagsAfterDecision /\ TagFollowsDecision
      /\ SuccessStands /\ RivalsKnown
  BY DEF DecisionInv
<1>2. PICK q \in wire :
        /\ wire' = wire \ {q}
        /\ authority' = IF q.does = "CONSUME" /\ ~Lapsed(q.by)
                        THEN [authority EXCEPT ![RunOf[q.by]].consumed = TRUE] ELSE authority
        /\ document' = IF q.does = "SAVE"
                       THEN [document EXCEPT ![Candidate[RunOf[q.by]]] = RunOf[q.by]] ELSE document
        /\ tagged' = (tagged \/ q.does = "TAG")
  BY DEF Processes
<1>3. UNCHANGED <<call, succeeded, racing, edits>>
  BY DEF Processes, port
<1>4. q \in [by : Callers, does : {"CONSUME", "SAVE", "TAG"}]
  BY <1>1 DEF TypeOK
<1>5. RunOf[q.by] \in Runs /\ Candidate[RunOf[q.by]] \in Candidates
  BY <1>4, RunOfTyped
<1>6. /\ authority' \in [Runs -> [consumed : BOOLEAN, lapsed : BOOLEAN]]
      /\ \A r \in Runs : authority[r].consumed => authority'[r].consumed
  BY <1>1, <1>2, <1>5 DEF TypeOK
<1>7. /\ document' \in [Candidates -> Runs \cup {"NONE", "OTHER"}]
      /\ \A k \in Candidates :
           \/ document'[k] = document[k]
           \/ q.does = "SAVE" /\ k = Candidate[RunOf[q.by]] /\ document'[k] = RunOf[q.by]
  BY <1>1, <1>2, <1>5 DEF TypeOK
<1>8. \A k \in Candidates : document[k] # "NONE" => document'[k] # "NONE"
  BY <1>5, <1>7, MarksAreNoRuns
<1>9. TypeOK'
  <2>1. tagged' \in BOOLEAN
    BY <1>2
  <2> QED
    BY <1>1, <1>2, <1>3, <1>6, <1>7, <2>1 DEF TypeOK
<1>10. CallsAuthorized'
  BY <1>1, <1>3, <1>6, RunOfTyped DEF CallsAuthorized
<1>11. UnderAuthority'
  <2>1. \A p \in wire' : p.does # "CONSUME" => authority'[RunOf[p.by]].consumed
    BY <1>1, <1>2, <1>6, RunOfTyped DEF UnderAuthority, TypeOK
  <2>2. \A k \in Candidates : document'[k] \in Runs => authority'[document'[k]].consumed
    BY <1>1, <1>5, <1>6, <1>7 DEF UnderAuthority
  <2> QED
    BY <2>1, <2>2 DEF UnderAuthority
<1>12. TagsAfterDecision'
  <2>1. ASSUME edits' = 0, NEW d \in Callers, call'[d].step = "TAG"
        PROVE  document'[Candidate[RunOf[d]]] # "NONE"
    BY <1>1, <1>3, <1>8, <2>1, RunOfTyped DEF TagsAfterDecision, At, Document
  <2>2. ASSUME edits' = 0, NEW p \in wire', p.does = "TAG"
        PROVE  document'[Candidate[RunOf[p.by]]] # "NONE"
    BY <1>1, <1>2, <1>3, <1>8, <2>2, RunOfTyped DEF TagsAfterDecision, Document, TypeOK
  <2> QED
    BY <2>1, <2>2 DEF TagsAfterDecision, At, Document
<1>13. TagFollowsDecision'
  <2> SUFFICES ASSUME tagged', edits' = 0
               PROVE  \E k \in Candidates : document'[k] # "NONE"
    BY DEF TagFollowsDecision
  <2>1. CASE tagged
    BY <1>1, <1>3, <1>8, <2>1 DEF TagFollowsDecision
  <2>2. CASE q.does = "TAG"
    BY <1>1, <1>3, <1>5, <1>8, <2>2 DEF TagsAfterDecision, Document
  <2> QED
    BY <1>2, <2>1, <2>2
<1>14. SuccessStands'
  <2> SUFFICES ASSUME edits' = 0, NEW r \in succeeded'
               PROVE  tagged' /\ document'[Candidate[r]] \in Rivals(r)'
    BY DEF SuccessStands
  <2>1. /\ edits = 0 /\ r \in succeeded /\ r \in Runs /\ Rivals(r)' = Rivals(r)
        /\ Candidate[r] \in Candidates
    BY <1>1, <1>3 DEF TypeOK, Rivals, Candidates
  <2>2. tagged /\ document[Candidate[r]] \in Rivals(r)
    BY <1>1, <2>1 DEF SuccessStands
  <2>3. CASE document'[Candidate[r]] = document[Candidate[r]]
    BY <1>2, <2>1, <2>2, <2>3
  <2>4. CASE q.does = "SAVE" /\ Candidate[r] = Candidate[RunOf[q.by]]
             /\ document'[Candidate[r]] = RunOf[q.by]
    <3>1. q = Request(q.by, "SAVE")
      BY <1>4, <2>4 DEF Request
    <3>2. q.by \in Callers /\ Saving(q.by)
      BY <1>4, <3>1 DEF Saving
    <3> QED
      BY <1>1, <1>2, <2>1, <2>2, <2>4, <3>2 DEF RivalsKnown
  <2> QED
    BY <1>7, <2>1, <2>3, <2>4
<1>15. RivalsKnown'
  <2>1. \A c \in Callers : Saving(c)' => Saving(c)
    BY <1>2, <1>3 DEF Saving
  <2>2. \A r : Rivals(r)' = Rivals(r)
    BY <1>3 DEF Rivals
  <2> QED
    BY <1>1, <1>3, <2>1, <2>2 DEF RivalsKnown
<1> QED
  BY <1>9, <1>10, <1>11, <1>12, <1>13, <1>14, <1>15 DEF DecisionInv

\* Time only takes reservations that nobody has consumed.
LEMMA TimePassesPreserves ==
  ASSUME DecisionInv, TimePasses PROVE DecisionInv'
<1>1. TypeOK /\ CallsAuthorized /\ UnderAuthority /\ TagsAfterDecision /\ TagFollowsDecision
      /\ SuccessStands /\ RivalsKnown
  BY DEF DecisionInv
<1>2. /\ UNCHANGED <<call, wire, document, tagged, edits, succeeded, racing>>
      /\ authority' \in [Runs -> [consumed : BOOLEAN, lapsed : BOOLEAN]]
      /\ \A r \in Runs : authority'[r].consumed = authority[r].consumed
  <2>1. UNCHANGED <<call, wire, document, tagged, edits, succeeded, racing>>
    BY DEF TimePasses, port, datahub
  <2>2. PICK r \in Runs : authority' = [authority EXCEPT ![r].lapsed = TRUE]
    BY DEF TimePasses
  <2>3. authority \in [Runs -> [consumed : BOOLEAN, lapsed : BOOLEAN]]
    BY <1>1 DEF TypeOK
  <2> QED
    BY <2>1, <2>2, <2>3
<1>3. TypeOK'
  BY <1>1, <1>2 DEF TypeOK
<1>4. CallsAuthorized'
  BY <1>1, <1>2, RunOfTyped DEF CallsAuthorized
<1>5. UnderAuthority'
  BY <1>1, <1>2, RunOfTyped DEF UnderAuthority, TypeOK
<1>6. TagsAfterDecision' /\ TagFollowsDecision'
  BY <1>1, <1>2 DEF TagsAfterDecision, TagFollowsDecision, At, Document
<1>7. SuccessStands' /\ RivalsKnown'
  BY <1>1, <1>2 DEF SuccessStands, RivalsKnown, Rivals, Saving
<1> QED
  BY <1>3, <1>4, <1>5, <1>6, <1>7 DEF DecisionInv

\* A curator may undo what was written, and can write no run's decision.
LEMMA CuratePreserves ==
  ASSUME DecisionInv, Curate PROVE DecisionInv'
<1>1. TypeOK /\ CallsAuthorized /\ UnderAuthority
  BY DEF DecisionInv
<1>2. /\ UNCHANGED <<authority, wire, call, succeeded, racing>>
      /\ edits' = edits + 1
      /\ tagged' \in BOOLEAN
  BY <1>1 DEF Curate, port, TypeOK
<1>3. /\ document' \in [Candidates -> Runs \cup {"NONE", "OTHER"}]
      /\ \A k \in Candidates : document'[k] \in {document[k], "NONE", "OTHER"}
  <2>1. CASE document' = document
    BY <1>1, <2>1 DEF TypeOK
  <2>2. CASE \E k \in Candidates, d \in {"NONE", "OTHER"} : document' = [document EXCEPT ![k] = d]
    BY <1>1, <2>2 DEF TypeOK
  <2> QED
    BY <2>1, <2>2 DEF Curate
<1>4. edits' \in Nat /\ edits' # 0
  BY <1>1, <1>2 DEF TypeOK
<1>5. TypeOK'
  BY <1>1, <1>2, <1>3, <1>4 DEF TypeOK
<1>6. CallsAuthorized' /\ UnderAuthority'
  BY <1>1, <1>2, <1>3, MarksAreNoRuns DEF CallsAuthorized, UnderAuthority
<1>7. TagsAfterDecision' /\ TagFollowsDecision' /\ SuccessStands' /\ RivalsKnown'
  BY <1>4 DEF TagsAfterDecision, TagFollowsDecision, SuccessStands, RivalsKnown
<1> QED
  BY <1>5, <1>6, <1>7 DEF DecisionInv

-----------------------------------------------------------------------------
(* The theorems.                                                           *)

\* DecisionInv holds in every reachable state: write makes no mutation without
\* the consumed effect, tags only after a decision, and no call begun later
\* undoes a decision that was reported as written.
THEOREM DecisionInvariant == Spec => []DecisionInv
<1>1. ASSUME DecisionInv, [Next]_vars
      PROVE  DecisionInv'
  <2>1. CASE Processes
    BY <1>1, <2>1, ProcessesPreserves
  <2>2. CASE TimePasses
    BY <1>1, <2>2, TimePassesPreserves
  <2>3. CASE Curate
    BY <1>1, <2>3, CuratePreserves
  <2>4. ASSUME NEW c \in Callers, Step(c) PROVE DecisionInv'
    BY <1>1, <2>4, StepIsCallStep, CallStepPreserves
  <2>5. CASE UNCHANGED vars
    <3>1. UNCHANGED <<authority, call, wire, document, tagged, edits, succeeded, racing>>
      BY <2>5 DEF vars, port, datahub
    <3>2. TypeOK' /\ CallsAuthorized' /\ UnderAuthority'
      BY <1>1, <3>1 DEF DecisionInv, TypeOK, CallsAuthorized, UnderAuthority
    <3>3. TagsAfterDecision' /\ TagFollowsDecision'
      BY <1>1, <3>1 DEF DecisionInv, TagsAfterDecision, TagFollowsDecision, At, Document
    <3>4. SuccessStands' /\ RivalsKnown'
      BY <1>1, <3>1 DEF DecisionInv, SuccessStands, RivalsKnown, Rivals, Saving
    <3> QED
      BY <3>2, <3>3, <3>4 DEF DecisionInv
  <2> QED
    BY <1>1, <2>1, <2>2, <2>3, <2>4, <2>5 DEF Next
<1> QED
  BY <1>1, InitHolds, PTL DEF Spec

\* Every mutation under way and every decision in DataHub is of a run whose
\* effect was consumed (consumeCurrentEffect).
THEOREM MutationsAreAuthorized == Spec => []UnderAuthority
<1>1. DecisionInv => UnderAuthority
  BY DEF DecisionInv
<1> QED
  BY <1>1, DecisionInvariant, PTL

\* A tag without a decision, which write refuses as impossible, needs a curator.
THEOREM NoTagWithoutDecision == Spec => []TagFollowsDecision
<1>1. DecisionInv => TagFollowsDecision
  BY DEF DecisionInv
<1> QED
  BY <1>1, DecisionInvariant, PTL

\* Without curators, a decision that was reported as SUCCEEDED stays, but for
\* that of a call that was already about to save then.
THEOREM ReportedDecisionsStand == Spec => []SuccessStands
<1>1. DecisionInv => SuccessStands
  BY DEF DecisionInv
<1> QED
  BY <1>1, DecisionInvariant, PTL

=============================================================================
