--------------------------- MODULE DataHubWriteback ---------------------------
(***************************************************************************)
(* LiveDataHubWritebackPort.write (packages/datahub/src/writeback.ts): the *)
(* one decision a run may write back to DataHub, made of a document, named *)
(* after the migration candidate, and then of the tag Reviewed on the      *)
(* dataset. Each is proved by reading the two back.                        *)
(*                                                                         *)
(* A run's request names the state of the dataset it was made for and the  *)
(* reservation of its effect. It may be called again after a failure, and  *)
(* by several processes. Two runs may have made the same candidate: their  *)
(* documents have one name and different contents. A mutation that was     *)
(* given up may still be done, later; curators edit document, tag and      *)
(* dataset meanwhile.                                                      *)
(***************************************************************************)
EXTENDS Naturals, TLC

CONSTANTS
  Callers,    \* processes that call the port
  RunOf,      \* caller -> the run whose request it holds
  Candidate,  \* run -> the candidate it made
  MaxCalls,   \* bound: calls of the port
  MaxEdits    \* bound: edits by curators

Runs == DOMAIN Candidate
Candidates == {Candidate[r] : r \in Runs}

ASSUME WritebackAssumption ==
  /\ RunOf \in [Callers -> Runs]
  /\ MaxCalls \in Nat /\ MaxEdits \in Nat
  /\ {"NONE", "OTHER"} \cap Runs = {}

VARIABLES
  authority,  \* run -> its reservation: consumed, and past its invokeBy?
  call,       \* caller -> where its call is, and what it has learned
  calls,      \* calls begun so far
  wire,       \* requests sent and not processed: they may be, later, or never
  document,   \* DataHub: candidate -> whose decision its document holds
  tagged,     \* DataHub: does the dataset carry the tag Reviewed?
  moved,      \* requested run -> what of the dataset moved since its request
  edits,      \* edits by curators so far
  succeeded,  \* runs with a receipt SUCCEEDED
  racing      \* history: run -> calls under way at its first such receipt

port == <<call, calls, succeeded, racing>>
datahub == <<document, tagged, moved, edits>>
vars == <<authority, wire, port, datahub>>

Request(c, does) == [by |-> c, does |-> does]

\* A process that is in no call.
Idle == [step |-> "IDLE", consumed |-> FALSE, document |-> FALSE]

\* CONTENT: ownership, terms, schema, other tags, the definition of Reviewed.
\* VERSION: what DataHub last observed, which a mutation may move too.
Parts == {"CONTENT", "VERSION"}

Init ==
  /\ authority = [r \in Runs |-> [consumed |-> FALSE, lapsed |-> FALSE]]
  /\ call = [c \in Callers |-> Idle]
  /\ calls = 0 /\ wire = {}
  /\ document = [k \in Candidates |-> "NONE"] /\ tagged = FALSE
  /\ moved = <<>> /\ edits = 0
  /\ succeeded = {} /\ racing = [r \in Runs |-> {}]

-----------------------------------------------------------------------------

At(c, step) == call[c].step = step
Lapsed(c) == authority[RunOf[c]].lapsed
Goes(c, step) == call' = [call EXCEPT ![c].step = step] /\ UNCHANGED <<succeeded, racing>>

\* The call ends without a receipt that it succeeded: with one that says
\* AMBIGUOUS, or with an error, for example a conflict.
Ends(c) == call' = [call EXCEPT ![c] = Idle] /\ UNCHANGED <<succeeded, racing>>

\* Calls that have read DataHub once and will not ask again whether the
\* document is another run's before they save, or whose save is on its way.
Saving(c) == call[c].step \in {"CONSUME", "READY", "SAVING"} \/ Request(c, "SAVE") \in wire

\* receipt: SUCCEEDED when document and tag were read. The other tags are part
\* of CONTENT, and so have not changed.
Returns(c, proof) ==
  IF proof
    THEN /\ call' = [call EXCEPT ![c] = Idle]
         /\ succeeded' = succeeded \cup {RunOf[c]}
         /\ racing' = IF RunOf[c] \in succeeded THEN racing
                      ELSE [racing EXCEPT ![RunOf[c]] = {d \in Callers : Saving(d)}]
    ELSE Ends(c)

\* The document of the request's candidate: absent, its own, or another's.
Document(c) == document[Candidate[RunOf[c]]]
Own(c) == Document(c) = RunOf[c]

\* validateSnapshot and proofState: what makes a read a conflict.
Conflict(c, parts) == moved[RunOf[c]] \cap parts # {} \/ ~(Document(c) = "NONE" \/ Own(c))

-----------------------------------------------------------------------------
(* write                                                                   *)

\* The request is made from a read of the dataset, once per run.
Begin(c) ==
  /\ call[c] = Idle
  /\ calls < MaxCalls /\ calls' = calls + 1
  /\ moved' = IF RunOf[c] \in DOMAIN moved THEN moved ELSE moved @@ (RunOf[c] :> {})
  /\ Goes(c, "VERIFY")
  /\ UNCHANGED <<authority, wire, document, tagged, edits>>

\* verifyCurrentEffectReservation; one that is past its time and was never
\* consumed is not current.
Verify(c) ==
  /\ At(c, "VERIFY")
  /\ authority[RunOf[c]].consumed \/ ~Lapsed(c)
  /\ call' = [call EXCEPT ![c].step = "BEFORE", ![c].consumed = authority[RunOf[c]].consumed]
  /\ UNCHANGED <<authority, wire, calls, succeeded, racing, datahub>>

\* What the read before the write may not show: a conflict, a tag without this
\* decision, or either of them before the effect was consumed.
Refuses(c) ==
  \/ Conflict(c, Parts)
  \/ tagged /\ ~Own(c)
  \/ ~call[c].consumed /\ (Own(c) \/ tagged)

\* One call of get_entities reads the dataset, the document and the tag.
ReadBefore(c) ==
  /\ At(c, "BEFORE")
  /\ IF Refuses(c) THEN Ends(c)
     ELSE IF Own(c) /\ tagged THEN Returns(c, TRUE)
     ELSE IF ~call[c].consumed THEN Goes(c, "CONSUME")
     ELSE IF Lapsed(c) THEN Returns(c, FALSE)
     ELSE /\ call' = [call EXCEPT ![c].step = "READY", ![c].document = Own(c)]
          /\ UNCHANGED <<succeeded, racing>>
  /\ UNCHANGED <<authority, wire, calls, datahub>>

\* consumeCurrentEffect, accepted once. A lost or late answer is an error.
Consume(c) ==
  /\ At(c, "CONSUME")
  /\ \/ /\ ~authority[RunOf[c]].consumed /\ ~Lapsed(c)
        /\ authority' = [authority EXCEPT ![RunOf[c]].consumed = TRUE]
        /\ \E answered \in BOOLEAN :
             IF answered THEN Goes(c, "READY") ELSE Ends(c)
        /\ UNCHANGED wire
     \/ /\ wire' = wire \cup {Request(c, "CONSUME")}
        /\ Ends(c)
        /\ UNCHANGED authority
  /\ UNCHANGED <<calls, datahub>>

\* Nothing is sent after invokeBy.
SaveDocument(c) ==
  /\ At(c, "READY")
  /\ IF Lapsed(c) THEN Ends(c) /\ UNCHANGED wire
     ELSE IF call[c].document THEN Goes(c, "AFTER") /\ UNCHANGED wire
     ELSE Goes(c, "SAVING") /\ wire' = wire \cup {Request(c, "SAVE")}
  /\ UNCHANGED <<authority, calls, datahub>>

\* A success is read back; after a timeout or a malformed answer the document
\* is looked for.
SaveSettles(c) ==
  /\ At(c, "SAVING")
  /\ \/ Request(c, "SAVE") \notin wire /\ Goes(c, "AFTER")
     \/ Goes(c, "RECHECK")
  /\ UNCHANGED <<authority, wire, calls, datahub>>

\* Variant: what a timed out save left behind is not looked at.
ReadDocumentUnproved(c) ==
  /\ call[c].step \in {"RECHECK", "AFTER"}
  /\ IF Conflict(c, {"CONTENT"}) THEN Ends(c)
     ELSE IF At(c, "RECHECK") THEN Goes(c, "AFTER")
     ELSE Goes(c, IF tagged THEN "FINAL" ELSE "TAG")
  /\ UNCHANGED <<authority, wire, calls, datahub>>

\* Both read, and go on only with the document in place.
ReadDocument(c) ==
  /\ call[c].step \in {"RECHECK", "AFTER"}
  /\ IF Conflict(c, {"CONTENT"}) THEN Ends(c)
     ELSE IF ~Own(c) THEN Returns(c, FALSE)
     ELSE IF At(c, "RECHECK") THEN Goes(c, "AFTER")
     ELSE Goes(c, IF tagged THEN "FINAL" ELSE "TAG")
  /\ UNCHANGED <<authority, wire, calls, datahub>>

\* Whatever add_tags answers, and also when it is too late to send it, the
\* final read decides.
AddTags(c) ==
  /\ At(c, "TAG")
  /\ IF Lapsed(c) THEN Goes(c, "FINAL") /\ UNCHANGED wire
     ELSE Goes(c, "TAGGING") /\ wire' = wire \cup {Request(c, "TAG")}
  /\ UNCHANGED <<authority, calls, datahub>>

TagSettles(c) ==
  /\ At(c, "TAGGING")
  /\ Goes(c, "FINAL")
  /\ UNCHANGED <<authority, wire, calls, datahub>>

ReadFinal(c) ==
  /\ At(c, "FINAL")
  /\ IF Conflict(c, {"CONTENT"}) THEN Ends(c) ELSE Returns(c, Own(c) /\ tagged)
  /\ UNCHANGED <<authority, wire, calls, datahub>>

\* A read, a session or the authority fails, save_document is refused, or the
\* process dies.
Fails(c) ==
  /\ call[c] # Idle
  /\ Ends(c)
  /\ UNCHANGED <<authority, wire, calls, datahub>>

-----------------------------------------------------------------------------
(* The authority, DataHub and its curators.                                *)

Moves(parts) == moved' = [r \in DOMAIN moved |-> moved[r] \cup parts]

\* Both mutations say what to have, and not what to change: done twice, they
\* leave what they leave done once. They may move the version.
Processes ==
  /\ \E q \in wire :
       /\ wire' = wire \ {q}
       /\ authority' = IF q.does = "CONSUME" /\ ~Lapsed(q.by)
                       THEN [authority EXCEPT ![RunOf[q.by]].consumed = TRUE] ELSE authority
       /\ document' = IF q.does = "SAVE"
                      THEN [document EXCEPT ![Candidate[RunOf[q.by]]] = RunOf[q.by]] ELSE document
       /\ tagged' = (tagged \/ q.does = "TAG")
       /\ \E parts \in IF q.does = "CONSUME" THEN {{}} ELSE {{}, {"VERSION"}} : Moves(parts)
  /\ UNCHANGED <<port, edits>>

TimePasses ==
  /\ \E r \in Runs : ~authority[r].lapsed /\ authority' = [authority EXCEPT ![r].lapsed = TRUE]
  /\ UNCHANGED <<wire, port, datahub>>

Curate ==
  /\ edits < MaxEdits /\ edits' = edits + 1
  /\ \/ /\ tagged' = FALSE
        /\ UNCHANGED document
        /\ Moves({"VERSION"})
     \/ /\ \E k \in Candidates, d \in {"NONE", "OTHER"} : document' = [document EXCEPT ![k] = d]
        /\ UNCHANGED <<tagged, moved>>
     \/ /\ \E parts \in SUBSET Parts : Moves(parts)
        /\ UNCHANGED <<tagged, document>>
  /\ UNCHANGED <<authority, wire, port>>

-----------------------------------------------------------------------------

Step(c) == \/ Begin(c) \/ Verify(c) \/ ReadBefore(c) \/ Consume(c) \/ SaveDocument(c)
           \/ SaveSettles(c) \/ ReadDocument(c) \/ AddTags(c) \/ TagSettles(c) \/ ReadFinal(c)
           \/ Fails(c)

Next == Processes \/ TimePasses \/ Curate \/ \E c \in Callers : Step(c)

Spec == Init /\ [][Next]_vars

-----------------------------------------------------------------------------

(* Properties.                                                             *)

Steps == {"IDLE", "VERIFY", "BEFORE", "CONSUME", "READY", "SAVING", "RECHECK", "AFTER", "TAG",
          "TAGGING", "FINAL"}

\* Past the consumption.
Writing == {"READY", "SAVING", "RECHECK", "AFTER", "TAG", "TAGGING", "FINAL"}

\* The types of what write keeps and of what DataHub holds.
TypeOK ==
  /\ authority \in [Runs -> [consumed : BOOLEAN, lapsed : BOOLEAN]]
  /\ call \in [Callers -> [step : Steps, consumed : BOOLEAN, document : BOOLEAN]]
  /\ wire \subseteq [by : Callers, does : {"CONSUME", "SAVE", "TAG"}]
  /\ document \in [Candidates -> Runs \cup {"NONE", "OTHER"}]
  /\ tagged \in BOOLEAN /\ edits \in Nat
  /\ succeeded \subseteq Runs
  /\ racing \in [Runs -> SUBSET Callers]

\* A call goes past the consumption only when the effect was consumed.
CallsAuthorized ==
  \A c \in Callers :
    call[c].consumed \/ call[c].step \in Writing => authority[RunOf[c]].consumed

\* A decision or a mutation under way is of a run whose effect was consumed
\* (consumeCurrentEffect before save_document).
UnderAuthority ==
  /\ \A q \in wire : q.does # "CONSUME" => authority[RunOf[q.by]].consumed
  /\ \A k \in Candidates : document[k] \in Runs => authority[document[k]].consumed

\* Without curators, what tags the dataset, or is about to, has seen a
\* decision on its candidate.
TagsAfterDecision ==
  edits = 0 =>
    /\ \A c \in Callers : At(c, "TAG") => Document(c) # "NONE"
    /\ \A q \in wire : q.does = "TAG" => Document(q.by) # "NONE"

\* Without curators there is no tag without a decision: the state that write
\* calls impossible and refuses.
TagFollowsDecision == tagged /\ edits = 0 => \E k \in Candidates : document[k] # "NONE"

\* The runs whose document may be found in the place of r's.
Rivals(r) == {r} \cup {RunOf[c] : c \in racing[r]}

\* Without curators a decision whose receipt says SUCCEEDED stays, however
\* late or often the requests of its calls arrive; only a call of another run
\* with the same candidate that was under way at that moment can replace it.
SuccessStands ==
  edits = 0 => \A r \in succeeded : tagged /\ document[Candidate[r]] \in Rivals(r)

\* Nobody who has not read DataHub at that moment comes to save there.
RivalsKnown ==
  edits = 0 => \A r \in succeeded, c \in Callers :
    Saving(c) /\ Candidate[RunOf[c]] = Candidate[r] => RunOf[c] \in Rivals(r)

\* What write keeps to, whatever its calls lose and however they interleave:
\* no mutation without the consumed effect, the tag only after a decision, and
\* no reported decision undone by a call begun later; with what makes it
\* inductive.
DecisionInv ==
  /\ TypeOK /\ CallsAuthorized /\ UnderAuthority
  /\ TagsAfterDecision /\ TagFollowsDecision
  /\ SuccessStands /\ RivalsKnown

=============================================================================
