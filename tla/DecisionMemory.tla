----------------------------- MODULE DecisionMemory -----------------------------
(***************************************************************************)
(* How the in-process pipeline writes its decision to DataHub              *)
(* (createWritebackPort): it reads the dataset's tags and its list of      *)
(* documents, replaces each aspect as a whole with what it read and its    *)
(* own, and reads both back. DataHub has no compare-and-set here, and      *)
(* others edit the same two aspects.                                       *)
(***************************************************************************)
EXTENDS Naturals, FiniteSets

CONSTANT MaxCuration    \* edits of the two aspects by others

ASSUME CurationAssumption == MaxCuration \in Nat

VARIABLES
  tags,       \* DataHub: the dataset's tags
  documents,  \* DataHub: the dataset's documents
  curation,   \* edits by others so far
  writing,    \* where write is
  before,     \* the tags and documents it read
  after,      \* the tags it read back
  carried     \* history: what the writer's calls put on the dataset, and what it read there last

dataset == <<tags, documents, curation>>
writer == <<writing, before, after, carried>>
memoryVars == <<dataset, writer>>

DecisionTags == {"REVIEWED", "CRITICAL", "PRODUCTION"}

\* A document is a NOTE, or a decision: on ANOTHER candidate, or on this one, of
\* an EARLIER run or of this run, OURS.
OnCandidate == {"EARLIER", "OURS"}
Decisions == OnCandidate \cup {"ANOTHER"}

Unread == [tags |-> {}, documents |-> {}]

MemoryInit ==
  /\ tags = {"CURATED"} /\ documents = {"NOTE", "ANOTHER"} /\ curation = 0
  /\ writing = "READ_TAGS" /\ before = Unread /\ after = {}
  /\ carried = [posted |-> {}, read |-> {}]

-----------------------------------------------------------------------------

Abandons == writing' = "FAILED" /\ UNCHANGED <<before, after, carried>>

\* gmsRead answers null for every HTTP error, and what is missing counts as
\* empty. Any other failure is thrown.
AnswersTo(aspect) == {aspect, {}}

ReadTags ==
  /\ writing = "READ_TAGS"
  /\ \E read \in AnswersTo(tags) : before' = [before EXCEPT !.tags = read]
  /\ writing' = "READ_DOCUMENTS"
  /\ UNCHANGED <<dataset, after, carried>>

\* When the same document is there with the tags, write returns at once. It
\* names the run, and a run writes once, so no run finds its own.
ReadDocuments ==
  /\ writing = "READ_DOCUMENTS"
  /\ \E read \in AnswersTo(documents) : before' = [before EXCEPT !.documents = read]
  /\ writing' = "WRITE_TAGS"
  /\ UNCHANGED <<dataset, after, carried>>

\* What was posted, once it is done.
Posts(entries) == carried' = [carried EXCEPT !.posted = @ \cup entries]

\* Variant: an answer that is an error is not looked at.
WriteTagsUnchecked ==
  /\ writing = "WRITE_TAGS"
  /\ \/ /\ tags' = before.tags \cup DecisionTags
        /\ Posts(DecisionTags)
     \/ UNCHANGED <<tags, carried>>
  /\ writing' \in {"WRITE_DOCUMENTS", "FAILED"}
  /\ UNCHANGED <<documents, curation, before, after>>

\* The POST is done or not, and answered or not.
WriteTags ==
  /\ writing = "WRITE_TAGS"
  /\ \/ /\ tags' = before.tags \cup DecisionTags
        /\ Posts(DecisionTags)
        /\ writing' \in {"WRITE_DOCUMENTS", "FAILED"}
     \/ writing' = "FAILED" /\ UNCHANGED <<tags, carried>>
  /\ UNCHANGED <<documents, curation, before, after>>

\* Every earlier decision is dropped for the new one, on whichever candidate.
WriteDocuments ==
  /\ writing = "WRITE_DOCUMENTS"
  /\ \/ /\ documents' = (before.documents \ Decisions) \cup {"OURS"}
        /\ Posts({"OURS"})
        /\ writing' \in {"VERIFY_TAGS", "FAILED"}
     \/ writing' = "FAILED" /\ UNCHANGED <<documents, carried>>
  /\ UNCHANGED <<tags, curation, before, after>>

\* One of the three tags is looked for.
VerifyTags ==
  /\ writing = "VERIFY_TAGS"
  /\ \/ /\ "REVIEWED" \in tags
        /\ after' = tags
        /\ writing' = "VERIFY_DOCUMENTS"
        /\ carried' = [carried EXCEPT !.read = tags]
        /\ UNCHANGED before
     \/ Abandons
  /\ UNCHANGED dataset

\* The tags that are not the decision's must not have become fewer.
Preserved == Cardinality(after \ DecisionTags) >= Cardinality(before.tags \ DecisionTags)

VerifyDocuments ==
  /\ writing = "VERIFY_DOCUMENTS"
  /\ \/ /\ OnCandidate \cap documents # {}
        /\ Preserved
        /\ writing' = "WRITTEN"
        /\ carried' = [carried EXCEPT !.read = @ \cup documents]
        /\ UNCHANGED <<before, after>>
     \/ Abandons
  /\ UNCHANGED dataset

CallThrows ==
  /\ writing \in {"READ_TAGS", "READ_DOCUMENTS"}
  /\ Abandons
  /\ UNCHANGED dataset

Writes == ReadTags \/ ReadDocuments \/ WriteTags \/ WriteDocuments \/ VerifyTags
          \/ VerifyDocuments \/ CallThrows

-----------------------------------------------------------------------------

\* Another worker, with another run of the candidate, writes one of the two
\* aspects: to this run, the other's document is of an earlier one.
AnotherWrites ==
  \/ tags' = tags \cup DecisionTags /\ UNCHANGED documents
  \/ documents' = (documents \ Decisions) \cup {"EARLIER"} /\ UNCHANGED tags

\* A curator adds a tag or a note, or removes any one entry.
CuratorEdits ==
  \/ /\ \E t \in {"CURATED"} \cup DecisionTags : tags' \in {tags \cup {t}, tags \ {t}}
     /\ UNCHANGED documents
  \/ /\ \E d \in documents \cup {"NOTE"} :
          documents' \in {documents \cup {d}, documents \ {d}}
     /\ UNCHANGED tags

Curate ==
  /\ curation < MaxCuration /\ curation' = curation + 1
  /\ AnotherWrites \/ CuratorEdits
  /\ UNCHANGED writer

=============================================================================
