-------------------------- MODULE ContextCollection --------------------------
(***************************************************************************)
(* One collection of impact context over DataHub's read tools: a sequence  *)
(* of reads with nothing that ties them to one moment, four of them paged. *)
(* The normaliser then claims relationships from what was read, the domain *)
(* schema checks the claims against one another, the consumers are derived *)
(* from them, and the risk policy decides. The catalogue may be edited     *)
(* between any two reads.                                                  *)
(*                                                                         *)
(* The server fills a page unless it is the last one. Two of its answers   *)
(* may pass over something in silence: the listing of the fields leaves    *)
(* the glossary terms out, and the path to the dashboard has no paths. The *)
(* normaliser takes either and claims the relationship all the same.       *)
(***************************************************************************)
EXTENDS Integers, Sequences, SequencesExt

CONSTANTS
  PageSize,    \* PAGE_SIZE: entries asked for in one page
  MaxPages,    \* MAX_PAGES: pages read of one listing
  MaxChanges   \* edits of the catalogue in one collection

ASSUME PagesAssumption == PageSize \in Nat \ {0} /\ MaxPages \in Nat \ {0} /\ MaxChanges \in Nat

VARIABLES
  listings,   \* the catalogue: what each paged tool lists, in order
  aspects,    \* the catalogue: what the other tools report
  changes,    \* edits so far
  reading,    \* IDLE, READING, CLOSING or DONE
  place,      \* the read it is at, in Reads
  offset,     \* of the page to ask for
  total,      \* the total the first page gave
  matched,    \* how often each wanted entry was met so far
  seen,       \* the facts the reads have established
  silent,     \* the facts an answer passed over in silence
  evidence,   \* the items of the context
  collected,  \* has a context been returned?
  held,       \* history: the facts that held at some moment of the collection
  lacked      \* history: the facts that did not hold at some moment of it

catalogue == <<listings, aspects, changes, held, lacked>>
collector == <<reading, place, offset, total, matched, seen, silent, evidence, collected>>
contextVars == <<catalogue, collector>>

\* What can be read. A lineage entry names the field: staging view, revenue
\* and feature datasets. DASHBOARD_EDGE and TRAINED lead to the two assets.
\* TERM_ON_FIELD binds the glossary term to the field.
Lineage == {"STAGING", "REVENUE", "FEATURES"}
Owners == {"OWNER_DASHBOARD", "OWNER_MODEL", "OWNER_REVENUE"}
Aspects == {"DASHBOARD_EDGE", "TRAINED", "QUERY_SUBJECT", "DASHBOARD_TAGS", "MODEL_TAGS",
            "GLOSSARY_TERM", "TERM_ON_FIELD"} \cup Owners

WantedIn == [SEARCH |-> {"DATASET"}, SCHEMA |-> {"FIELD"}, LINEAGE |-> Lineage,
             QUERIES |-> {"QUERY"}]

Wanted == UNION {WantedIn[l] : l \in DOMAIN WantedIn}

NoMatches == [e \in Wanted |-> 0]

\* The field paths, from the field to the revenue and to the feature dataset,
\* are there when both of their datasets derive from it.
PathFacts == {"REVENUE_PATH", "FEATURES_PATH"}

Legs(path) == {"STAGING", IF path = "REVENUE_PATH" THEN "REVENUE" ELSE "FEATURES"}

Facts(lists, asps) ==
  asps \cup (UNION {ToSet(lists[l]) \cap Wanted : l \in DOMAIN lists})
  \cup {p \in PathFacts : Legs(p) \subseteq ToSet(lists["LINEAGE"])}

Known == Wanted \cup Aspects \cup PathFacts

\* collectCanonicalObservations, in its order.
Pages(listing) == [how |-> "PAGES", of |-> listing, asks |-> WantedIn[listing]]
Path(asks) == [how |-> "PATH", of |-> "PATHS", asks |-> asks]
Details(asks) == [how |-> "DETAILS", of |-> "ENTITIES", asks |-> asks]

\* The path from the features to the model is read too, but none is expected
\* (observePathOrEmpty): readTrainingDataAspect proves that edge.
Reads ==
  <<Pages("SEARCH"), Pages("SCHEMA"), Pages("LINEAGE"),
    Path({"REVENUE_PATH"}), Path({"DASHBOARD_EDGE"}), Path({"FEATURES_PATH"}),
    Details({}), Details({"TRAINED"}), Pages("QUERIES"),
    Details({"DASHBOARD_TAGS", "OWNER_DASHBOARD"}), Details({"MODEL_TAGS", "OWNER_MODEL"}),
    Details({"QUERY_SUBJECT"}), Details({"OWNER_REVENUE"}), Details({"GLOSSARY_TERM"})>>

-----------------------------------------------------------------------------
(* The context: what normalizeCanonicalLiveCollection claims.              *)

Item(kind, about, claims, related) ==
  [kind |-> kind, about |-> about, claims |-> claims, related |-> related]

\* What has no owner gets no OWNER item. The query's reviewer is the owner of
\* the dataset it reads.
OwnerItems(facts) ==
  {Item("OWNER", "DASHBOARD", {"OWNER_DASHBOARD"}, {"DASHBOARD"}) : o \in facts \cap {"OWNER_DASHBOARD"}}
  \cup {Item("OWNER", "MODEL", {"OWNER_MODEL"}, {"MODEL"}) : o \in facts \cap {"OWNER_MODEL"}}
  \cup {Item("OWNER", "QUERY", {"OWNER_REVENUE"}, {"QUERY"}) : o \in facts \cap {"OWNER_REVENUE"}}

Items(facts) ==
  {Item("SCHEMA", "FIELD", {"DATASET", "FIELD"}, {}),
   Item("LINEAGE_PATH", "DASHBOARD", {"REVENUE_PATH", "DASHBOARD_EDGE"}, {}),
   Item("DASHBOARD", "DASHBOARD", {"DASHBOARD_TAGS"}, {"LINEAGE_PATH"}),
   Item("LINEAGE_PATH", "MODEL", {"FEATURES_PATH", "TRAINED"}, {}),
   Item("ML_MODEL", "MODEL", {"MODEL_TAGS", "TRAINED"}, {"LINEAGE_PATH"}),
   Item("QUERY_USAGE", "QUERY", {"QUERY", "QUERY_SUBJECT"}, {"LINEAGE_PATH"}),
   Item("GLOSSARY_TERM", "FIELD", {"GLOSSARY_TERM", "TERM_ON_FIELD"}, {})}
  \cup OwnerItems(facts)

OfKind(items, kind) == {i \in items : i.kind = kind}

\* Variant: it insists on nothing but what the listings gave.
RequiredLax == Wanted

\* What the normaliser insists on before it claims anything.
Required == Known \ Owners

\* impactContextSchema of a complete context: each item once, each related to
\* an item about the same asset, or the query to the path of its dataset.
Related(item, items) ==
  CASE item.kind \in {"DASHBOARD", "ML_MODEL"} ->
         \E p \in OfKind(items, "LINEAGE_PATH") : p.about = item.about
    [] item.kind = "QUERY_USAGE" ->
         \E p \in OfKind(items, "LINEAGE_PATH") : "REVENUE_PATH" \in p.claims
    [] item.kind = "OWNER" ->
         \E i \in items : i.kind \in {"DASHBOARD", "ML_MODEL", "QUERY_USAGE"} /\ i.about = item.about
    [] OTHER -> item.related = {}

Complete(items) ==
  /\ \A kind \in {"SCHEMA", "DASHBOARD", "ML_MODEL", "QUERY_USAGE", "GLOSSARY_TERM"} :
       \E i \in items : OfKind(items, kind) = {i}
  /\ {p.about : p \in OfKind(items, "LINEAGE_PATH")} = {"DASHBOARD", "MODEL"}
  /\ \A i \in items : Related(i, items)

\* deriveImpactConsumers: the datasets on the paths, but not the staging view
\* nor the features, which the model's card absorbs; then the three assets.
Consumers(items) ==
  {"DATA_MODEL" : p \in {p \in OfKind(items, "LINEAGE_PATH") : "REVENUE_PATH" \in p.claims}}
  \cup {i.kind : i \in {i \in items : i.kind \in {"DASHBOARD", "ML_MODEL", "QUERY_USAGE"}}}

ExactlyFour(items) == Consumers(items) = {"DATA_MODEL", "DASHBOARD", "ML_MODEL", "QUERY_USAGE"}

OwnerOf(asset) == IF asset = "DASHBOARD" THEN "OWNER_DASHBOARD" ELSE "OWNER_MODEL"

\* evaluateGroundedRisk: the rules and the evidence that triggers each.
Unowned(items) ==
  {i \in items : /\ i.kind \in {"DASHBOARD", "ML_MODEL"}
                 /\ ~\E o \in OfKind(items, "OWNER") : o.about = i.about}

Triggered(items) ==
  {r \in {"LG001", "LG002", "LG003", "LG004", "LG005"} :
     CASE r = "LG001" -> OfKind(items, "LINEAGE_PATH") # {}
       [] r = "LG002" -> OfKind(items, "ML_MODEL") # {}
       [] r = "LG003" -> OfKind(items, "QUERY_USAGE") # {}
       [] r = "LG004" -> OfKind(items, "DASHBOARD") # {}
       [] r = "LG005" -> Unowned(items) # {}}

Decision(rules) == IF rules \ {"LG005"} # {} THEN "BLOCK" ELSE IF rules # {} THEN "REVIEW" ELSE "ALLOW"

-----------------------------------------------------------------------------

ContextInit(lists, asps) ==
  /\ listings = lists /\ aspects = asps /\ changes = 0
  /\ held = {} /\ lacked = {}
  /\ reading = "IDLE" /\ place = 1 /\ offset = 0 /\ total = 0 /\ matched = NoMatches
  /\ seen = {} /\ silent = {} /\ evidence = {} /\ collected = FALSE

\* Variant: a session that fails leaves the call without an end.
ConnectLost ==
  /\ reading = "IDLE"
  /\ reading' \in {"READING", "CLOSING", "DONE", "LOST"}
  /\ held' = Facts(listings, aspects)
  /\ lacked' = Known \ Facts(listings, aspects)
  /\ UNCHANGED <<listings, aspects, changes, place, offset, total, matched, seen, silent,
                 evidence, collected>>

\* The session, and the discovery of the tools: none that mutates, each once.
Connect ==
  /\ reading = "IDLE"
  /\ reading' \in {"READING", "CLOSING", "DONE"}
  /\ held' = Facts(listings, aspects)
  /\ lacked' = Known \ Facts(listings, aspects)
  /\ UNCHANGED <<listings, aspects, changes, place, offset, total, matched, seen, silent,
                 evidence, collected>>

At(how) == reading = "READING" /\ place <= Len(Reads) /\ Reads[place].how = how

\* A deadline, an error, a limit or a shape that is wrong: the collection fails.
Gives == /\ reading' = "CLOSING" /\ UNCHANGED <<place, offset, total, matched, seen, silent>>

ReadFails ==
  /\ reading = "READING"
  /\ Gives
  /\ UNCHANGED <<catalogue, evidence, collected>>

NextRead(facts, omitted) ==
  /\ seen' = seen \cup facts /\ silent' = silent \cup omitted
  /\ place' = place + 1 /\ offset' = 0 /\ total' = 0 /\ matched' = NoMatches
  /\ UNCHANGED reading

Occurrences(entry, list) == Cardinality({i \in DOMAIN list : list[i] = entry})

\* list_schema_fields filters by the field's name and counts what matches.
SchemaMatches(list) == Occurrences("FIELD", list) = 1

\* What a page says of the field's glossary terms, if the field is on it.
Bindings(page) ==
  IF "FIELD" \in ToSet(page)
    THEN {[shown |-> {"TERM_ON_FIELD"} \cap aspects, omitted |-> {}],
          [shown |-> {}, omitted |-> {"TERM_ON_FIELD"}]}
    ELSE {[shown |-> {}, omitted |-> {}]}

\* collectBoundedPages over one listing. The total must not change from page to
\* page, and in the end each wanted entry was met exactly once.
ReadPage ==
  /\ At("PAGES")
  /\ LET list  == listings[Reads[place].of]
         page  == SubSeq(list, offset + 1, IF offset + PageSize < Len(list)
                                             THEN offset + PageSize ELSE Len(list))
         more  == offset + Len(page) < Len(list)
         met   == [e \in Wanted |-> matched[e] + Occurrences(e, page)]
         limit == offset \div PageSize + 1 >= MaxPages
         right == /\ offset > 0 => Len(list) = total
                  /\ Reads[place].of = "SCHEMA" => SchemaMatches(list)
     IN \/ /\ right /\ more /\ ~limit
           /\ offset' = offset + Len(page) /\ total' = Len(list) /\ matched' = met
           /\ \E b \in Bindings(page) :
                seen' = seen \cup b.shown /\ silent' = silent \cup b.omitted
           /\ UNCHANGED <<reading, place>>
        \/ /\ right /\ ~more
           /\ \A e \in Reads[place].asks : met[e] = 1
           /\ \E b \in Bindings(page) : NextRead(Reads[place].asks \cup b.shown, b.omitted)
        \/ /\ \/ ~right
              \/ more /\ limit
              \/ ~more /\ \E e \in Reads[place].asks : met[e] # 1
           /\ Gives
  /\ UNCHANGED <<catalogue, evidence, collected>>

\* get_lineage_paths_between. What is not there is a tool error, or an answer
\* without paths: the normaliser refuses that of a field path, and takes it of
\* the path to the dashboard.
ReadPath ==
  /\ At("PATH")
  /\ \/ /\ Reads[place].asks \subseteq Facts(listings, aspects)
        /\ NextRead(Reads[place].asks, {})
     \/ /\ ~(Reads[place].asks \subseteq Facts(listings, aspects))
        /\ \/ Gives
           \/ NextRead({}, Reads[place].asks \cap {"DASHBOARD_EDGE"})
  /\ UNCHANGED <<catalogue, evidence, collected>>

\* get_entities and the training data aspect report what is there; the
\* normaliser judges it when all has been read.
ReadDetails ==
  /\ At("DETAILS")
  /\ NextRead(Reads[place].asks \cap Facts(listings, aspects), {})
  /\ UNCHANGED <<catalogue, evidence, collected>>

Normalize ==
  /\ reading = "READING" /\ place > Len(Reads)
  /\ reading' = "CLOSING"
  /\ evidence' = IF Required \subseteq seen \cup silent /\ Complete(Items(seen))
                   THEN Items(seen) ELSE {}
  /\ UNCHANGED <<catalogue, place, offset, total, matched, seen, silent, collected>>

\* A session that does not close turns a result into a failure.
CloseSession ==
  /\ reading = "CLOSING"
  /\ reading' = "DONE"
  /\ \E closed \in BOOLEAN : collected' = (closed /\ evidence # {})
  /\ UNCHANGED <<catalogue, place, offset, total, matched, seen, silent, evidence>>

Collects == Connect \/ ReadFails \/ ReadPage \/ ReadPath \/ ReadDetails \/ Normalize \/ CloseSession

-----------------------------------------------------------------------------
(* Editors of the catalogue.                                               *)

Remembers ==
  /\ changes' = changes + 1
  /\ held' = held \cup Facts(listings', aspects')
  /\ lacked' = lacked \cup (Known \ Facts(listings', aspects'))
  /\ UNCHANGED collector

Edits == reading = "READING" /\ changes < MaxChanges

AddEntry ==
  /\ Edits
  /\ \E l \in DOMAIN listings :
       \E e \in {"OTHER"} \cup (WantedIn[l] \ ToSet(listings[l])), i \in 1 .. Len(listings[l]) + 1 :
         listings' = [listings EXCEPT ![l] = InsertAt(@, i, e)]
  /\ UNCHANGED aspects
  /\ Remembers

RemoveEntry ==
  /\ Edits
  /\ \E l \in DOMAIN listings : \E i \in DOMAIN listings[l] :
       listings' = [listings EXCEPT ![l] = RemoveAt(@, i)]
  /\ UNCHANGED aspects
  /\ Remembers

EditAspect ==
  /\ Edits
  /\ \E a \in Aspects : aspects' = IF a \in aspects THEN aspects \ {a} ELSE aspects \cup {a}
  /\ UNCHANGED listings
  /\ Remembers

Editors == AddEntry \/ RemoveEntry \/ EditAspect

-----------------------------------------------------------------------------

\* The reads of a collection are not one moment. Still, every relationship the
\* context claims held at some moment while it was read, but for the two that
\* an answer may pass over in silence; what is called unowned had no owner at
\* some moment; and the context is complete: four consumers, and a decision to
\* block (normalizeCanonicalLiveCollection, impactContextSchema,
\* evaluateGroundedRisk).
CollectedWasTrue ==
  collected =>
    /\ \A i \in evidence :
         i.claims \ (silent \cap {"TERM_ON_FIELD", "DASHBOARD_EDGE"}) \subseteq held
    /\ \A i \in Unowned(evidence) : OwnerOf(i.about) \in lacked
    /\ ExactlyFour(evidence)
    /\ Decision(Triggered(evidence)) = "BLOCK"

=============================================================================
