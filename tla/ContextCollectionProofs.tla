------------------------ MODULE ContextCollectionProofs ------------------------
(***************************************************************************)
(* What a collection keeps to: CollectionInv, preserved by every read and  *)
(* every edit of the catalogue, for any sizes of its listings and pages    *)
(* and any number of edits. The worker that collects is the subject of     *)
(* WorkerProofs.                                                           *)
(*                                                                         *)
(* The reads are not one moment, so nothing can be said of the catalogue   *)
(* as it is: the invariant says that whatever a read has established is in *)
(* the history (held), and what it has missed is too (lacked).             *)
(***************************************************************************)
EXTENDS ContextCollection, FiniteSetTheorems, TLAPS

Entries == Wanted \cup {"OTHER"}

ListingsTyped == listings \in [DOMAIN WantedIn -> Seq(Entries)]

\* While it is read, the history is up to date.
Remembered ==
  reading = "READING" =>
    /\ Facts(listings, aspects) \subseteq held
    /\ Known \ Facts(listings, aspects) \subseteq lacked

NothingYet ==
  reading = "IDLE" =>
    place = 1 /\ offset = 0 /\ matched = NoMatches /\ seen = {} /\ silent = {}
    /\ evidence = {} /\ collected = FALSE

\* The two facts an answer may pass over.
Omissible == {"TERM_ON_FIELD", "DASHBOARD_EDGE"}

\* What was met and seen has held.
SeenHeld ==
  /\ place \in Nat \ {0}
  /\ offset \in Nat
  /\ matched \in [Wanted -> Nat]
  /\ \A e \in Wanted : matched[e] > 0 => e \in held
  /\ seen \subseteq held
  /\ silent \subseteq Omissible

\* An owner that was looked for is seen or was lacking.
OwnersJudged ==
  /\ place > 10 => "OWNER_DASHBOARD" \in seen \cup lacked
  /\ place > 11 => "OWNER_MODEL" \in seen \cup lacked

ContextTrue ==
  evidence # {} =>
    /\ \A i \in evidence : i.claims \subseteq held \cup silent
    /\ \A i \in Unowned(evidence) : OwnerOf(i.about) \in lacked
    /\ ExactlyFour(evidence)
    /\ Decision(Triggered(evidence)) = "BLOCK"

\* A context is returned at the end only.
Running ==
  /\ reading \in {"IDLE", "READING"} => collected = FALSE
  /\ collected => evidence # {}

CollectionInv ==
  /\ ListingsTyped /\ Remembered /\ NothingYet /\ SeenHeld /\ OwnersJudged
  /\ ContextTrue
  /\ Running

-----------------------------------------------------------------------------
(* The operators.                                                          *)

\* What occurs is there.
LEMMA OccurringIsThere ==
  ASSUME NEW e, NEW S, NEW list \in Seq(S), Occurrences(e, list) # 0
  PROVE  \E i \in DOMAIN list : list[i] = e
<1> SUFFICES ASSUME ~\E i \in DOMAIN list : list[i] = e PROVE FALSE
  OBVIOUS
<1>1. {i \in DOMAIN list : list[i] = e} = {}
  OBVIOUS
<1> QED
  BY <1>1, FS_EmptySet DEF Occurrences

LEMMA OccurrencesAreNat ==
  ASSUME NEW e, NEW S, NEW list \in Seq(S)
  PROVE  Occurrences(e, list) \in Nat
<1>1. IsFiniteSet(1 .. Len(list))
  BY FS_Interval
<1>2. {i \in DOMAIN list : list[i] = e} \subseteq 1 .. Len(list)
  OBVIOUS
<1>3. IsFiniteSet({i \in DOMAIN list : list[i] = e})
  BY <1>1, <1>2, FS_Subset
<1> QED
  BY <1>3, FS_CardinalityType DEF Occurrences

\* A page shows entries of the list.
LEMMA PageShowsList ==
  ASSUME NEW S, NEW list \in Seq(S), NEW m \in Nat, NEW n \in 0 .. Len(list)
  PROVE  /\ SubSeq(list, m + 1, n) \in Seq(S)
         /\ \A i \in DOMAIN SubSeq(list, m + 1, n) :
              \E j \in DOMAIN list : SubSeq(list, m + 1, n)[i] = list[j]
<1>1. CASE m >= n
  BY <1>1
<1>2. CASE m < n
  <2>1. \A i \in 1 .. (n - m) : i + m \in DOMAIN list /\ SubSeq(list, m + 1, n)[i] = list[i + m]
    BY <1>2
  <2>2. DOMAIN SubSeq(list, m + 1, n) = 1 .. (n - m)
    BY <1>2
  <2>3. SubSeq(list, m + 1, n) \in Seq(S)
    BY <1>2
  <2> QED
    BY <2>1, <2>2, <2>3
<1> QED
  BY <1>1, <1>2

\* The reads in the places that matter.
LEMMA ReadsKnown ==
  /\ Len(Reads) = 14
  /\ \A p \in 1 .. 14 : Reads[p].how = "PAGES" =>
       Reads[p].of \in DOMAIN WantedIn /\ Reads[p].asks = WantedIn[Reads[p].of]
  /\ Reads[10].how = "DETAILS" /\ "OWNER_DASHBOARD" \in Reads[10].asks
  /\ Reads[11].how = "DETAILS" /\ "OWNER_MODEL" \in Reads[11].asks
<1>1. Len(Reads) = 14
  BY DEF Reads
<1>2. ASSUME NEW p \in 1 .. 14, Reads[p].how = "PAGES"
      PROVE  Reads[p].of \in DOMAIN WantedIn /\ Reads[p].asks = WantedIn[Reads[p].of]
  <2>1. p \in {1, 2, 3, 9}
    BY <1>2 DEF Reads, Path, Details
  <2>2. Reads[p] \in {Pages("SEARCH"), Pages("SCHEMA"), Pages("LINEAGE"), Pages("QUERIES")}
    BY <2>1 DEF Reads
  <2> QED
    BY <2>2 DEF Pages, WantedIn
<1>3. Reads[10] = Details({"DASHBOARD_TAGS", "OWNER_DASHBOARD"})
  BY DEF Reads
<1>4. Reads[11] = Details({"MODEL_TAGS", "OWNER_MODEL"})
  BY DEF Reads
<1> QED
  BY <1>1, <1>2, <1>3, <1>4 DEF Details

\* Every listed entry that is wanted is a fact.
LEMMA ListedIsFact ==
  ASSUME NEW lists, NEW asps, NEW l \in DOMAIN lists, NEW i \in DOMAIN lists[l],
         lists[l][i] \in Wanted
  PROVE  lists[l][i] \in Facts(lists, asps)
BY DEF Facts, ToSet

\* What a read looks for is known.
LEMMA KnownFacts ==
  /\ Wanted \subseteq Known /\ Aspects \subseteq Known
  /\ "OWNER_DASHBOARD" \in Known /\ "OWNER_MODEL" \in Known
BY DEF Known, Aspects, Owners


\* An item of Items is one of seven, or the owner of one of three assets.
LEMMA ItemsKnown ==
  ASSUME NEW facts, NEW i \in Items(facts)
  PROVE  \/ i = Item("SCHEMA", "FIELD", {"DATASET", "FIELD"}, {})
         \/ i = Item("LINEAGE_PATH", "DASHBOARD", {"REVENUE_PATH", "DASHBOARD_EDGE"}, {})
         \/ i = Item("DASHBOARD", "DASHBOARD", {"DASHBOARD_TAGS"}, {"LINEAGE_PATH"})
         \/ i = Item("LINEAGE_PATH", "MODEL", {"FEATURES_PATH", "TRAINED"}, {})
         \/ i = Item("ML_MODEL", "MODEL", {"MODEL_TAGS", "TRAINED"}, {"LINEAGE_PATH"})
         \/ i = Item("QUERY_USAGE", "QUERY", {"QUERY", "QUERY_SUBJECT"}, {"LINEAGE_PATH"})
         \/ i = Item("GLOSSARY_TERM", "FIELD", {"GLOSSARY_TERM", "TERM_ON_FIELD"}, {})
         \/ i = Item("OWNER", "DASHBOARD", {"OWNER_DASHBOARD"}, {"DASHBOARD"}) /\ "OWNER_DASHBOARD" \in facts
         \/ i = Item("OWNER", "MODEL", {"OWNER_MODEL"}, {"MODEL"}) /\ "OWNER_MODEL" \in facts
         \/ i = Item("OWNER", "QUERY", {"OWNER_REVENUE"}, {"QUERY"}) /\ "OWNER_REVENUE" \in facts
BY DEF Items, OwnerItems

\* A context claims what was required, and owners it has seen.
LEMMA ItemsClaimFacts ==
  ASSUME NEW facts, NEW omitted, Required \subseteq facts \cup omitted, NEW i \in Items(facts)
  PROVE  i.claims \subseteq facts \cup omitted
<1>1. {"DATASET", "FIELD", "REVENUE_PATH", "FEATURES_PATH", "QUERY", "DASHBOARD_EDGE", "TRAINED",
       "QUERY_SUBJECT", "DASHBOARD_TAGS", "MODEL_TAGS", "GLOSSARY_TERM", "TERM_ON_FIELD"}
        \subseteq Required
  <2>1. {"DATASET", "FIELD", "QUERY"} \subseteq Wanted \ Owners
    BY DEF Wanted, WantedIn, Lineage, Owners
  <2>2. {"DASHBOARD_EDGE", "TRAINED", "QUERY_SUBJECT", "DASHBOARD_TAGS", "MODEL_TAGS",
         "GLOSSARY_TERM", "TERM_ON_FIELD"} \subseteq Aspects \ Owners
    BY DEF Aspects, Owners
  <2>3. {"REVENUE_PATH", "FEATURES_PATH"} \subseteq PathFacts \ Owners
    BY DEF PathFacts, Owners
  <2> QED
    BY <2>1, <2>2, <2>3 DEF Required, Known
<1> QED
  BY <1>1, ItemsKnown DEF Item

\* What is called unowned is an asset whose owner was not seen.
LEMMA UnownedHasNoOwner ==
  ASSUME NEW facts, NEW i \in Unowned(Items(facts))
  PROVE  \/ OwnerOf(i.about) = "OWNER_DASHBOARD" /\ "OWNER_DASHBOARD" \notin facts
         \/ OwnerOf(i.about) = "OWNER_MODEL" /\ "OWNER_MODEL" \notin facts
<1>1. i \in Items(facts) /\ i.kind \in {"DASHBOARD", "ML_MODEL"}
      /\ ~\E o \in OfKind(Items(facts), "OWNER") : o.about = i.about
  BY DEF Unowned
<1>2. \/ i.kind = "DASHBOARD" /\ i.about = "DASHBOARD"
      \/ i.kind = "ML_MODEL" /\ i.about = "MODEL"
  BY <1>1, ItemsKnown DEF Item
<1>3. ASSUME "OWNER_DASHBOARD" \in facts
      PROVE  \E o \in OfKind(Items(facts), "OWNER") : o.about = "DASHBOARD"
  <2> DEFINE o == Item("OWNER", "DASHBOARD", {"OWNER_DASHBOARD"}, {"DASHBOARD"})
  <2>1. o \in Items(facts)
    BY <1>3 DEF Items, OwnerItems
  <2>2. o.kind = "OWNER" /\ o.about = "DASHBOARD"
    BY DEF Item
  <2> QED
    BY <2>1, <2>2 DEF OfKind
<1>4. ASSUME "OWNER_MODEL" \in facts
      PROVE  \E o \in OfKind(Items(facts), "OWNER") : o.about = "MODEL"
  <2> DEFINE o == Item("OWNER", "MODEL", {"OWNER_MODEL"}, {"MODEL"})
  <2>1. o \in Items(facts)
    BY <1>4 DEF Items, OwnerItems
  <2>2. o.kind = "OWNER" /\ o.about = "MODEL"
    BY DEF Item
  <2> QED
    BY <2>1, <2>2 DEF OfKind
<1> QED
  BY <1>1, <1>2, <1>3, <1>4 DEF OwnerOf

\* The four consumers are there, and so is a reason to block.
LEMMA ItemsBlock ==
  ASSUME NEW facts
  PROVE  ExactlyFour(Items(facts)) /\ Decision(Triggered(Items(facts))) = "BLOCK"
<1> DEFINE path == Item("LINEAGE_PATH", "DASHBOARD", {"REVENUE_PATH", "DASHBOARD_EDGE"}, {})
           board == Item("DASHBOARD", "DASHBOARD", {"DASHBOARD_TAGS"}, {"LINEAGE_PATH"})
           model == Item("ML_MODEL", "MODEL", {"MODEL_TAGS", "TRAINED"}, {"LINEAGE_PATH"})
           query == Item("QUERY_USAGE", "QUERY", {"QUERY", "QUERY_SUBJECT"}, {"LINEAGE_PATH"})
           assets == {i.kind : i \in {i \in Items(facts) :
                                       i.kind \in {"DASHBOARD", "ML_MODEL", "QUERY_USAGE"}}}
           models == {"DATA_MODEL" : p \in {p \in OfKind(Items(facts), "LINEAGE_PATH") :
                                             "REVENUE_PATH" \in p.claims}}
<1>1. path \in Items(facts) /\ board \in Items(facts) /\ model \in Items(facts)
      /\ query \in Items(facts)
  BY DEF Items
<1>2. /\ path.kind = "LINEAGE_PATH" /\ "REVENUE_PATH" \in path.claims
      /\ board.kind = "DASHBOARD" /\ model.kind = "ML_MODEL" /\ query.kind = "QUERY_USAGE"
  BY DEF Item
<1> HIDE DEF path, board, model, query
<1>3. path \in OfKind(Items(facts), "LINEAGE_PATH")
  BY <1>1, <1>2 DEF OfKind
<1>4. models = {"DATA_MODEL"}
  BY <1>2, <1>3
<1>5. assets = {"DASHBOARD", "ML_MODEL", "QUERY_USAGE"}
  <2>1. assets \subseteq {"DASHBOARD", "ML_MODEL", "QUERY_USAGE"}
    OBVIOUS
  <2>2. {"DASHBOARD", "ML_MODEL", "QUERY_USAGE"} \subseteq assets
    BY <1>1, <1>2
  <2> QED
    BY <2>1, <2>2
<1>6. ExactlyFour(Items(facts))
  BY <1>4, <1>5 DEF ExactlyFour, Consumers
<1>7. "LG001" \in Triggered(Items(facts))
  BY <1>3 DEF Triggered
<1> QED
  BY <1>6, <1>7 DEF Decision


-----------------------------------------------------------------------------
(* The steps.                                                              *)

LEMMA CollectionStarts ==
  ASSUME NEW lists \in [DOMAIN WantedIn -> Seq(Entries)], NEW asps, ContextInit(lists, asps)
  PROVE  CollectionInv
BY DEF ContextInit, CollectionInv, ListingsTyped, Remembered, NothingYet, SeenHeld, OwnersJudged,
       ContextTrue, Running, NoMatches

\* What has been established depends on the history and on the collector.
LEMMA CollectionKept ==
  ASSUME CollectionInv, UNCHANGED contextVars
  PROVE  CollectionInv'
BY DEF contextVars, catalogue, collector, CollectionInv, ListingsTyped, Remembered, NothingYet,
       SeenHeld, OwnersJudged, ContextTrue, Running

LEMMA ConnectPreserves ==
  ASSUME CollectionInv, Connect
  PROVE  CollectionInv'
BY DEF Connect, CollectionInv, ListingsTyped, Remembered, NothingYet, SeenHeld, OwnersJudged,
       ContextTrue, Running, NoMatches

\* A read that fails, or ends the collection, establishes nothing.
LEMMA GivesPreserves ==
  ASSUME CollectionInv, Gives, UNCHANGED <<catalogue, evidence, collected>>
  PROVE  CollectionInv'
BY DEF Gives, catalogue, CollectionInv, ListingsTyped, Remembered, NothingYet, SeenHeld,
       OwnersJudged, ContextTrue, Running

\* The next read starts with what the last one has established.
LEMMA NextReadPreserves ==
  ASSUME CollectionInv, NEW facts, NEW omitted, facts \subseteq held, omitted \subseteq Omissible,
         NextRead(facts, omitted), reading = "READING",
         UNCHANGED <<catalogue, evidence, collected>>,
         place = 10 => "OWNER_DASHBOARD" \in facts \cup lacked,
         place = 11 => "OWNER_MODEL" \in facts \cup lacked
  PROVE  CollectionInv'
<1>1. /\ seen' = seen \cup facts /\ silent' = silent \cup omitted
      /\ place' = place + 1 /\ offset' = 0 /\ matched' = NoMatches /\ reading' = reading
  BY DEF NextRead
<1>2. UNCHANGED <<listings, aspects, held, lacked, evidence, collected>>
  BY DEF catalogue
<1>3. ListingsTyped' /\ Remembered' /\ NothingYet'
  BY <1>1, <1>2 DEF CollectionInv, ListingsTyped, Remembered, NothingYet
<1>4. SeenHeld'
  BY <1>1, <1>2 DEF CollectionInv, SeenHeld, NoMatches
<1>5. place \in Nat
  BY DEF CollectionInv, SeenHeld
<1>6. OwnersJudged'
  BY <1>1, <1>2, <1>5 DEF CollectionInv, OwnersJudged
<1>7. ContextTrue' /\ Running'
  <2>1. \A i \in evidence : i.claims \subseteq held \cup silent
                          => i.claims \subseteq held' \cup silent'
    BY <1>1, <1>2
  <2> QED
    BY <1>1, <1>2, <2>1 DEF CollectionInv, ContextTrue, Running
<1> QED
  BY <1>3, <1>4, <1>6, <1>7 DEF CollectionInv

LEMMA PlacesKnown ==
  ASSUME CollectionInv, NEW how, At(how)
  PROVE  /\ reading = "READING" /\ place \in 1 .. 14 /\ Reads[place].how = how
         /\ place \in {10, 11} => how = "DETAILS"
BY ReadsKnown DEF At, CollectionInv, SeenHeld

\* What a page shows is listed, so it holds at that moment; what was counted
\* once was on one of the pages.
LEMMA ReadPagePreserves ==
  ASSUME CollectionInv, ReadPage
  PROVE  CollectionInv'
<1> DEFINE list  == listings[Reads[place].of]
           until == IF offset + PageSize < Len(list) THEN offset + PageSize ELSE Len(list)
           page  == SubSeq(list, offset + 1, until)
           met   == [e \in Wanted |-> matched[e] + Occurrences(e, page)]
<1>1. /\ reading = "READING" /\ place \in 1 .. 14 /\ Reads[place].how = "PAGES"
      /\ place \notin {10, 11}
  BY PlacesKnown DEF ReadPage
<1>2. Reads[place].of \in DOMAIN WantedIn /\ Reads[place].asks \subseteq Wanted
  BY <1>1, ReadsKnown DEF Wanted
<1>3. list \in Seq(Entries) /\ DOMAIN listings = DOMAIN WantedIn
  BY <1>2 DEF CollectionInv, ListingsTyped
<1>4. UNCHANGED <<catalogue, evidence, collected>>
  BY DEF ReadPage
<1>5. CASE Gives
  BY <1>4, <1>5, GivesPreserves
<1> SUFFICES ASSUME ~Gives PROVE CollectionInv'
  BY <1>5
<1>6. PICK b \in Bindings(page) :
        \/ /\ offset' = offset + Len(page) /\ matched' = met
           /\ seen' = seen \cup b.shown /\ silent' = silent \cup b.omitted
           /\ UNCHANGED <<reading, place>>
        \/ /\ \A e \in Reads[place].asks : met[e] = 1
           /\ NextRead(Reads[place].asks \cup b.shown, b.omitted)
  BY DEF ReadPage
<1>7. offset \in Nat /\ PageSize \in Nat
  BY PagesAssumption DEF CollectionInv, SeenHeld
<1>8. page \in Seq(Entries) /\ \A i \in DOMAIN page : \E j \in DOMAIN list : page[i] = list[j]
  <2>1. until \in 0 .. Len(list)
    BY <1>3, <1>7
  <2> HIDE DEF list, until
  <2> QED
    BY <1>3, <1>7, <2>1, PageShowsList
<1>9. ASSUME NEW e \in Wanted, Occurrences(e, page) # 0 PROVE e \in held
  <2>1. PICK i \in DOMAIN page : page[i] = e
    <3> HIDE DEF page
    <3> QED
      BY <1>8, <1>9, OccurringIsThere
  <2>2. PICK j \in DOMAIN list : list[j] = e
    BY <1>8, <2>1
  <2>3. e \in Facts(listings, aspects)
    BY <1>2, <1>3, <2>2, ListedIsFact
  <2> QED
    BY <1>1, <2>3 DEF CollectionInv, Remembered
<1>10. \A e \in Wanted : Occurrences(e, page) \in Nat
  BY <1>8, OccurrencesAreNat
<1> HIDE DEF page, list
<1>11. /\ met \in [Wanted -> Nat]
       /\ \A e \in Wanted : met[e] > 0 => e \in held
  BY <1>9, <1>10 DEF CollectionInv, SeenHeld
<1> HIDE DEF met
<1>12. b.shown \subseteq held /\ b.omitted \subseteq Omissible
  <2>1. aspects \subseteq held
    BY <1>1 DEF CollectionInv, Remembered, Facts
  <2> QED
    BY <2>1 DEF Bindings, Omissible
<1>13. CASE /\ offset' = offset + Len(page) /\ matched' = met
            /\ seen' = seen \cup b.shown /\ silent' = silent \cup b.omitted
            /\ UNCHANGED <<reading, place>>
  <2>1. UNCHANGED <<listings, aspects, held, lacked, evidence, collected>>
    BY <1>4 DEF catalogue
  <2>2. offset' \in Nat
    BY <1>7, <1>8, <1>13
  <2>3. ListingsTyped' /\ Remembered' /\ NothingYet' /\ Running'
    BY <1>1, <1>13, <2>1 DEF CollectionInv, ListingsTyped, Remembered, NothingYet, Running
  <2>4. SeenHeld'
    BY <1>11, <1>12, <1>13, <2>1, <2>2 DEF CollectionInv, SeenHeld
  <2>5. OwnersJudged'
    BY <1>13, <2>1 DEF CollectionInv, OwnersJudged
  <2>6. ContextTrue'
    BY <1>13, <2>1 DEF CollectionInv, ContextTrue
  <2> QED
    BY <2>3, <2>4, <2>5, <2>6 DEF CollectionInv
<1>14. CASE /\ \A e \in Reads[place].asks : met[e] = 1
            /\ NextRead(Reads[place].asks \cup b.shown, b.omitted)
  <2>1. Reads[place].asks \cup b.shown \subseteq held
    BY <1>2, <1>11, <1>12, <1>14
  <2> QED
    BY <1>1, <1>4, <1>12, <1>14, <2>1, NextReadPreserves
<1> QED
  BY <1>6, <1>13, <1>14

LEMMA ReadPathPreserves ==
  ASSUME CollectionInv, ReadPath
  PROVE  CollectionInv'
<1>1. reading = "READING" /\ place \notin {10, 11}
  BY PlacesKnown DEF ReadPath
<1>2. UNCHANGED <<catalogue, evidence, collected>>
  BY DEF ReadPath
<1>3. Facts(listings, aspects) \subseteq held
  BY <1>1 DEF CollectionInv, Remembered
<1>4. CASE Reads[place].asks \subseteq Facts(listings, aspects) /\ NextRead(Reads[place].asks, {})
  BY <1>1, <1>2, <1>3, <1>4, NextReadPreserves
<1>5. CASE NextRead({}, Reads[place].asks \cap {"DASHBOARD_EDGE"})
  <2>1. Reads[place].asks \cap {"DASHBOARD_EDGE"} \subseteq Omissible
    BY DEF Omissible
  <2> QED
    BY <1>1, <1>2, <1>5, <2>1, NextReadPreserves
<1> QED
  BY <1>2, <1>4, <1>5, GivesPreserves DEF ReadPath

\* What an owner's read does not report is lacking at that moment.
LEMMA ReadDetailsPreserves ==
  ASSUME CollectionInv, ReadDetails
  PROVE  CollectionInv'
<1> DEFINE facts == Reads[place].asks \cap Facts(listings, aspects)
<1>1. reading = "READING"
  BY PlacesKnown DEF ReadDetails
<1>2. UNCHANGED <<catalogue, evidence, collected>> /\ NextRead(facts, {})
  BY DEF ReadDetails
<1>3. /\ Facts(listings, aspects) \subseteq held
      /\ Known \ Facts(listings, aspects) \subseteq lacked
  BY <1>1 DEF CollectionInv, Remembered
<1>4. "OWNER_DASHBOARD" \in Known /\ "OWNER_MODEL" \in Known
  BY KnownFacts
<1>5. place = 10 => "OWNER_DASHBOARD" \in facts \cup lacked
  BY <1>3, <1>4, ReadsKnown
<1>6. place = 11 => "OWNER_MODEL" \in facts \cup lacked
  BY <1>3, <1>4, ReadsKnown
<1>7. facts \subseteq held
  BY <1>3
<1> HIDE DEF facts
<1> QED
  BY <1>1, <1>2, <1>5, <1>6, <1>7, NextReadPreserves

\* When all has been read, whatever the context claims was seen.
LEMMA NormalizePreserves ==
  ASSUME CollectionInv, Normalize
  PROVE  CollectionInv'
<1>1. reading = "READING" /\ reading' = "CLOSING" /\ place > 14
  BY ReadsKnown DEF Normalize
<1>2. UNCHANGED <<listings, aspects, held, lacked, place, offset, matched, seen, silent, collected>>
  BY DEF Normalize, catalogue
<1>3. evidence' = {} \/ (Required \subseteq seen \cup silent /\ evidence' = Items(seen))
  BY DEF Normalize
<1>4. seen \subseteq held /\ "OWNER_DASHBOARD" \in seen \cup lacked /\ "OWNER_MODEL" \in seen \cup lacked
  BY <1>1 DEF CollectionInv, SeenHeld, OwnersJudged
<1>5. ContextTrue'
  <2>1. CASE evidence' = {}
    BY <2>1 DEF ContextTrue
  <2>2. CASE Required \subseteq seen \cup silent /\ evidence' = Items(seen)
    <3>1. \A i \in evidence' : i.claims \subseteq held \cup silent
      BY <1>4, <2>2, ItemsClaimFacts
    <3>2. \A i \in Unowned(evidence') : OwnerOf(i.about) \in lacked
      BY <1>4, <2>2, UnownedHasNoOwner
    <3>3. ExactlyFour(evidence') /\ Decision(Triggered(evidence')) = "BLOCK"
      BY <2>2, ItemsBlock
    <3> QED
      BY <1>2, <3>1, <3>2, <3>3 DEF ContextTrue
  <2> QED
    BY <1>3, <2>1, <2>2
<1>6. collected' => evidence' # {}
  <2>1. collected = FALSE
    BY <1>1 DEF CollectionInv, SeenHeld, Running
  <2> QED
    BY <1>2, <2>1
<1> QED
  BY <1>1, <1>2, <1>5, <1>6 DEF CollectionInv, ListingsTyped, Remembered, NothingYet, SeenHeld,
     OwnersJudged, Running

LEMMA CloseSessionPreserves ==
  ASSUME CollectionInv, CloseSession
  PROVE  CollectionInv'
BY DEF CloseSession, catalogue, CollectionInv, ListingsTyped, Remembered, NothingYet, SeenHeld,
       OwnersJudged, ContextTrue, Running

LEMMA CollectsPreserves ==
  ASSUME CollectionInv, Collects
  PROVE  CollectionInv'
<1>1. CASE ReadFails
  BY <1>1, GivesPreserves DEF ReadFails
<1> QED
  BY <1>1, ConnectPreserves, ReadPagePreserves, ReadPathPreserves, ReadDetailsPreserves,
     NormalizePreserves, CloseSessionPreserves DEF Collects

\* An edit takes nothing from the history.
LEMMA EditorsPreserve ==
  ASSUME CollectionInv, Editors
  PROVE  CollectionInv'
<1>1. Remembers
  BY DEF Editors, AddEntry, RemoveEntry, EditAspect
<1>2. /\ held \subseteq held' /\ lacked \subseteq lacked'
      /\ Facts(listings', aspects') \subseteq held'
      /\ Known \ Facts(listings', aspects') \subseteq lacked'
      /\ UNCHANGED collector
  BY <1>1 DEF Remembers
<1>3. ListingsTyped'
  <2>1. ASSUME NEW l \in DOMAIN listings,
               NEW e \in {"OTHER"} \cup (WantedIn[l] \ ToSet(listings[l])),
               NEW i \in 1 .. Len(listings[l]) + 1,
               listings' = [listings EXCEPT ![l] = InsertAt(@, i, e)]
        PROVE  ListingsTyped'
    <3>1. l \in DOMAIN WantedIn /\ listings[l] \in Seq(Entries)
      BY DEF CollectionInv, ListingsTyped
    <3>2. e \in Entries
      BY <3>1 DEF Entries, Wanted
    <3>3. InsertAt(listings[l], i, e) \in Seq(Entries)
      BY <3>1, <3>2 DEF InsertAt
    <3> QED
      BY <2>1, <3>3 DEF CollectionInv, ListingsTyped
  <2>2. ASSUME NEW l \in DOMAIN listings, NEW i \in DOMAIN listings[l],
               listings' = [listings EXCEPT ![l] = RemoveAt(@, i)]
        PROVE  ListingsTyped'
    <3>1. l \in DOMAIN WantedIn /\ listings[l] \in Seq(Entries)
      BY DEF CollectionInv, ListingsTyped
    <3>2. RemoveAt(listings[l], i) \in Seq(Entries)
      BY <3>1 DEF RemoveAt
    <3> QED
      BY <2>2, <3>2 DEF CollectionInv, ListingsTyped
  <2>3. CASE UNCHANGED listings
    BY <2>3 DEF CollectionInv, ListingsTyped
  <2> QED
    BY <2>1, <2>2, <2>3 DEF Editors, AddEntry, RemoveEntry, EditAspect
<1> QED
  BY <1>2, <1>3 DEF collector, CollectionInv, Remembered, NothingYet, SeenHeld, OwnersJudged,
     ContextTrue, Running

LEMMA CollectionIsTrue == ASSUME CollectionInv PROVE CollectedWasTrue
<1>1. silent \subseteq {"TERM_ON_FIELD", "DASHBOARD_EDGE"}
  BY DEF CollectionInv, SeenHeld, Omissible
<1> QED
  BY <1>1 DEF CollectionInv, ContextTrue, Running, CollectedWasTrue

=============================================================================
