------------------------- MODULE GitHubReviewProofs -------------------------
(***************************************************************************)
(* Safety of the publication of a review, for any number of processes and  *)
(* calls, any bound on reconciliations and any interference by others.     *)
(***************************************************************************)
EXTENDS GitHubReview, FiniteSetTheorems, TLAPS

\* The three POSTs, the processes and the other values are told apart.
LEMMA Distinct ==
  /\ \A c \in Callers : c # "NONE" /\ c # "OTHER"
  /\ MaxAttempts \in Nat /\ MaxAttempts > 0
BY ReviewAssumption

-----------------------------------------------------------------------------
(* What a step does to the record of its call.                             *)

Becomes(c, d) == call' = [call EXCEPT ![c] = d]

LEMMA GoesBecomes ==
  ASSUME call \in [Callers -> Call], NEW c \in Callers, NEW step \in Steps,
         Goes(c, step)
  PROVE  \E d \in Call : /\ Becomes(c, d) /\ d.step = step
                         /\ d.head = call[c].head /\ d.post = call[c].post
<1> DEFINE d == [call[c] EXCEPT !.step = step]
<1>1. Becomes(c, d)
  BY DEF Goes, Becomes
<1>2. d \in Call /\ d.step = step /\ d.head = call[c].head /\ d.post = call[c].post
  BY DEF Call
<1> QED
  BY <1>1, <1>2

LEMMA SendsBecomes ==
  ASSUME call \in [Callers -> Call], NEW c \in Callers, NEW post \in Posts,
         Sends(c, post)
  PROVE  \E d \in Call : /\ Becomes(c, d) /\ d.step = "POST"
                         /\ d.head = call[c].head /\ d.post = post
<1> DEFINE d == [[call[c] EXCEPT !.step = "POST"] EXCEPT !.post = post]
<1>1. Becomes(c, d)
  BY DEF Sends, Becomes
<1>2. d \in Call /\ d.step = "POST" /\ d.head = call[c].head /\ d.post = post
  BY DEF Call, Steps
<1> QED
  BY <1>1, <1>2

LEMMA ReconcilesBecomes ==
  ASSUME call \in [Callers -> Call], NEW c \in Callers, Reconciles(c)
  PROVE  \E d \in Call : /\ Becomes(c, d) /\ d.step = "HEAD"
                         /\ d.head = call[c].head
<1> DEFINE e == [call[c] EXCEPT !.step = "HEAD"]
           d == [e EXCEPT !.tries = 1]
<1>1. Becomes(c, d)
  BY DEF Reconciles, Becomes
<1>2. 1 \in 0 .. MaxAttempts
  BY Distinct
<1>3. e \in Call /\ e.step = "HEAD" /\ e.head = call[c].head
  BY DEF Call, Steps
<1> HIDE DEF e
<1>4. d \in Call /\ d.step = "HEAD" /\ d.head = call[c].head
  BY <1>2, <1>3 DEF Call
<1> QED
  BY <1>1, <1>4

LEMMA NotFoundBecomes ==
  ASSUME call \in [Callers -> Call], NEW c \in Callers, NotFound(c)
  PROVE  \E d \in Call : /\ Becomes(c, d) /\ d.step \in {"FAILED", "BASE", "HEAD"}
                         /\ d.head = call[c].head
<1>1. CASE Fails(c) \/ Goes(c, "BASE")
  BY <1>1, GoesBecomes DEF Fails, Steps, Ended
<1>2. CASE /\ call[c].tries \in 1 .. MaxAttempts - 1
           /\ call' = [call EXCEPT ![c].step = "HEAD", ![c].tries = @ + 1]
  <2> DEFINE d == [[call[c] EXCEPT !.step = "HEAD"] EXCEPT !.tries = @ + 1]
  <2>1. Becomes(c, d)
    BY <1>2 DEF Becomes
  <2>2. d \in Call /\ d.step = "HEAD" /\ d.head = call[c].head
    BY <1>2, Distinct DEF Call, Steps
  <2> QED
    BY <2>1, <2>2
<1> QED
  BY <1>1, <1>2 DEF NotFound

-----------------------------------------------------------------------------
(* Steps of a call that gain no right to post.                             *)

\* Such a step may end the right to post, learn the branch's commit and
\* return a receipt of a pull request that is the authorized one.
LEMMA QuietInv ==
  ASSUME ReviewInv, NEW c \in Callers, NEW d \in Call, Becomes(c, d),
         UNCHANGED <<sent, wire, remote>>,
         calls' \in Nat,
         authority' \in [consumed: BOOLEAN, late: BOOLEAN, lapsed: BOOLEAN],
         authority'.consumed = authority.consumed,
         d.step \notin {"POST", "WAIT", "EXISTING"},
         d.head # "OTHER", d.head \in {"NONE", call[c].head, tip},
         d.step = "PULLS" => d.head # "NONE",
         \/ UNCHANGED returned
         \/ \E r \in Receipt :
              /\ returned' = returned \cup {r}
              /\ r.head = call[c].head /\ r.head # "NONE"
              /\ r.pull \in DOMAIN pulls /\ pulls[r.pull].exact
  PROVE  ReviewInv'
<1>1. PICK w \in Callers \cup {"NONE"} :
        WorkOf(w) /\ CallsOf(w) /\ (~authority.consumed => w = "NONE")
  BY DEF ReviewInv
<1>2. /\ call'[c] = d /\ \A b \in Callers \ {c} : call'[b] = call[b]
      /\ call' \in [Callers -> Call]
  BY DEF ReviewInv, TypeOK, Becomes
<1>3. CallsOf(w)'
  BY <1>1, <1>2, Distinct DEF CallsOf, WorkOf, Holds
<1>4. WorkOf(w)'
  BY <1>1 DEF WorkOf, CallsOf, remote, ReviewInv, TypeOK, Receipt
<1>5. TypeOK'
  BY <1>2 DEF ReviewInv, TypeOK, remote
<1>6. StagesInOrder'
  BY <1>2 DEF ReviewInv, StagesInOrder, Holds
<1>7. PostsSentOnce'
  BY DEF ReviewInv, PostsSentOnce
<1> QED
  BY <1>1, <1>3, <1>4, <1>5, <1>6, <1>7 DEF ReviewInv

-----------------------------------------------------------------------------
(* Steps of a call that has, or gains, the right to post.                  *)

\* The consumption: nothing was sent before, so the work will be this call's.
LEMMA ConsumeInv ==
  ASSUME ReviewInv, NEW c \in Callers, Consume(c)
  PROVE  ReviewInv'
<1>1. PICK d \in Call : /\ Becomes(c, d) /\ d.step = "POST"
                        /\ d.head = call[c].head /\ d.post = "OBJECTS"
  BY SendsBecomes DEF Consume, ReviewInv, TypeOK, Posts
<1>2. /\ call'[c] = d /\ \A b \in Callers \ {c} : call'[b] = call[b]
      /\ call' \in [Callers -> Call]
  BY <1>1 DEF ReviewInv, TypeOK, Becomes
<1>3. WorkOf("NONE") /\ CallsOf("NONE") /\ \A p \in Posts : sent[p] = 0
  BY DEF Consume, ReviewInv, StagesInOrder
<1>4. /\ wire = {} /\ returned = {}
      /\ \A k \in DOMAIN pulls : pulls[k].by = "OTHER" /\ ~pulls[k].exact
  <2>1. \A k \in DOMAIN pulls : pulls[k] \in Pull
    BY DEF ReviewInv, TypeOK
  <2> QED
    BY <1>3, <2>1, Distinct DEF WorkOf, ReviewInv, TypeOK, Pull, StagesInOrder, Posts
<1>5. WorkOf(c)'
  BY <1>3, <1>4, Distinct DEF WorkOf, Consume, remote
<1>6. CallsOf(c)'
  BY <1>1, <1>2, <1>3, Distinct DEF CallsOf, Holds
<1>7. TypeOK'
  BY <1>2 DEF ReviewInv, TypeOK, Consume, remote
<1>8. StagesInOrder'
  BY <1>1, <1>2, <1>3, <1>4, Distinct
     DEF ReviewInv, StagesInOrder, Holds, CallsOf, Consume, Posts, TypeOK
<1>9. PostsSentOnce' /\ authority'.consumed
  BY DEF ReviewInv, PostsSentOnce, Consume, TypeOK
<1> QED
  BY <1>5, <1>6, <1>7, <1>8, <1>9 DEF ReviewInv

\* A POST is sent by the call whose work it is, for the first time.
LEMMA SendInv ==
  ASSUME ReviewInv, NEW c \in Callers, Send(c)
  PROVE  ReviewInv'
<1> DEFINE p == call[c].post
           m == [by |-> c, post |-> p]
<1>1. PICK w \in Callers \cup {"NONE"} :
        WorkOf(w) /\ CallsOf(w) /\ (~authority.consumed => w = "NONE")
  BY DEF ReviewInv
<1>2. PICK d \in Call : /\ Becomes(c, d) /\ d.step = "WAIT"
                        /\ d.head = call[c].head /\ d.post = call[c].post
  BY GoesBecomes DEF Send, ReviewInv, TypeOK, Steps
<1>3. /\ call'[c] = d /\ \A b \in Callers \ {c} : call'[b] = call[b]
      /\ call' \in [Callers -> Call] /\ p \in Posts
  BY <1>2 DEF ReviewInv, TypeOK, Becomes, Call
<1>4. Holds(c) /\ c = w /\ \A b \in Callers \ {c} : ~Holds(b)
  BY <1>1 DEF Holds, Send, At, CallsOf
<1>5. /\ sent[p] = 0 /\ sent' = [sent EXCEPT ![p] = 1]
      /\ sent'[p] = 1 /\ \A q \in Posts \ {p} : sent'[q] = sent[q]
  <2>1. sent[p] = 0
    BY <1>4 DEF Send, At, ReviewInv, StagesInOrder
  <2>2. sent' = [sent EXCEPT ![p] = sent[p] + 1]
    BY DEF Send
  <2> HIDE DEF p
  <2> QED
    BY <1>3, <2>1, <2>2 DEF ReviewInv, TypeOK
<1>6. wire' = wire \cup {m} /\ m \in [by: Callers, post: Posts]
  BY <1>3 DEF Send
<1>7. TypeOK'
  BY <1>3, <1>5, <1>6 DEF ReviewInv, TypeOK, Send, remote
<1>8. CallsOf(w)'
  BY <1>1, <1>2, <1>3, <1>4 DEF CallsOf, Holds
<1>9. WorkOf(w)'
  <2>1. sent'["PULL"] = 0 \/ [by |-> w, post |-> "PULL"] \in wire' =>
          sent["PULL"] = 0 \/ [by |-> w, post |-> "PULL"] \in wire
    BY <1>3, <1>5, <1>6 DEF Posts
  <2> QED
    BY <1>1, <1>4, <1>6, <2>1 DEF WorkOf, Send, remote
<1>10. StagesInOrder'
  <2>1. authority'.consumed
    BY <1>1, <1>4, Distinct DEF Send
  <2>2. \A n \in wire' : sent'[n.post] > 0
    BY <1>3, <1>5, <1>6 DEF ReviewInv, StagesInOrder, TypeOK
  <2>3. \A b \in Callers \ {c} :
          call'[b].step = call[b].step /\ ~Holds(b)'
    BY <1>3, <1>4 DEF Holds
  <2>4. /\ p = "OBJECTS" => sent'["REF"] = 0
        /\ p # "PULL" => sent'["PULL"] = 0
        /\ p # "OBJECTS" => call'[c].head = c
    BY <1>2, <1>3, <1>4, <1>5 DEF ReviewInv, StagesInOrder, Posts
  <2> QED
    BY <1>2, <1>3, <2>1, <2>2, <2>3, <2>4 DEF ReviewInv, StagesInOrder, Holds
<1>11. PostsSentOnce'
  BY <1>3, <1>5 DEF ReviewInv, PostsSentOnce, TypeOK
<1> QED
  BY <1>1, <1>7, <1>8, <1>9, <1>10, <1>11 DEF ReviewInv, Send

\* Between the branch and the pull request: nothing was posted for the latter.
LEMMA ExistingInv ==
  ASSUME ReviewInv, NEW c \in Callers, At(c, "EXISTING"), Sends(c, "PULL"),
         UNCHANGED <<authority, calls, returned, sent, wire, remote>>
  PROVE  ReviewInv'
<1>1. PICK w \in Callers \cup {"NONE"} :
        WorkOf(w) /\ CallsOf(w) /\ (~authority.consumed => w = "NONE")
  BY DEF ReviewInv
<1>2. PICK d \in Call : /\ Becomes(c, d) /\ d.step = "POST"
                        /\ d.head = call[c].head /\ d.post = "PULL"
  BY SendsBecomes DEF ReviewInv, TypeOK, Posts
<1>3. /\ call'[c] = d /\ \A b \in Callers \ {c} : call'[b] = call[b]
      /\ call' \in [Callers -> Call]
  BY <1>2 DEF ReviewInv, TypeOK, Becomes
<1>4. Holds(c) /\ call[c].post = "REF" /\ sent["PULL"] = 0 /\ call[c].head = c
  BY DEF Holds, At, ReviewInv, StagesInOrder
<1>5. CallsOf(w)'
  BY <1>1, <1>2, <1>3, <1>4 DEF CallsOf, Holds
<1>6. WorkOf(w)' /\ PostsSentOnce'
  BY <1>1 DEF WorkOf, remote, ReviewInv, PostsSentOnce
<1>7. TypeOK'
  BY <1>3 DEF ReviewInv, TypeOK, remote
<1>8. StagesInOrder'
  BY <1>2, <1>3, <1>4 DEF ReviewInv, StagesInOrder, Holds
<1> QED
  BY <1>1, <1>5, <1>6, <1>7, <1>8 DEF ReviewInv

-----------------------------------------------------------------------------
(* GitHub processes a POST.                                                *)

\* A POST that is still under way is the work of the one who publishes, and
\* what it does keeps the work his.
LEMMA ApplyWork ==
  ASSUME ReviewInv, NEW w \in Callers \cup {"NONE"}, WorkOf(w),
         NEW m \in wire, Apply(m), wire' = wire \ {m}, UNCHANGED sent,
         \/ UNCHANGED returned
         \/ /\ m.post = "PULL"
            /\ \E r \in Receipt : /\ returned' = returned \cup {r}
                                  /\ r.head = w /\ r.pull = Len(pulls) + 1
  PROVE  /\ WorkOf(w)' /\ m.by = w /\ w \in Callers
         /\ tip' \in Shas /\ pulls' \in Seq(Pull) /\ returned' \subseteq Receipt
<1>1. /\ m \in [by: Callers, post: Posts] /\ m.by = w /\ w \in Callers
      /\ sent[m.post] > 0 /\ w # "NONE" /\ w # "OTHER"
  BY Distinct DEF ReviewInv, TypeOK, StagesInOrder, WorkOf
<1>2. /\ pulls \in Seq(Pull) /\ tip \in Shas /\ returned \subseteq Receipt
      /\ base \in {"VALIDATED", "MOVED"} /\ sent \in [Posts -> Nat]
  BY DEF ReviewInv, TypeOK
<1>3. tip' \in Shas /\ tip' \in {"NONE", "OTHER", w}
  BY <1>1, <1>2 DEF Apply, Shas, WorkOf
<1>4. CASE m.post # "PULL"
  <2>1. pulls' = pulls /\ UNCHANGED returned
    BY <1>4 DEF Apply
  <2> QED
    BY <1>1, <1>2, <1>3, <2>1 DEF WorkOf
<1>5. CASE m.post = "PULL"
  <2> DEFINE new == [by |-> m.by, open |-> TRUE, exact |-> TRUE, base |-> base]
  <2>1. pulls' = Append(pulls, new) /\ new \in Pull /\ new.by = w
    BY <1>1, <1>2, <1>5 DEF Apply, Pull
  <2> HIDE DEF new
  <2>2. /\ pulls' \in Seq(Pull) /\ DOMAIN pulls = 1 .. Len(pulls)
        /\ Len(pulls) \in Nat
        /\ DOMAIN pulls' = 1 .. Len(pulls) + 1
        /\ \A k \in DOMAIN pulls : pulls'[k] = pulls[k]
        /\ pulls'[Len(pulls) + 1] = new
    BY <1>2, <2>1
  <2>3. /\ DOMAIN pulls' = DOMAIN pulls \cup {Len(pulls) + 1}
        /\ Len(pulls) + 1 \notin DOMAIN pulls
    BY <2>2
  <2>4. m = [by |-> w, post |-> "PULL"]
    BY <1>1, <1>5
  <2>5. \A k \in DOMAIN pulls : pulls[k].by # w
    BY <2>4 DEF WorkOf
  <2>6. /\ sent'["PULL"] # 0
        /\ [by |-> w, post |-> "PULL"] \notin wire'
    BY <1>1, <1>2, <1>5, <2>4 DEF Posts
  <2>7. \A j \in DOMAIN pulls', k \in DOMAIN pulls' :
          pulls'[j].by = w /\ pulls'[k].by = w => j = k
    BY <2>2, <2>3, <2>5
  <2>8. \A k \in DOMAIN pulls' :
          pulls'[k].by \in {"OTHER", w} /\ (pulls'[k].exact => pulls'[k].by = w)
    BY <2>1, <2>2, <2>3 DEF WorkOf
  <2>9. /\ returned' \subseteq Receipt
        /\ \A r \in returned' :
             r.head = w /\ r.pull \in DOMAIN pulls' /\ pulls'[r.pull].by = w
    BY <1>2, <2>1, <2>2, <2>3 DEF WorkOf
  <2> QED
    BY <1>1, <1>3, <2>2, <2>6, <2>7, <2>8, <2>9 DEF WorkOf
<1> QED
  BY <1>4, <1>5

\* A call that loses the right to post, or never had it.
LEMMA QuietCalls ==
  ASSUME ReviewInv, NEW w \in Callers \cup {"NONE"}, CallsOf(w),
         NEW c \in Callers, NEW d \in Call, Becomes(c, d),
         d.step \in {"FAILED", "RETURNED", "HEAD"}, d.head = call[c].head,
         UNCHANGED <<sent, authority>>, wire' \subseteq wire
  PROVE  CallsOf(w)' /\ StagesInOrder' /\ call' \in [Callers -> Call]
<1>1. /\ call'[c] = d /\ \A b \in Callers \ {c} : call'[b] = call[b]
      /\ call' \in [Callers -> Call]
  BY DEF ReviewInv, TypeOK, Becomes
<1>2. CallsOf(w)'
  BY <1>1 DEF CallsOf, Holds
<1>3. StagesInOrder'
  BY <1>1 DEF ReviewInv, StagesInOrder, Holds
<1> QED
  BY <1>1, <1>2, <1>3

LEMMA AnsweredInv ==
  ASSUME ReviewInv, NEW m \in wire, Answered(m)
  PROVE  ReviewInv'
<1> DEFINE c == m.by
<1>1. PICK w \in Callers \cup {"NONE"} :
        WorkOf(w) /\ CallsOf(w) /\ (~authority.consumed => w = "NONE")
  BY DEF ReviewInv
<1>2. /\ m \in [by: Callers, post: Posts] /\ c \in Callers
      /\ call[c].step = "WAIT" /\ call[c].post = m.post /\ Holds(c) /\ c = w
      /\ call \in [Callers -> Call]
      /\ \A b \in Callers \ {c} : ~Holds(b)
  BY <1>1 DEF ReviewInv, TypeOK, Answered, Waiting, At, Holds, CallsOf
<1>3. /\ wire' = wire \ {m} /\ Apply(m) /\ UNCHANGED <<authority, calls, sent>>
      /\ UNCHANGED <<base, meddled>>
  BY DEF Answered, Apply
<1>4. /\ m.post # "OBJECTS" => call[c].head = c
      /\ m.post = "OBJECTS" => sent["REF"] = 0
      /\ m.post # "PULL" => sent["PULL"] = 0
  BY <1>2 DEF ReviewInv, StagesInOrder
<1>5. PostsSentOnce' /\ (~authority'.consumed => w = "NONE")
  BY <1>1, <1>3 DEF ReviewInv, PostsSentOnce
<1>6. ASSUME WorkOf(w)', CallsOf(w)', StagesInOrder', call' \in [Callers -> Call],
             tip' \in Shas, pulls' \in Seq(Pull), returned' \subseteq Receipt
      PROVE  ReviewInv'
  <2>1. TypeOK'
    BY <1>3, <1>6 DEF ReviewInv, TypeOK
  <2> QED
    BY <1>5, <1>6, <2>1 DEF ReviewInv
<1>7. CASE m.post = "OBJECTS"
  <2> DEFINE e == [call[c] EXCEPT !.step = "POST"]
             f == [e EXCEPT !.post = "REF"]
             d == [f EXCEPT !.head = c]
  <2>1. Becomes(c, d) /\ UNCHANGED returned
    BY <1>7 DEF Answered, Becomes
  <2>2. e \in Call /\ e.step = "POST"
    BY <1>2 DEF Call, Steps
  <2> HIDE DEF e
  <2>3. f \in Call /\ f.step = "POST" /\ f.post = "REF"
    BY <2>2 DEF Call, Posts
  <2> HIDE DEF f
  <2>4. d \in Call /\ d.step = "POST" /\ d.post = "REF" /\ d.head = c
    BY <1>2, <2>3 DEF Call, Shas
  <2> HIDE DEF d
  <2>5. /\ call'[c] = d /\ \A b \in Callers \ {c} : call'[b] = call[b]
        /\ call' \in [Callers -> Call]
    BY <1>2, <2>1, <2>4 DEF Becomes
  <2>6. CallsOf(w)'
    BY <1>1, <1>2, <2>4, <2>5 DEF CallsOf, Holds
  <2>7. StagesInOrder'
    BY <1>2, <1>3, <1>4, <1>7, <2>4, <2>5 DEF ReviewInv, StagesInOrder, Holds
  <2> QED
    BY <1>1, <1>3, <1>6, <2>1, <2>5, <2>6, <2>7, ApplyWork
<1>8. CASE m.post = "REF"
  <2>1. Goes(c, "EXISTING") /\ UNCHANGED returned
    BY <1>8 DEF Answered
  <2>2. PICK d \in Call : /\ Becomes(c, d) /\ d.step = "EXISTING"
                          /\ d.head = call[c].head /\ d.post = call[c].post
    BY <1>2, <2>1, GoesBecomes DEF Steps
  <2>3. /\ call'[c] = d /\ \A b \in Callers \ {c} : call'[b] = call[b]
        /\ call' \in [Callers -> Call]
    BY <1>2, <2>2 DEF Becomes
  <2>4. CallsOf(w)'
    BY <1>1, <1>2, <2>2, <2>3 DEF CallsOf, Holds
  <2>5. StagesInOrder'
    BY <1>2, <1>3, <1>4, <1>8, <2>2, <2>3 DEF ReviewInv, StagesInOrder, Holds
  <2> QED
    BY <1>1, <1>3, <1>6, <2>1, <2>3, <2>4, <2>5, ApplyWork
<1>9. CASE m.post = "PULL"
  <2>1. \/ Returns(c, "CREATED", Len(pulls) + 1)
        \/ Fails(c) /\ UNCHANGED returned
    BY <1>9 DEF Answered
  <2>2. PICK d \in Call : /\ Becomes(c, d) /\ d.step \in {"FAILED", "RETURNED"}
                          /\ d.head = call[c].head
    BY <1>2, <2>1, GoesBecomes DEF Returns, Fails, Steps, Ended
  <2>3. CallsOf(w)' /\ StagesInOrder' /\ call' \in [Callers -> Call]
    BY <1>1, <1>2, <1>3, <2>2, QuietCalls
  <2>4. \/ UNCHANGED returned
        \/ \E r \in Receipt : /\ returned' = returned \cup {r}
                              /\ r.head = w /\ r.pull = Len(pulls) + 1
    <3>1. Len(pulls) + 1 \in Nat
      BY DEF ReviewInv, TypeOK
    <3> QED
      BY <1>2, <1>4, <1>9, <2>1, <3>1 DEF Returns, Receipt, Shas
  <2> QED
    BY <1>1, <1>3, <1>6, <1>9, <2>3, <2>4, ApplyWork
<1> QED
  BY <1>2, <1>7, <1>8, <1>9 DEF Posts

LEMMA UnheardInv ==
  ASSUME ReviewInv, NEW m \in wire, Unheard(m) \/ Lost(m)
  PROVE  ReviewInv'
<1>1. PICK w \in Callers \cup {"NONE"} :
        WorkOf(w) /\ CallsOf(w) /\ (~authority.consumed => w = "NONE")
  BY DEF ReviewInv
<1>2. /\ wire' = wire \ {m} /\ UNCHANGED <<authority, call, calls, returned, sent>>
      /\ Apply(m) \/ UNCHANGED remote
  BY DEF Unheard, Lost
<1>3. UNCHANGED <<base, meddled>>
  BY <1>2 DEF Apply, remote
<1>4. WorkOf(w)' /\ tip' \in Shas /\ pulls' \in Seq(Pull)
  <2>1. CASE Apply(m)
    BY <1>1, <1>2, <2>1, ApplyWork
  <2>2. CASE UNCHANGED remote
    BY <1>1, <1>2, <2>2 DEF WorkOf, remote, ReviewInv, TypeOK
  <2> QED
    BY <1>2, <2>1, <2>2
<1>5. CallsOf(w)' /\ StagesInOrder' /\ PostsSentOnce'
  BY <1>1, <1>2 DEF CallsOf, Holds, ReviewInv, StagesInOrder, PostsSentOnce
<1>6. TypeOK'
  BY <1>2, <1>3, <1>4 DEF ReviewInv, TypeOK
<1> QED
  BY <1>1, <1>2, <1>4, <1>5, <1>6 DEF ReviewInv

LEMMA RefusedInv ==
  ASSUME ReviewInv, NEW m \in wire, Refused(m)
  PROVE  ReviewInv'
<1>1. PICK w \in Callers \cup {"NONE"} :
        WorkOf(w) /\ CallsOf(w) /\ (~authority.consumed => w = "NONE")
  BY DEF ReviewInv
<1>2. m.by \in Callers /\ call \in [Callers -> Call]
  BY DEF ReviewInv, TypeOK
<1>3. /\ wire' = wire \ {m}
      /\ UNCHANGED <<authority, calls, returned, sent, remote>>
      /\ Reconciles(m.by) \/ Fails(m.by)
  BY DEF Refused
<1>4. PICK d \in Call : /\ Becomes(m.by, d) /\ d.step \in {"FAILED", "HEAD"}
                        /\ d.head = call[m.by].head
  BY <1>2, <1>3, GoesBecomes, ReconcilesBecomes DEF Fails, Steps, Ended
<1>5. CallsOf(w)' /\ StagesInOrder' /\ call' \in [Callers -> Call]
  BY <1>1, <1>2, <1>3, <1>4, QuietCalls
<1>6. WorkOf(w)' /\ PostsSentOnce'
  BY <1>1, <1>3 DEF WorkOf, remote, ReviewInv, PostsSentOnce
<1>7. TypeOK'
  BY <1>3, <1>5 DEF ReviewInv, TypeOK, remote
<1> QED
  BY <1>1, <1>3, <1>5, <1>6, <1>7 DEF ReviewInv

-----------------------------------------------------------------------------
(* The other users of the repository, and time.                            *)

\* The pull requests stay whose they are, and none becomes the authorized one.
PullsKept ==
  /\ pulls' \in Seq(Pull)
  /\ DOMAIN pulls \subseteq DOMAIN pulls'
  /\ \A k \in DOMAIN pulls :
       pulls'[k].by = pulls[k].by /\ (pulls'[k].exact => pulls[k].exact)
  /\ \A k \in DOMAIN pulls' \ DOMAIN pulls :
       pulls'[k].by = "OTHER" /\ ~pulls'[k].exact

LEMMA ChangeKeepsPulls ==
  ASSUME pulls \in Seq(Pull), pulls' \in [DOMAIN pulls -> Pull],
         \A k \in DOMAIN pulls :
           pulls'[k].by = pulls[k].by /\ (pulls'[k].exact => pulls[k].exact)
  PROVE  PullsKept
<1>1. DOMAIN pulls = 1 .. Len(pulls) /\ Len(pulls) \in Nat
  OBVIOUS
<1>2. pulls' \in Seq(Pull) /\ DOMAIN pulls' = DOMAIN pulls
  BY <1>1
<1> QED
  BY <1>2 DEF PullsKept

LEMMA OthersKeepPulls ==
  ASSUME ReviewInv, Others
  PROVE  PullsKept
<1>1. /\ pulls \in Seq(Pull) /\ DOMAIN pulls = 1 .. Len(pulls)
      /\ Len(pulls) \in Nat /\ \A k \in DOMAIN pulls : pulls[k] \in Pull
      /\ base \in {"VALIDATED", "MOVED"}
  BY DEF ReviewInv, TypeOK
<1>2. CASE PushBranch \/ PushBase
  BY <1>1, <1>2 DEF PushBranch, PushBase, PullsKept
<1>3. CASE OpenPull
  <2> DEFINE new == [by |-> "OTHER", open |-> TRUE, exact |-> FALSE, base |-> base]
  <2>1. pulls' = Append(pulls, new) /\ new \in Pull
    BY <1>1, <1>3 DEF OpenPull, Pull
  <2>2. new.by = "OTHER" /\ ~new.exact
    OBVIOUS
  <2> HIDE DEF new
  <2>3. /\ pulls' \in Seq(Pull) /\ DOMAIN pulls' = 1 .. Len(pulls) + 1
        /\ \A k \in DOMAIN pulls : pulls'[k] = pulls[k]
        /\ pulls'[Len(pulls) + 1] = new
    BY <1>1, <2>1
  <2> QED
    BY <1>1, <2>2, <2>3 DEF PullsKept
<1>4. CASE DeleteBranch
  <2> DEFINE change == [k \in DOMAIN pulls |-> [pulls[k] EXCEPT !.open = FALSE]]
  <2>1. /\ change \in [DOMAIN pulls -> Pull]
        /\ \A k \in DOMAIN pulls :
             change[k].by = pulls[k].by /\ change[k].exact = pulls[k].exact
    BY <1>1 DEF Pull
  <2>2. pulls' = change
    BY <1>4 DEF DeleteBranch
  <2> QED
    BY <1>1, <2>1, <2>2, ChangeKeepsPulls
<1>5. CASE ClosePull
  <2>1. PICK k \in DOMAIN pulls :
          pulls' = [pulls EXCEPT ![k] = [pulls[k] EXCEPT !.open = FALSE]]
    BY <1>5 DEF ClosePull
  <2> DEFINE closed == [pulls[k] EXCEPT !.open = FALSE]
  <2>2. closed \in Pull /\ closed.by = pulls[k].by /\ closed.exact = pulls[k].exact
    BY <1>1 DEF Pull
  <2> HIDE DEF closed
  <2>3. /\ pulls' \in [DOMAIN pulls -> Pull]
        /\ \A j \in DOMAIN pulls : pulls'[j] = IF j = k THEN closed ELSE pulls[j]
    BY <1>1, <2>1, <2>2 DEF closed
  <2> QED
    BY <1>1, <2>2, <2>3, ChangeKeepsPulls
<1>6. CASE EditPull
  <2>1. PICK k \in DOMAIN pulls :
          pulls' = [pulls EXCEPT ![k] = [pulls[k] EXCEPT !.exact = FALSE]]
    BY <1>6 DEF EditPull
  <2> DEFINE edited == [pulls[k] EXCEPT !.exact = FALSE]
  <2>2. edited \in Pull /\ edited.by = pulls[k].by /\ ~edited.exact
    BY <1>1 DEF Pull
  <2> HIDE DEF edited
  <2>3. /\ pulls' \in [DOMAIN pulls -> Pull]
        /\ \A j \in DOMAIN pulls : pulls'[j] = IF j = k THEN edited ELSE pulls[j]
    BY <1>1, <2>1, <2>2 DEF edited
  <2> QED
    BY <1>1, <2>2, <2>3, ChangeKeepsPulls
<1> QED
  BY <1>2, <1>3, <1>4, <1>5, <1>6 DEF Others

LEMMA OthersInv ==
  ASSUME ReviewInv, Others
  PROVE  ReviewInv'
<1>1. PICK w \in Callers \cup {"NONE"} :
        WorkOf(w) /\ CallsOf(w) /\ (~authority.consumed => w = "NONE")
  BY DEF ReviewInv
<1>2. /\ UNCHANGED <<authority, call, calls, returned, sent, wire>>
      /\ meddled' = meddled + 1
      /\ tip' \in {tip, "NONE", "OTHER"} /\ base' \in {base, "MOVED"}
  BY DEF Others, Meddle, PushBranch, DeleteBranch, OpenPull, ClosePull,
         EditPull, PushBase
<1>3. PullsKept
  BY OthersKeepPulls
<1>4. WorkOf(w)'
  <2>1. /\ w # "OTHER"
        /\ \A k \in DOMAIN pulls' : pulls'[k].by = w =>
             k \in DOMAIN pulls /\ pulls[k].by = w
    BY <1>3, Distinct DEF PullsKept
  <2>2. \A k \in DOMAIN pulls' :
          pulls'[k].by \in {"OTHER", w} /\ (pulls'[k].exact => pulls'[k].by = w)
    BY <1>1, <1>3 DEF PullsKept, WorkOf
  <2>3. \A r \in returned' :
          r.head = w /\ r.pull \in DOMAIN pulls' /\ pulls'[r.pull].by = w
    BY <1>1, <1>2, <1>3 DEF PullsKept, WorkOf
  <2> QED
    BY <1>1, <1>2, <2>1, <2>2, <2>3 DEF WorkOf
<1>5. TypeOK'
  BY <1>2, <1>3 DEF ReviewInv, TypeOK, PullsKept, Shas
<1>6. CallsOf(w)' /\ StagesInOrder' /\ PostsSentOnce'
  BY <1>1, <1>2 DEF CallsOf, Holds, ReviewInv, StagesInOrder, PostsSentOnce
<1> QED
  BY <1>1, <1>2, <1>4, <1>5, <1>6 DEF ReviewInv

\* A consumption without a call is the right of nobody.
LEMMA AuthorityInv ==
  ASSUME ReviewInv, ConsumeLate \/ Lapse
  PROVE  ReviewInv'
<1>1. PICK w \in Callers \cup {"NONE"} :
        WorkOf(w) /\ CallsOf(w) /\ (~authority.consumed => w = "NONE")
  BY DEF ReviewInv
<1>2. /\ UNCHANGED <<call, calls, returned, sent, wire, remote>>
      /\ authority' \in [consumed: BOOLEAN, late: BOOLEAN, lapsed: BOOLEAN]
      /\ authority.consumed => authority'.consumed
  BY DEF ReviewInv, TypeOK, ConsumeLate, Lapse
<1>3. WorkOf(w)' /\ CallsOf(w)'
  BY <1>1, <1>2 DEF WorkOf, CallsOf, Holds, remote
<1>4. TypeOK' /\ PostsSentOnce' /\ StagesInOrder'
  BY <1>2 DEF ReviewInv, TypeOK, PostsSentOnce, StagesInOrder, Holds, remote
<1> QED
  BY <1>1, <1>2, <1>3, <1>4 DEF ReviewInv

-----------------------------------------------------------------------------
(* Every step.                                                             *)

\* The steps of a call that neither gain the right to post nor use it.
LEMMA QuietStepInv ==
  ASSUME ReviewInv, NEW c \in Callers,
         \/ Begin(c) \/ Verify(c) \/ ReadHead(c) \/ ReadPulls(c) \/ ReadFails(c)
         \/ ReadBase(c) \/ ConsumeFails(c) \/ GiveUp(c) \/ Crash(c)
         \/ ReadExisting(c) /\ ~(Sends(c, "PULL") /\ UNCHANGED returned)
  PROVE  ReviewInv'
<1>1. /\ call \in [Callers -> Call] /\ calls \in Nat /\ tip \in Shas
      /\ authority \in [consumed: BOOLEAN, late: BOOLEAN, lapsed: BOOLEAN]
      /\ pulls \in Seq(Pull) /\ call[c].head # "OTHER" /\ call[c].head \in Shas
  <2>1. call[c].head \in Callers \cup {"NONE"}
    BY DEF ReviewInv, CallsOf
  <2> QED
    BY <2>1, Distinct DEF ReviewInv, TypeOK, Shas
<1>2. CASE Begin(c)
  <2>1. PICK step \in {"FAILED", "VERIFY"} :
          call' = [call EXCEPT ![c] =
                     [NoCall EXCEPT !.step = step, !.consumed = authority.consumed]]
    BY <1>2 DEF Begin
  <2> DEFINE e == [NoCall EXCEPT !.step = step]
             d == [e EXCEPT !.consumed = authority.consumed]
  <2>2. NoCall \in Call /\ NoCall.head = "NONE"
    BY Distinct DEF NoCall, Call, Steps, Ended, Posts, Shas
  <2>3. Becomes(c, d)
    BY <2>1 DEF Becomes
  <2>4. e \in Call /\ e.step = step /\ e.head = "NONE"
    BY <2>2 DEF Call, Steps, Ended
  <2> HIDE DEF e
  <2>5. d \in Call /\ d.step = step /\ d.head = "NONE"
    BY <1>1, <2>4 DEF Call
  <2> HIDE DEF d
  <2>6. d.step \notin {"POST", "WAIT", "EXISTING", "PULLS"}
    BY <2>5
  <2>7. calls' = calls + 1 /\ UNCHANGED <<authority, returned, sent, wire, remote>>
    BY <1>2, Zenon DEF Begin
  <2>8. /\ calls' \in Nat
        /\ UNCHANGED <<sent, wire, remote>> /\ UNCHANGED returned
        /\ authority' = authority
    BY <1>1, <2>7
  <2> QED
    BY <1>1, <2>3, <2>5, <2>6, <2>8, QuietInv
<1>3. CASE Crash(c)
  <2>1. NoCall \in Call /\ NoCall.step = "IDLE" /\ NoCall.head = "NONE"
    BY Distinct DEF NoCall, Call, Steps, Ended, Posts, Shas
  <2>2. Becomes(c, NoCall)
    BY <1>3 DEF Crash, Becomes
  <2> QED
    BY <1>1, <1>3, <2>1, <2>2, QuietInv DEF Crash
<1>4. ASSUME NEW d \in Call, Becomes(c, d),
             d.step \in {"FAILED", "RETURNED", "HEAD", "BASE", "CONSUME"},
             d.head = call[c].head,
             UNCHANGED <<calls, sent, wire, remote>>,
             \/ UNCHANGED authority
             \/ authority' = [authority EXCEPT !.late = TRUE],
             \/ UNCHANGED returned
             \/ \E r \in Receipt :
                  /\ returned' = returned \cup {r}
                  /\ r.head = call[c].head /\ r.head # "NONE"
                  /\ r.pull \in DOMAIN pulls /\ pulls[r.pull].exact
      PROVE  ReviewInv'
  BY <1>1, <1>4, QuietInv
<1>5. CASE Verify(c) \/ ReadFails(c) \/ ReadBase(c) \/ GiveUp(c)
  <2>1. \/ \E step \in {"FAILED", "HEAD", "CONSUME"} : Goes(c, step)
        \/ Reconciles(c)
    BY <1>5 DEF Verify, ReadFails, ReadBase, GiveUp, Fails
  <2>2. \E d \in Call : /\ Becomes(c, d) /\ d.head = call[c].head
                        /\ d.step \in {"FAILED", "HEAD", "CONSUME"}
    BY <1>1, <2>1, GoesBecomes, ReconcilesBecomes DEF Steps, Ended
  <2> QED
    BY <1>4, <1>5, <2>2 DEF Verify, ReadFails, ReadBase, GiveUp
<1>6. CASE ConsumeFails(c)
  <2>1. Reconciles(c) /\ authority' \in {authority, [authority EXCEPT !.late = TRUE]}
    BY <1>1, <1>6 DEF ConsumeFails
  <2> QED
    BY <1>1, <1>4, <1>6, <2>1, ReconcilesBecomes DEF ConsumeFails
<1>7. CASE ReadHead(c)
  <2>1. CASE NotFound(c) \/ Fails(c)
    <3>1. \E d \in Call : /\ Becomes(c, d) /\ d.head = call[c].head
                          /\ d.step \in {"FAILED", "HEAD", "BASE"}
      BY <1>1, <2>1, GoesBecomes, NotFoundBecomes DEF Fails, Steps, Ended
    <3> QED
      BY <1>4, <1>7, <3>1 DEF ReadHead
  <2>2. CASE /\ tip \in Callers
             /\ call' = [call EXCEPT ![c].step = "PULLS", ![c].head = tip]
    <3> DEFINE e == [call[c] EXCEPT !.step = "PULLS"]
               d == [e EXCEPT !.head = tip]
    <3>1. Becomes(c, d)
      BY <2>2 DEF Becomes
    <3>2. e \in Call /\ e.step = "PULLS"
      BY <1>1 DEF Call, Steps
    <3> HIDE DEF e
    <3>3. d \in Call /\ d.step = "PULLS" /\ d.head = tip
      BY <1>1, <3>2 DEF Call
    <3> HIDE DEF d
    <3>4. tip # "NONE" /\ tip # "OTHER"
      BY <2>2, Distinct
    <3> QED
      BY <1>1, <1>7, <3>1, <3>3, <3>4, QuietInv DEF ReadHead
  <2> QED
    BY <1>7, <2>1, <2>2 DEF ReadHead
<1>8. CASE \/ ReadPulls(c)
           \/ ReadExisting(c) /\ ~(Sends(c, "PULL") /\ UNCHANGED returned)
  <2>1. /\ call[c].head # "NONE"
        /\ UNCHANGED <<authority, calls, sent, wire, remote>>
    BY <1>8, Distinct
       DEF ReadPulls, ReadExisting, At, ReviewInv, StagesInOrder, Holds
  <2>2. \/ (Fails(c) \/ NotFound(c)) /\ UNCHANGED returned
        \/ \E outcome \in {"CREATED", "SKIPPED_EXACT"} :
             Len(pulls) = 1 /\ Fits(c, pulls[1]) /\ Returns(c, outcome, 1)
    BY <1>8 DEF ReadPulls, ReadExisting
  <2>3. CASE (Fails(c) \/ NotFound(c)) /\ UNCHANGED returned
    <3>1. \E d \in Call : /\ Becomes(c, d) /\ d.head = call[c].head
                          /\ d.step \in {"FAILED", "HEAD", "BASE"}
      BY <1>1, <2>3, GoesBecomes, NotFoundBecomes DEF Fails, Steps, Ended
    <3> QED
      BY <1>4, <2>1, <2>3, <3>1
  <2>4. ASSUME NEW outcome \in {"CREATED", "SKIPPED_EXACT"},
               Len(pulls) = 1, Fits(c, pulls[1]), Returns(c, outcome, 1)
        PROVE  ReviewInv'
    <3> DEFINE r == [by |-> c, outcome |-> outcome, pull |-> 1, head |-> call[c].head]
    <3>1. \E d \in Call : /\ Becomes(c, d) /\ d.head = call[c].head
                          /\ d.step = "RETURNED"
      BY <1>1, <2>4, GoesBecomes DEF Returns, Steps, Ended
    <3>2. returned' = returned \cup {r} /\ r \in Receipt
      BY <1>1, <2>4 DEF Returns, Receipt
    <3>3. r.head = call[c].head /\ r.pull = 1
      OBVIOUS
    <3> HIDE DEF r
    <3>4. 1 \in DOMAIN pulls /\ pulls[1].exact
      BY <1>1, <2>4 DEF Fits
    <3> QED
      BY <1>4, <2>1, <3>1, <3>2, <3>3, <3>4
  <2> QED
    BY <2>2, <2>3, <2>4
<1> QED
  BY <1>2, <1>3, <1>5, <1>6, <1>7, <1>8

LEMMA InitInv == Init => ReviewInv
<1> SUFFICES ASSUME Init PROVE ReviewInv
  OBVIOUS
<1>1. NoCall \in Call /\ NoCall.step = "IDLE" /\ NoCall.head = "NONE"
  BY Distinct DEF NoCall, Call, Steps, Ended, Posts, Shas
<1>2. TypeOK
  BY <1>1 DEF Init, TypeOK, Shas
<1>3. PostsSentOnce /\ StagesInOrder
  BY <1>1 DEF Init, PostsSentOnce, StagesInOrder, Holds
<1>4. WorkOf("NONE") /\ CallsOf("NONE")
  BY <1>1 DEF Init, WorkOf, CallsOf, Holds
<1> QED
  BY <1>2, <1>3, <1>4 DEF ReviewInv

LEMMA NextInv == ReviewInv /\ [Next]_vars => ReviewInv'
<1> SUFFICES ASSUME ReviewInv, [Next]_vars PROVE ReviewInv'
  OBVIOUS
<1>1. ASSUME NEW c \in Callers, Begin(c) \/ CallStep(c) \/ Crash(c)
      PROVE  ReviewInv'
  <2>1. CASE ReadExisting(c) /\ Sends(c, "PULL") /\ UNCHANGED returned
    BY <2>1, ExistingInv DEF ReadExisting
  <2>2. CASE Consume(c) \/ Send(c)
    BY <2>2, ConsumeInv, SendInv
  <2> QED
    BY <1>1, <2>1, <2>2, QuietStepInv DEF CallStep
<1>2. ASSUME NEW m \in wire, Processed(m) PROVE ReviewInv'
  BY <1>2, AnsweredInv, UnheardInv, RefusedInv DEF Processed
<1>3. CASE ConsumeLate \/ Lapse \/ Others
  BY <1>3, AuthorityInv, OthersInv
<1>4. CASE UNCHANGED vars
  <2>1. PICK w \in Callers \cup {"NONE"} :
          WorkOf(w) /\ CallsOf(w) /\ (~authority.consumed => w = "NONE")
    BY DEF ReviewInv
  <2>2. WorkOf(w)' /\ CallsOf(w)'
    BY <1>4, <2>1 DEF vars, remote, WorkOf, CallsOf, Holds
  <2>3. TypeOK' /\ PostsSentOnce' /\ StagesInOrder'
    BY <1>4 DEF vars, remote, ReviewInv, TypeOK, PostsSentOnce, StagesInOrder, Holds
  <2> QED
    BY <1>4, <2>1, <2>2, <2>3 DEF vars, ReviewInv
<1> QED
  BY <1>1, <1>2, <1>3, <1>4 DEF Next

-----------------------------------------------------------------------------
(* The theorems.                                                           *)

\* The inductive invariant holds: one process publishes, and in order.
THEOREM ReviewInvariant == Spec => []ReviewInv
<1>1. ReviewInv /\ [Next]_vars => ReviewInv'
  BY NextInv
<1> QED
  BY <1>1, InitInv, PTL DEF Spec

\* No call reconciles more often than options.maxAttempts says.
THEOREM ReviewTyped == Spec => []TypeOK
<1>1. ReviewInv => TypeOK
  BY DEF ReviewInv
<1> QED
  BY <1>1, ReviewInvariant, PTL

\* "A GitHub POST is sent at most once", however many processes hold the
\* request, whatever crashes, times out, is lost or arrives late.
THEOREM EveryPostSentOnce == Spec => []PostsSentOnce
<1>1. ReviewInv => PostsSentOnce
  BY DEF ReviewInv
<1> QED
  BY <1>1, ReviewInvariant, PTL

\* All receipts ever returned name the same commit and pull request.
THEOREM ReceiptsNeverDisagree == Spec => []ReceiptsAgree
<1>1. ReviewInv => ReceiptsAgree
  BY DEF ReviewInv, WorkOf, ReceiptsAgree
<1> QED
  BY <1>1, ReviewInvariant, PTL

-----------------------------------------------------------------------------
(* Receipts are true.                                                      *)

\* A receipt whose pull request fits in the next state.
LEMMA ReturnsBacked ==
  ASSUME ReviewInv, NEW c \in Callers,
         NEW outcome \in {"CREATED", "SKIPPED_EXACT"}, NEW k \in Nat,
         Returns(c, outcome, k), k \in DOMAIN pulls',
         pulls'[k].open, pulls'[k].exact, pulls'[k].base = "VALIDATED",
         tip' = call[c].head, call[c].head # "NONE"
  PROVE  \E r \in returned' :
           r.by = c /\ r.head = call'[c].head /\ Backed(r)'
<1> DEFINE r == [by |-> c, outcome |-> outcome, pull |-> k, head |-> call[c].head]
<1>1. call \in [Callers -> Call] /\ call[c].head \in Callers
  BY DEF ReviewInv, TypeOK, CallsOf
<1>2. call'[c].head = call[c].head
  BY <1>1 DEF Returns, Goes, Call
<1>3. r \in returned'
  BY DEF Returns
<1>4. r.by = c /\ r.head = call[c].head /\ r.pull = k
  OBVIOUS
<1> HIDE DEF r
<1> QED
  BY <1>1, <1>2, <1>3, <1>4 DEF Backed

\* Only three steps return a receipt.
LEMMA ReturningSteps ==
  ASSUME ReviewInv, [Next]_vars, NEW c \in Callers,
         call'[c].step = "RETURNED", call[c].step # "RETURNED"
  PROVE  \/ ReadPulls(c) \/ ReadExisting(c)
         \/ \E m \in wire : m.by = c /\ Answered(m)
<1>1. call \in [Callers -> Call]
  BY DEF ReviewInv, TypeOK
<1>2. \A b \in Callers, step \in Steps :
        Goes(b, step) => step = "RETURNED" /\ b = c
  BY <1>1 DEF Goes, Call
<1>3. \A b \in Callers : ~Reconciles(b) /\ (\A p \in Posts : ~Sends(b, p))
  BY <1>1 DEF Reconciles, Sends, Call
<1>4. \A b \in Callers : ~NotFound(b)
  BY <1>1, <1>2 DEF NotFound, Fails, Call, Steps, Ended
<1>5. ASSUME NEW b \in Callers, Begin(b) \/ CallStep(b) \/ Crash(b)
      PROVE  ReadPulls(c) \/ ReadExisting(c)
  <2>1. ~Begin(b)
    BY <1>1 DEF Begin, NoCall
  <2>2. ~Crash(b)
    BY <1>1 DEF Crash, NoCall
  <2>3. ~Verify(b) /\ ~ReadBase(b) /\ ~Send(b)
    BY <1>2 DEF Verify, ReadBase, Send, Fails, Steps, Ended
  <2>4. ~ReadFails(b) /\ ~GiveUp(b) /\ ~ConsumeFails(b) /\ ~Consume(b)
    BY <1>2, <1>3 DEF ReadFails, GiveUp, ConsumeFails, Consume, Fails, Steps, Ended, Posts
  <2>5. ~ReadHead(b)
    <3>1. call' # [call EXCEPT ![b].step = "PULLS", ![b].head = tip]
      BY <1>1 DEF Call
    <3> QED
      BY <1>2, <1>4, <3>1 DEF ReadHead, Fails, Steps, Ended
  <2>6. ReadPulls(b) => b = c
    BY <1>2, <1>4 DEF ReadPulls, Returns, Fails, Steps, Ended
  <2>7. ReadExisting(b) => b = c
    BY <1>2, <1>3 DEF ReadExisting, Returns, Fails, Steps, Ended, Posts
  <2> QED
    BY <1>5, <2>1, <2>2, <2>3, <2>4, <2>5, <2>6, <2>7 DEF CallStep
<1>6. ASSUME NEW m \in wire, Processed(m)
      PROVE  m.by = c /\ Answered(m)
  <2>1. m.by \in Callers
    BY DEF ReviewInv, TypeOK
  <2>2. ~Unheard(m) /\ ~Lost(m)
    BY DEF Unheard, Lost
  <2>3. ~Refused(m)
    BY <1>2, <1>3, <2>1 DEF Refused, Fails, Steps, Ended
  <2>4. Answered(m) => m.by = c
    <3>1. call' # [call EXCEPT ![m.by].step = "POST", ![m.by].post = "REF",
                               ![m.by].head = m.by]
      BY <1>1, <2>1 DEF Call
    <3> QED
      BY <1>2, <2>1, <3>1 DEF Answered, Returns, Fails, Steps, Ended
  <2> QED
    BY <1>6, <2>2, <2>3, <2>4 DEF Processed
<1>7. ~ConsumeLate /\ ~Lapse /\ ~Others /\ ~UNCHANGED vars
  BY DEF ConsumeLate, Lapse, Others, Meddle, PushBranch, DeleteBranch,
         OpenPull, ClosePull, EditPull, PushBase, vars
<1> QED
  BY <1>5, <1>6, <1>7 DEF Next

LEMMA ReturnIsTrue ==
  ASSUME ReviewInv, [Next]_vars, NEW c \in Callers,
         call'[c].step = "RETURNED", call[c].step # "RETURNED"
  PROVE  \E r \in returned' :
           r.by = c /\ r.head = call'[c].head /\ Backed(r)'
<1>1. call \in [Callers -> Call] /\ pulls \in Seq(Pull)
  BY DEF ReviewInv, TypeOK
<1>2. CASE ReadPulls(c) \/ ReadExisting(c)
  <2>1. call[c].head # "NONE" /\ UNCHANGED remote
    BY <1>2, Distinct
       DEF ReadPulls, ReadExisting, At, ReviewInv, StagesInOrder, Holds
  <2>2. ~Fails(c) /\ ~NotFound(c) /\ ~Sends(c, "PULL")
    BY <1>1 DEF Fails, Goes, NotFound, Sends, Call
  <2>3. \E outcome \in {"CREATED", "SKIPPED_EXACT"} :
          Len(pulls) = 1 /\ Fits(c, pulls[1]) /\ Returns(c, outcome, 1)
    BY <1>2, <2>2 DEF ReadPulls, ReadExisting
  <2>4. 1 \in DOMAIN pulls' /\ pulls' = pulls /\ tip' = tip
    BY <1>1, <2>1, <2>3 DEF remote
  <2> QED
    BY <2>1, <2>3, <2>4, ReturnsBacked DEF Fits
<1>3. ASSUME NEW m \in wire, m.by = c, Answered(m)
      PROVE  \E r \in returned' :
               r.by = c /\ r.head = call'[c].head /\ Backed(r)'
  <2>1. ~Fails(c) /\ ~Goes(c, "EXISTING")
    BY <1>1 DEF Fails, Goes, Call
  <2>2. call' # [call EXCEPT ![c].step = "POST", ![c].post = "REF", ![c].head = c]
    BY <1>1 DEF Call
  <2>3. /\ m.post = "PULL" /\ Fits(c, pulls'[Len(pulls')])
        /\ Returns(c, "CREATED", Len(pulls) + 1)
    BY <1>3, <2>1, <2>2 DEF Answered
  <2>4. Apply(m) /\ call[c].step = "WAIT" /\ call[c].post = "PULL"
    BY <1>3, <2>3 DEF Answered, Waiting, At
  <2>5. call[c].head = c /\ call[c].head # "NONE"
    BY <2>4, Distinct DEF ReviewInv, StagesInOrder, Holds
  <2>6. /\ Len(pulls) + 1 \in Nat /\ Len(pulls') = Len(pulls) + 1
        /\ Len(pulls) + 1 \in DOMAIN pulls' /\ tip' = tip
    BY <1>1, <2>3, <2>4 DEF Apply
  <2> QED
    BY <2>3, <2>5, <2>6, ReturnsBacked DEF Fits
<1> QED
  BY <1>2, <1>3, ReturningSteps

\* What a receipt says is true when the call returns, whatever others do
\* between the call's reads and writes.
THEOREM ReceiptsHold == Spec => ReceiptsAreTrue
<1>1. ReviewInv /\ [Next]_vars =>
        [\A c \in Callers :
           call'[c].step = "RETURNED" /\ call[c].step # "RETURNED" =>
             \E r \in returned' :
               r.by = c /\ r.head = call'[c].head /\ Backed(r)']_vars
  BY ReturnIsTrue
<1> QED
  BY <1>1, ReviewInvariant, PTL DEF Spec, ReceiptsAreTrue

-----------------------------------------------------------------------------
(* The publication is one external effect.                                 *)

Ours == {k \in DOMAIN pulls : pulls[k].by \in Callers}

\* A step opens one pull request, the first, or none.
LEMMA OpensOne ==
  ASSUME ReviewInv, [Next]_vars
  PROVE  \/ Ours' = Ours
         \/ /\ Ours = {} /\ authority.consumed /\ authority' = authority
            /\ \E k \in Nat : Ours' = {k}
<1>1. pulls \in Seq(Pull) /\ wire \subseteq [by: Callers, post: Posts]
  BY DEF ReviewInv, TypeOK
<1>2. CASE UNCHANGED pulls
  BY <1>2 DEF Ours
<1>3. CASE Others
  <2>1. PullsKept
    BY <1>3, OthersKeepPulls
  <2> QED
    BY <2>1, Distinct DEF PullsKept, Ours
<1>4. ASSUME NEW m \in wire, Apply(m), m.post = "PULL", authority' = authority
      PROVE  /\ Ours = {} /\ authority.consumed
             /\ Ours' = {Len(pulls) + 1} /\ Len(pulls) + 1 \in Nat
  <2>1. PICK w \in Callers \cup {"NONE"} :
          WorkOf(w) /\ (~authority.consumed => w = "NONE")
    BY DEF ReviewInv
  <2>2. /\ m = [by |-> w, post |-> "PULL"] /\ w \in Callers
        /\ authority.consumed
    BY <1>1, <1>4, <2>1, Distinct DEF WorkOf
  <2>3. \A k \in DOMAIN pulls : pulls[k].by = "OTHER"
    BY <2>1, <2>2 DEF WorkOf
  <2>4. Ours = {}
    BY <2>3, Distinct DEF Ours
  <2> DEFINE new == [by |-> m.by, open |-> TRUE, exact |-> TRUE, base |-> base]
  <2>5. pulls' = Append(pulls, new) /\ new.by \in Callers
    BY <1>1, <1>4, <2>2 DEF Apply
  <2>6. new \in Pull
    BY <1>1, <1>4 DEF Pull, ReviewInv, TypeOK
  <2> HIDE DEF new
  <2>7. /\ DOMAIN pulls = 1 .. Len(pulls) /\ Len(pulls) \in Nat
        /\ DOMAIN pulls' = 1 .. Len(pulls) + 1
        /\ \A k \in DOMAIN pulls : pulls'[k] = pulls[k]
        /\ pulls'[Len(pulls) + 1] = new
    BY <1>1, <2>5, <2>6
  <2>8. \A k \in DOMAIN pulls' : k \in Ours' <=> k = Len(pulls) + 1
    BY <2>3, <2>5, <2>7, Distinct DEF Ours
  <2>9. Ours' \subseteq DOMAIN pulls' /\ Len(pulls) + 1 \in DOMAIN pulls'
    BY <2>7 DEF Ours
  <2> QED
    BY <2>2, <2>4, <2>7, <2>8, <2>9
<1>5. ASSUME NEW m \in wire, Processed(m), ~UNCHANGED pulls
      PROVE  Apply(m) /\ m.post = "PULL" /\ authority' = authority
  BY <1>5 DEF Processed, Answered, Unheard, Refused, Lost, Apply, remote
<1>6. ASSUME NEW c \in Callers, Begin(c) \/ CallStep(c) \/ Crash(c)
      PROVE  UNCHANGED pulls
  BY <1>6 DEF Begin, CallStep, Crash, Verify, ReadHead, ReadPulls, ReadFails,
     ReadBase, Consume, ConsumeFails, Send, GiveUp, ReadExisting, remote
<1>7. CASE ConsumeLate \/ Lapse \/ UNCHANGED vars
  BY <1>2, <1>7 DEF ConsumeLate, Lapse, vars, remote
<1> QED
  BY <1>2, <1>3, <1>4, <1>5, <1>6, <1>7 DEF Next

\* The right to post is never given back.
LEMMA ConsumptionIsFinal ==
  ASSUME ReviewInv, [Next]_vars
  PROVE  \/ authority'.consumed = authority.consumed
         \/ /\ ~authority.consumed /\ authority'.consumed /\ UNCHANGED pulls
<1>1. authority \in [consumed: BOOLEAN, late: BOOLEAN, lapsed: BOOLEAN]
  BY DEF ReviewInv, TypeOK
<1>2. ASSUME NEW c \in Callers, Begin(c) \/ CallStep(c) \/ Crash(c)
      PROVE  \/ authority'.consumed = authority.consumed
             \/ ~authority.consumed /\ authority'.consumed /\ UNCHANGED pulls
  BY <1>1, <1>2 DEF Begin, CallStep, Crash, Verify, ReadHead, ReadPulls,
     ReadFails, ReadBase, Consume, ConsumeFails, Send, GiveUp, ReadExisting, remote
<1>3. ASSUME NEW m \in wire, Processed(m) PROVE authority' = authority
  BY <1>3 DEF Processed, Answered, Unheard, Refused, Lost
<1>4. CASE ConsumeLate \/ Lapse \/ Others \/ UNCHANGED vars
  BY <1>1, <1>4 DEF ConsumeLate, Lapse, vars, remote, Others, Meddle, PushBranch,
     DeleteBranch, OpenPull, ClosePull, EditPull, PushBase
<1> QED
  BY <1>2, <1>3, <1>4 DEF Next

\* Called once the reservation is consumed, applied once: the port keeps the
\* promise of ExternalEffects.
THEOREM ReviewImplementsEffect == Spec => ImplementsEffect
<1> DEFINE phase == [i \in {"REVIEW"} |-> IF authority.consumed THEN "CALLED" ELSE "IDLE"]
           applied == [i \in {"REVIEW"} |-> Cardinality(Ours)]
<1>1. Init => Effect!Init
  <2> SUFFICES ASSUME Init PROVE Effect!Init
    OBVIOUS
  <2>1. Ours = {} /\ Cardinality({}) = 0 /\ ~authority.consumed
    BY FS_EmptySet DEF Init, Ours
  <2> QED
    BY <2>1 DEF Effect!Init, Ours
<1>2. ReviewInv /\ [Next]_vars => [Effect!Next]_(Effect!ledger)
  <2> SUFFICES ASSUME ReviewInv, [Next]_vars
               PROVE  Effect!Next \/ UNCHANGED <<phase, applied>>
    BY DEF Effect!ledger, Ours
  <2>1. CASE authority'.consumed = authority.consumed /\ Ours' = Ours
    BY <2>1
  <2>2. CASE ~authority.consumed /\ authority'.consumed /\ UNCHANGED pulls
    <3>1. UNCHANGED applied
      BY <2>2 DEF Ours
    <3>2. phase["REVIEW"] = "IDLE" /\ phase' = [phase EXCEPT !["REVIEW"] = "CALLED"]
      BY <2>2
    <3>3. Effect!Call("REVIEW") <=>
            /\ phase["REVIEW"] = "IDLE"
            /\ phase' = [phase EXCEPT !["REVIEW"] = "CALLED"]
            /\ UNCHANGED applied
      BY DEF Effect!Call, Ours
    <3> QED
      BY <3>1, <3>2, <3>3 DEF Effect!Next
  <2>3. CASE /\ Ours = {} /\ authority.consumed /\ authority' = authority
             /\ \E k \in Nat : Ours' = {k}
    <3>1. Cardinality(Ours) = 0 /\ Cardinality(Ours') = 1
      BY <2>3, FS_EmptySet, FS_Singleton
    <3>2. /\ phase["REVIEW"] = "CALLED" /\ UNCHANGED phase
          /\ applied["REVIEW"] = 0
          /\ applied' = [applied EXCEPT !["REVIEW"] = 1]
      BY <2>3, <3>1
    <3>3. Effect!Apply("REVIEW") <=>
            /\ phase["REVIEW"] # "IDLE" /\ applied["REVIEW"] = 0
            /\ applied' = [applied EXCEPT !["REVIEW"] = 1]
            /\ UNCHANGED phase
      BY DEF Effect!Apply, Ours
    <3> QED
      BY <3>2, <3>3 DEF Effect!Next
  <2> QED
    BY <2>1, <2>2, <2>3, OpensOne, ConsumptionIsFinal DEF Ours
<1> QED
  BY <1>1, <1>2, ReviewInvariant, PTL DEF Spec, ImplementsEffect, Effect!Spec

=============================================================================
