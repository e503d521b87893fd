-------------------------- MODULE EpisodeStoreProofs --------------------------
(***************************************************************************)
(* Proofs about EpisodeStore: whatever publishers serve and however the    *)
(* transactions of overlapping crawls interleave and roll back, pruning    *)
(* takes no episode within the grace and leaves none beyond it, a guid     *)
(* keeps its row from one document to the next, and readers are served     *)
(* the latest document whole and in its order (EpisodeLists).              *)
(***************************************************************************)
EXTENDS EpisodeStore, OrderingProofs, TLAPS

(* The item about to be upserted is one of the document's, and only a      *)
(* crawl with a document prunes.                                           *)
InItems(t) ==
  /\ t.phase = "upsert" => t.doc \in Published /\ t.next \in 1..Len(t.doc)
  /\ t.phase = "prune" => t.doc \in Published

TypeInv == TypeOK /\ \A c \in Crawlers : InItems(tx[c])

LEMMA DocumentFacts ==
  ASSUME NEW doc \in Published
  PROVE  /\ doc # None
         /\ Len(doc) \in Nat
         /\ DOMAIN doc = 1..Len(doc)
         /\ DOMAIN ParseFeed(doc) = 1..Len(doc)
         /\ doc = <<>> <=> Len(doc) = 0
         /\ ToSet(ParseFeed(doc)) = {ParseFeed(doc)[i] : i \in 1..Len(doc)}
         /\ \A i \in 1..Len(doc) : ParseFeed(doc)[i] \in Episodes
<1> DEFINE Item == [guid : STRING, enclosure : STRING, content : STRING]
<1>1. doc \in Seq(Item) /\ doc # None
  BY PublishedAssumption, NoneAssumption
<1>2. /\ Len(doc) \in Nat
      /\ DOMAIN doc = 1..Len(doc)
      /\ doc = <<>> <=> Len(doc) = 0
  BY <1>1
<1>3. DOMAIN ParseFeed(doc) = 1..Len(doc)
  BY <1>2 DEF ParseFeed
<1>4. ToSet(ParseFeed(doc)) = {ParseFeed(doc)[i] : i \in 1..Len(doc)}
  BY <1>3 DEF ToSet
<1>5. \A i \in 1..Len(doc) : ParseFeed(doc)[i] \in Episodes
  BY <1>4 DEF Episodes, Documents
<1> QED
  BY <1>1, <1>2, <1>3, <1>4, <1>5

LEMMA NoTxTyped == NoTx \in Transaction /\ InItems(NoTx)
  BY DEF NoTx, NoEpisode, Transaction, EpisodeRow, InItems

-----------------------------------------------------------------------------
(* Each statement of a transaction, seen as what it makes of the           *)
(* transaction and what it leaves alone.                                   *)
LEMMA BeginFacts ==
  ASSUME TypeInv, NEW c \in Crawlers, NEW doc \in Published \cup {None}, Begin(c, doc)
  PROVE  /\ tx'[c] \in Transaction
         /\ tx'[c].phase = "begun"
         /\ \A d \in Crawlers \ {c} : tx'[d] = tx[d]
         /\ tx' \in [Crawlers -> Transaction]
<1>1. tx'[c] = [NoTx EXCEPT !.phase = "begun", !.doc = doc]
  BY DEF TypeInv, TypeOK, Begin
<1>2. tx'[c] \in Transaction /\ tx'[c].phase = "begun"
  BY <1>1, NoTxTyped DEF Transaction
<1>3. \A d \in Crawlers \ {c} : tx'[d] = tx[d]
  BY DEF TypeInv, TypeOK, Begin
<1>4. DOMAIN tx' = Crawlers /\ tx' = [d \in Crawlers |-> tx'[d]]
  BY DEF TypeInv, TypeOK, Begin
<1> QED
  BY <1>2, <1>3, <1>4 DEF TypeInv, TypeOK

LEMMA UpdateFeedFacts ==
  ASSUME TypeInv, NEW c \in Crawlers, UpdateFeed(c)
  PROVE  /\ tx'[c].phase = IF tx[c].doc \in {None, <<>>} THEN "commit" ELSE "upsert"
         /\ tx'[c].doc = tx[c].doc
         /\ tx'[c].seq = IF tx[c].doc = None THEN crawlSeq ELSE crawlSeq + 1
         /\ tx'[c].view = rows
         /\ tx'[c].next = IF tx[c].doc \in {None, <<>>} THEN 0 ELSE 1
         /\ \A d \in Crawlers \ {c} : tx'[d] = tx[d]
         /\ tx' \in [Crawlers -> Transaction]
<1>1. tx[c] \in Transaction /\ crawlSeq \in Nat /\ rows \in [Episodes -> EpisodeRow]
  BY DEF TypeInv, TypeOK
<1>2. tx'[c] = [tx[c] EXCEPT
                  !.seq = IF tx[c].doc = None THEN crawlSeq ELSE crawlSeq + 1,
                  !.view = rows,
                  !.next = IF tx[c].doc \in {None, <<>>} THEN 0 ELSE 1,
                  !.phase = IF tx[c].doc \in {None, <<>>} THEN "commit" ELSE "upsert"]
  BY DEF TypeInv, TypeOK, UpdateFeed
<1> DEFINE seq   == IF tx[c].doc = None THEN crawlSeq ELSE crawlSeq + 1
           next  == IF tx[c].doc \in {None, <<>>} THEN 0 ELSE 1
           phase == IF tx[c].doc \in {None, <<>>} THEN "commit" ELSE "upsert"
<1>a. seq \in Nat /\ next \in Nat /\ phase \in {"upsert", "prune", "commit"}
  BY <1>1
<1>3. /\ tx'[c] \in Transaction
      /\ tx'[c].doc = tx[c].doc /\ tx'[c].seq = seq /\ tx'[c].view = rows
      /\ tx'[c].next = next /\ tx'[c].phase = phase
  <2> HIDE DEF seq, next, phase
  <2>1. tx'[c] = [tx[c] EXCEPT !.seq = seq, !.view = rows, !.next = next, !.phase = phase]
    BY <1>2 DEF seq, next, phase
  <2> QED
    BY <1>1, <1>a, <2>1 DEF Transaction
<1>4. \A d \in Crawlers \ {c} : tx'[d] = tx[d]
  BY DEF TypeInv, TypeOK, UpdateFeed
<1>5. DOMAIN tx' = Crawlers /\ tx' = [d \in Crawlers |-> tx'[d]]
  BY DEF TypeInv, TypeOK, UpdateFeed
<1>6. tx' \in [Crawlers -> Transaction]
  BY <1>3, <1>4, <1>5 DEF TypeInv, TypeOK
<1> QED
  BY <1>3, <1>4, <1>6

LEMMA UpsertEpisodeFacts ==
  ASSUME TypeInv, NEW c \in Crawlers, UpsertEpisode(c)
  PROVE  LET t == tx[c]
             e == ParseFeed(t.doc)[t.next] IN
         /\ t.doc \in Published /\ t.next \in 1..Len(t.doc) /\ e \in Episodes
         /\ tx'[c].phase = IF t.next < Len(t.doc) THEN "upsert" ELSE "prune"
         /\ tx'[c].doc = t.doc
         /\ tx'[c].seq = t.seq
         /\ tx'[c].view = [t.view EXCEPT ![e] = Upserted(@, t.seq, t.next - 1)]
         /\ tx'[c].next = IF t.next < Len(t.doc) THEN t.next + 1 ELSE 0
         /\ \A d \in Crawlers \ {c} : tx'[d] = tx[d]
         /\ tx' \in [Crawlers -> Transaction]
<1> DEFINE t == tx[c]
           e == ParseFeed(t.doc)[t.next]
<1>1. t \in Transaction /\ t.doc \in Published /\ t.next \in 1..Len(t.doc)
  BY DEF TypeInv, TypeOK, UpsertEpisode, InItems
<1>2. e \in Episodes /\ Len(t.doc) \in Nat
  BY <1>1, DocumentFacts
<1>3. tx'[c] = [t EXCEPT
                  !.view = [t.view EXCEPT ![e] = Upserted(@, t.seq, t.next - 1)],
                  !.next = IF t.next < Len(t.doc) THEN t.next + 1 ELSE 0,
                  !.phase = IF t.next < Len(t.doc) THEN "upsert" ELSE "prune"]
  BY DEF TypeInv, TypeOK, UpsertEpisode
<1>4. t.view \in [Episodes -> EpisodeRow] /\ t.seq \in Nat
  BY <1>1 DEF Transaction
<1>5. Upserted(t.view[e], t.seq, t.next - 1) \in EpisodeRow
  BY <1>1, <1>2, <1>4 DEF Upserted, EpisodeRow
<1>6. [t.view EXCEPT ![e] = Upserted(@, t.seq, t.next - 1)] \in [Episodes -> EpisodeRow]
  BY <1>2, <1>4, <1>5
<1> DEFINE view  == [t.view EXCEPT ![e] = Upserted(@, t.seq, t.next - 1)]
           next  == IF t.next < Len(t.doc) THEN t.next + 1 ELSE 0
           phase == IF t.next < Len(t.doc) THEN "upsert" ELSE "prune"
<1>a. next \in Nat /\ phase \in {"upsert", "prune", "commit"}
  BY <1>1, <1>2
<1>7. /\ tx'[c] \in Transaction
      /\ tx'[c].doc = t.doc /\ tx'[c].seq = t.seq /\ tx'[c].view = view
      /\ tx'[c].next = next /\ tx'[c].phase = phase
  <2> HIDE DEF view, next, phase, t
  <2>1. tx'[c] = [t EXCEPT !.seq = t.seq, !.view = view, !.next = next, !.phase = phase]
    <3>1. [t EXCEPT !.view = view, !.next = next, !.phase = phase]
            = [t EXCEPT !.seq = t.seq, !.view = view, !.next = next, !.phase = phase]
      BY <1>1 DEF Transaction
    <3> QED
      BY <1>3, <3>1 DEF view, next, phase
  <2>2. view \in [Episodes -> EpisodeRow]
    BY <1>6 DEF view
  <2> QED
    BY <1>1, <1>4, <1>a, <2>1, <2>2 DEF Transaction
<1>8. \A d \in Crawlers \ {c} : tx'[d] = tx[d]
  BY DEF TypeInv, TypeOK, UpsertEpisode
<1>9. DOMAIN tx' = Crawlers /\ tx' = [d \in Crawlers |-> tx'[d]]
  BY DEF TypeInv, TypeOK, UpsertEpisode
<1>10. tx' \in [Crawlers -> Transaction]
  BY <1>7, <1>8, <1>9 DEF TypeInv, TypeOK
<1> QED
  BY <1>1, <1>2, <1>7, <1>8, <1>10

LEMMA PruneEpisodesFacts ==
  ASSUME TypeInv, NEW c \in Crawlers, PruneEpisodes(c)
  PROVE  /\ tx'[c].phase = "commit"
         /\ tx'[c].doc = tx[c].doc
         /\ tx'[c].seq = tx[c].seq
         /\ tx'[c].view = Pruned(tx[c].view, tx[c].seq)
         /\ \A d \in Crawlers \ {c} : tx'[d] = tx[d]
         /\ tx' \in [Crawlers -> Transaction]
<1>1. tx[c] \in Transaction
  BY DEF TypeInv, TypeOK
<1>2. tx'[c] = [tx[c] EXCEPT !.view = Pruned(tx[c].view, tx[c].seq), !.phase = "commit"]
  BY DEF TypeInv, TypeOK, PruneEpisodes
<1>3. Pruned(tx[c].view, tx[c].seq) \in [Episodes -> EpisodeRow]
  <2>1. tx[c].view \in [Episodes -> EpisodeRow] /\ NoEpisode \in EpisodeRow
    BY <1>1 DEF Transaction, NoEpisode, EpisodeRow
  <2> QED
    BY <2>1 DEF Pruned
<1>4. tx'[c] \in Transaction
  BY <1>1, <1>2, <1>3 DEF Transaction
<1>5. \A d \in Crawlers \ {c} : tx'[d] = tx[d]
  BY DEF TypeInv, TypeOK, PruneEpisodes
<1>6. DOMAIN tx' = Crawlers /\ tx' = [d \in Crawlers |-> tx'[d]]
  BY DEF TypeInv, TypeOK, PruneEpisodes
<1>7. tx' \in [Crawlers -> Transaction]
  BY <1>4, <1>5, <1>6 DEF TypeInv, TypeOK
<1> QED
  BY <1>1, <1>2, <1>5, <1>7 DEF Transaction

(* Commit and Rollback leave no transaction behind.                        *)
LEMMA ClosedFacts ==
  ASSUME TypeInv, NEW c \in Crawlers, tx' = [tx EXCEPT ![c] = NoTx]
  PROVE  /\ tx'[c].phase = "idle"
         /\ \A d \in Crawlers \ {c} : tx'[d] = tx[d]
         /\ tx' \in [Crawlers -> Transaction]
<1>1. tx'[c] = NoTx /\ \A d \in Crawlers \ {c} : tx'[d] = tx[d]
  BY DEF TypeInv, TypeOK
<1>2. tx' \in [Crawlers -> Transaction]
  BY NoTxTyped DEF TypeInv, TypeOK
<1> QED
  BY <1>1, <1>2 DEF NoTx

-----------------------------------------------------------------------------
(* Types. *)
LEMMA InitTyped == Init => TypeInv
<1> SUFFICES ASSUME Init
             PROVE  TypeInv
  OBVIOUS
<1>1. TypeOK
  BY NoTxTyped DEF Init, TypeOK, EpisodeRow, NoEpisode
<1>2. ASSUME NEW c \in Crawlers
      PROVE  InItems(tx[c])
  BY NoTxTyped DEF Init
<1> QED
  BY <1>1, <1>2 DEF TypeInv

LEMMA CommitTyped ==
  ASSUME TypeInv, NEW c \in Crawlers, Commit(c)
  PROVE  TypeInv'
<1>1. /\ tx'[c].phase = "idle"
      /\ \A d \in Crawlers \ {c} : tx'[d] = tx[d]
      /\ tx' \in [Crawlers -> Transaction]
  BY ClosedFacts DEF Commit
<1>2. tx[c] \in Transaction
  BY DEF TypeInv, TypeOK
<1>3. crawlSeq' \in Nat /\ rows' \in [Episodes -> EpisodeRow]
  BY <1>2 DEF Commit, Transaction
<1>4. parsed' \in Seq(Published)
  BY <1>2 DEF Commit, TypeInv, TypeOK, Transaction
<1>5. \A d \in Crawlers : InItems(tx'[d])
  BY <1>1 DEF TypeInv, InItems
<1> QED
  BY <1>1, <1>3, <1>4, <1>5 DEF TypeInv, TypeOK

LEMMA StepTyped ==
  ASSUME TypeInv, [Next]_vars
  PROVE  TypeInv'
<1>1. ASSUME NEW c \in Crawlers, UNCHANGED <<crawlSeq, rows, parsed>>,
             tx' \in [Crawlers -> Transaction],
             \A d \in Crawlers \ {c} : tx'[d] = tx[d], InItems(tx'[c])
      PROVE  TypeInv'
  BY <1>1 DEF TypeInv, TypeOK
<1>2. ASSUME NEW c \in Crawlers, NEW doc \in Published \cup {None}, Begin(c, doc)
      PROVE  TypeInv'
  <2>1. InItems(tx'[c])
    BY <1>2, BeginFacts DEF InItems
  <2> QED
    BY <1>2, <2>1, <1>1, BeginFacts DEF Begin
<1>3. ASSUME NEW c \in Crawlers, UpdateFeed(c)
      PROVE  TypeInv'
  <2>1. InItems(tx'[c])
    <3> SUFFICES ASSUME tx'[c].phase = "upsert"
                 PROVE  tx'[c].doc \in Published /\ tx'[c].next \in 1..Len(tx'[c].doc)
      BY <1>3, UpdateFeedFacts DEF InItems
    <3>1. tx[c].doc \notin {None, <<>>} /\ tx'[c].doc = tx[c].doc /\ tx'[c].next = 1
      BY <1>3, UpdateFeedFacts
    <3>2. tx[c].doc \in Published
      BY <3>1 DEF TypeInv, TypeOK, Transaction
    <3>3. Len(tx[c].doc) \in Nat \ {0}
      BY <3>1, <3>2, DocumentFacts
    <3> QED
      BY <3>1, <3>2, <3>3
  <2> QED
    BY <1>3, <2>1, <1>1, UpdateFeedFacts DEF UpdateFeed
<1>4. ASSUME NEW c \in Crawlers, UpsertEpisode(c)
      PROVE  TypeInv'
  <2>1. InItems(tx'[c])
    <3>1. tx[c].doc \in Published /\ tx[c].next \in 1..Len(tx[c].doc)
      BY <1>4, UpsertEpisodeFacts
    <3>2. /\ tx'[c].phase = IF tx[c].next < Len(tx[c].doc) THEN "upsert" ELSE "prune"
          /\ tx'[c].doc = tx[c].doc
          /\ tx'[c].next = IF tx[c].next < Len(tx[c].doc) THEN tx[c].next + 1 ELSE 0
      BY <1>4, UpsertEpisodeFacts
    <3>3. Len(tx[c].doc) \in Nat
      BY <3>1, DocumentFacts
    <3> QED
      BY <3>1, <3>2, <3>3 DEF InItems
  <2> QED
    BY <1>4, <2>1, <1>1, UpsertEpisodeFacts DEF UpsertEpisode
<1>5. ASSUME NEW c \in Crawlers, PruneEpisodes(c)
      PROVE  TypeInv'
  <2>1. InItems(tx'[c])
    BY <1>5, PruneEpisodesFacts DEF InItems
  <2> QED
    BY <1>5, <2>1, <1>1, PruneEpisodesFacts DEF PruneEpisodes
<1>6. ASSUME NEW c \in Crawlers, Rollback(c)
      PROVE  TypeInv'
  <2>1. InItems(tx'[c])
    BY <1>6, ClosedFacts DEF Rollback, InItems
  <2> QED
    BY <1>6, <2>1, <1>1, ClosedFacts DEF Rollback
<1>7. CASE UNCHANGED vars
  BY <1>7 DEF vars, TypeInv, TypeOK, InItems
<1> QED
  BY <1>2, <1>3, <1>4, <1>5, <1>6, <1>7, CommitTyped DEF Next

LEMMA TypeInvariant == Spec => []TypeInv
<1>1. Init => TypeInv
  BY InitTyped
<1>2. TypeInv /\ [Next]_vars => TypeInv'
  BY StepTyped
<1> QED
  BY <1>1, <1>2, PTL DEF Spec

(* The feed's counters, rows and transactions keep their types; a          *)
(* transaction only ever upserts an item its document has.                 *)
THEOREM EpisodeTypeCorrect == Spec => []TypeOK
<1>1. TypeInv => TypeOK
  BY DEF TypeInv
<1> QED
  BY <1>1, TypeInvariant, PTL

-----------------------------------------------------------------------------
(***************************************************************************)
(* What the rows remember.  The inductive invariant says of the committed  *)
(* rows that last_crawl_seq is the number of a parse that listed the       *)
(* episode, and the latest such parse as long as the grace matters; and of *)
(* the one transaction that holds the feed's row, how far its view has     *)
(* come towards that.                                                      *)
(***************************************************************************)
ListedIn(doc, e) == e \in ToSet(ParseFeed(doc))

(* The parses pruning may not forget.                                      *)
Remembered(i) == Grace = 0 \/ i >= Len(parsed) - Grace

SeenIsListed ==
  \A e \in Episodes : rows[e].seen # 0 =>
    rows[e].seen \in 1..Len(parsed) /\ ListedIn(parsed[rows[e].seen], e)

ListedIsSeen ==
  \A i \in 1..Len(parsed) : \A e \in Episodes :
    Remembered(i) /\ ListedIn(parsed[i], e) => rows[e].seen >= i

NothingOlder ==
  Grace > 0 /\ parsed # <<>> /\ Last(parsed) # <<>> =>
    \A e \in Episodes : rows[e].seen # 0 => rows[e].seen >= Len(parsed) - Grace

(* What one transaction has made of the rows so far. *)
Upserts(t) == t.phase \in {"upsert", "prune", "commit"} /\ t.doc # None

ViewOf(t) ==
  /\ t.phase = "commit" /\ t.doc = None => t.seq = crawlSeq /\ t.view = rows
  /\ Upserts(t) =>
       /\ t.seq = crawlSeq + 1
       /\ \A e \in Episodes :
            \/ t.view[e].seen \in {0, rows[e].seen}
            \/ t.view[e].seen = t.seq /\ ListedIn(t.doc, e)
       /\ \A e \in Episodes :
            \/ t.view[e].seen >= rows[e].seen
            \/ t.phase = "commit" /\ Grace > 0 /\ rows[e].seen < t.seq - Grace
       /\ \A j \in 1..Len(t.doc) :
            t.phase # "upsert" \/ j < t.next => t.view[ParseFeed(t.doc)[j]].seen = t.seq
       /\ t.phase = "commit" /\ Grace > 0 /\ t.doc # <<>> =>
            \A e \in Episodes : t.view[e].seen # 0 => t.view[e].seen >= t.seq - Grace

SeenInv ==
  /\ crawlSeq = Len(parsed)
  /\ SeenIsListed /\ ListedIsSeen /\ NothingOlder
  /\ \A c, d \in Holders : c = d
  /\ \A c \in Crawlers : ViewOf(tx[c])

LEMMA InitSeen == Init => SeenInv
<1> SUFFICES ASSUME Init
             PROVE  SeenInv
  OBVIOUS
<1>1. Len(parsed) = 0 /\ parsed = <<>> /\ crawlSeq = 0
  BY DEF Init
<1>2. \A e \in Episodes : rows[e].seen = 0
  BY DEF Init, NoEpisode
<1>3. \A c \in Crawlers : tx[c].phase = "idle"
  BY DEF Init, NoTx
<1> QED
  BY <1>1, <1>2, <1>3 DEF SeenInv, SeenIsListed, ListedIsSeen, NothingOlder,
                          Holders, ViewOf, Upserts

(* A step that leaves the rows alone and moves one transaction on. *)
LEMMA OneMoves ==
  ASSUME TypeInv, SeenInv, NEW c \in Crawlers,
         UNCHANGED <<crawlSeq, rows, parsed>>,
         \A d \in Crawlers \ {c} : tx'[d] = tx[d],
         c \in Holders' => Holders \subseteq {c},
         ViewOf(tx[c])'
  PROVE  SeenInv'
<1>1. SeenIsListed' /\ ListedIsSeen' /\ NothingOlder'
  BY DEF SeenInv, SeenIsListed, ListedIsSeen, NothingOlder, Remembered, ListedIn
<1>2. \A d \in Crawlers : d # c => ViewOf(tx[d])'
  BY DEF SeenInv, ViewOf, Upserts
<1>3. \A d \in Holders' : d # c => d \in Holders
  BY DEF Holders
<1>4. \A d, e \in Holders' : d = e
  BY <1>3 DEF SeenInv
<1> QED
  BY <1>1, <1>2, <1>4 DEF SeenInv

LEMMA BeginSeen ==
  ASSUME TypeInv, SeenInv, NEW c \in Crawlers, NEW doc \in Published \cup {None},
         Begin(c, doc)
  PROVE  SeenInv'
<1>1. tx'[c].phase = "begun" /\ \A d \in Crawlers \ {c} : tx'[d] = tx[d]
  BY BeginFacts
<1>2. ViewOf(tx[c])' /\ c \notin Holders'
  BY <1>1 DEF ViewOf, Upserts, Holders
<1> QED
  BY <1>1, <1>2, OneMoves DEF Begin

LEMMA RollbackSeen ==
  ASSUME TypeInv, SeenInv, NEW c \in Crawlers, Rollback(c)
  PROVE  SeenInv'
<1>1. tx'[c].phase = "idle" /\ \A d \in Crawlers \ {c} : tx'[d] = tx[d]
  BY ClosedFacts DEF Rollback
<1>2. ViewOf(tx[c])' /\ c \notin Holders'
  BY <1>1 DEF ViewOf, Upserts, Holders
<1> QED
  BY <1>1, <1>2, OneMoves DEF Rollback

(* The view starts as the committed rows, which nobody else can change.    *)
LEMMA UpdateFeedSeen ==
  ASSUME TypeInv, SeenInv, NEW c \in Crawlers, UpdateFeed(c)
  PROVE  SeenInv'
<1>1. /\ tx'[c].phase = IF tx[c].doc \in {None, <<>>} THEN "commit" ELSE "upsert"
      /\ tx'[c].doc = tx[c].doc
      /\ tx'[c].seq = IF tx[c].doc = None THEN crawlSeq ELSE crawlSeq + 1
      /\ tx'[c].view = rows
      /\ tx'[c].next = IF tx[c].doc \in {None, <<>>} THEN 0 ELSE 1
  BY UpdateFeedFacts
<1>2. Holders = {} /\ UNCHANGED <<crawlSeq, rows, parsed>>
  BY DEF UpdateFeed
<1>3. tx[c].doc \in Published \cup {None} /\ rows \in [Episodes -> EpisodeRow]
  BY DEF TypeInv, TypeOK, Transaction
<1>4. ViewOf(tx[c])'
  <2>1. CASE tx[c].doc = None
    BY <1>1, <1>2, <2>1 DEF ViewOf, Upserts
  <2>2. CASE tx[c].doc # None
    <3>1. tx[c].doc \in Published /\ Len(tx[c].doc) \in Nat
          /\ (tx[c].doc = <<>> <=> Len(tx[c].doc) = 0)
      BY <1>3, <2>2, DocumentFacts
    <3>2. \A e \in Episodes : rows[e].seen \in Nat
      BY <1>3 DEF EpisodeRow
    <3>3. \A j \in 1..Len(tx[c].doc) :
             tx'[c].phase = "upsert" /\ ~(j < tx'[c].next)
      BY <1>1, <2>2, <3>1
    <3>4. tx'[c].phase = "commit" => tx[c].doc = <<>>
      BY <1>1, <2>2
    <3> QED
      BY <1>1, <1>2, <2>2, <3>2, <3>3, <3>4 DEF ViewOf, Upserts
  <2> QED
    BY <2>1, <2>2
<1> QED
  BY <1>2, <1>4, OneMoves, UpdateFeedFacts

LEMMA UpsertEpisodeSeen ==
  ASSUME TypeInv, SeenInv, NEW c \in Crawlers, UpsertEpisode(c)
  PROVE  SeenInv'
<1> DEFINE t == tx[c]
           e0 == ParseFeed(t.doc)[t.next]
<1>1. t.phase = "upsert" /\ UNCHANGED <<crawlSeq, rows, parsed>>
  BY DEF UpsertEpisode
<1>2. t.doc \in Published /\ t.next \in 1..Len(t.doc) /\ e0 \in Episodes
  BY UpsertEpisodeFacts
<1>3. /\ tx'[c].phase = IF t.next < Len(t.doc) THEN "upsert" ELSE "prune"
      /\ tx'[c].doc = t.doc
      /\ tx'[c].seq = t.seq
      /\ tx'[c].view = [t.view EXCEPT ![e0] = Upserted(@, t.seq, t.next - 1)]
      /\ tx'[c].next = IF t.next < Len(t.doc) THEN t.next + 1 ELSE 0
  BY UpsertEpisodeFacts
<1>4. /\ t.doc # None /\ Len(t.doc) \in Nat
      /\ ToSet(ParseFeed(t.doc)) = {ParseFeed(t.doc)[i] : i \in 1..Len(t.doc)}
      /\ \A i \in 1..Len(t.doc) : ParseFeed(t.doc)[i] \in Episodes
  BY <1>2, DocumentFacts
<1>5. /\ t.view \in [Episodes -> EpisodeRow] /\ rows \in [Episodes -> EpisodeRow]
      /\ t.seq \in Nat /\ crawlSeq \in Nat
  BY DEF TypeInv, TypeOK, Transaction
<1>6. ViewOf(t) /\ Upserts(t)
  BY <1>1, <1>4 DEF SeenInv, Upserts
<1>7. t.seq = crawlSeq + 1
  BY <1>6 DEF ViewOf
<1>8. /\ tx'[c].view[e0].seen = t.seq
      /\ \A e \in Episodes \ {e0} : tx'[c].view[e] = t.view[e]
  <2> DEFINE up == Upserted(t.view[e0], t.seq, t.next - 1)
  <2>1. up.seen = t.seq
    BY DEF Upserted
  <2>2. tx'[c].view = [t.view EXCEPT ![e0] = up]
    BY <1>3
  <2> HIDE DEF up, t, e0
  <2> QED
    BY <1>2, <1>5, <2>1, <2>2
<1>9. ListedIn(t.doc, e0)
  BY <1>2, <1>4 DEF ListedIn
<1>10. \A e \in Episodes : rows[e].seen \in Nat /\ rows[e].seen <= crawlSeq
  <2>1. \A e \in Episodes : rows[e].seen \in Nat
    BY <1>5 DEF EpisodeRow
  <2> QED
    BY <1>5, <2>1 DEF SeenInv, SeenIsListed
<1>11. \A e \in Episodes :
         \/ tx'[c].view[e].seen \in {0, rows[e].seen}
         \/ tx'[c].view[e].seen = t.seq /\ ListedIn(t.doc, e)
  BY <1>6, <1>8, <1>9 DEF ViewOf
<1>12. \A e \in Episodes : tx'[c].view[e].seen >= rows[e].seen
  <2>1. \A e \in Episodes : t.view[e].seen >= rows[e].seen
    BY <1>1, <1>6 DEF ViewOf
  <2> QED
    BY <1>5, <1>7, <1>8, <1>10, <2>1
<1>13. \A j \in 1..Len(t.doc) : tx'[c].phase # "upsert" \/ j < tx'[c].next =>
          tx'[c].view[ParseFeed(t.doc)[j]].seen = t.seq
  <2> SUFFICES ASSUME NEW j \in 1..Len(t.doc),
                      tx'[c].phase # "upsert" \/ j < tx'[c].next
               PROVE  tx'[c].view[ParseFeed(t.doc)[j]].seen = t.seq
    OBVIOUS
  <2>1. j < t.next \/ j = t.next
    BY <1>2, <1>3, <1>4
  <2>2. CASE j = t.next
    BY <1>8, <2>2
  <2>3. CASE j < t.next
    <3>1. t.view[ParseFeed(t.doc)[j]].seen = t.seq
      BY <1>6, <2>3 DEF ViewOf
    <3> QED
      BY <1>4, <1>8, <3>1
  <2> QED
    BY <2>1, <2>2, <2>3
<1>14. tx'[c].phase # "commit"
  BY <1>3
<1>15. ViewOf(tx[c])'
  <2> HIDE DEF t, e0
  <2>1. /\ tx'[c].phase # "commit" /\ tx'[c].doc = t.doc /\ tx'[c].seq = crawlSeq + 1
        /\ tx'[c].seq = t.seq
    BY <1>3, <1>7, <1>14
  <2> QED
    BY <1>1, <1>11, <1>12, <1>13, <2>1 DEF ViewOf, Upserts, ListedIn
<1>16. c \in Holders /\ \A d \in Holders : d = c
  BY <1>1 DEF Holders, SeenInv
<1> QED
  BY <1>1, <1>15, <1>16, OneMoves, UpsertEpisodeFacts

(* Pruning forgets what is below the cutoff, and nothing the document      *)
(* lists is.                                                               *)
LEMMA PrunedSeen ==
  ASSUME NEW view \in [Episodes -> EpisodeRow], NEW seq \in Nat, NEW e \in Episodes
  PROVE  /\ Pruned(view, seq)[e].seen \in {0, view[e].seen}
         /\ \/ Pruned(view, seq)[e].seen = view[e].seen
            \/ Grace > 0 /\ view[e].seen < seq - Grace
         /\ Grace > 0 /\ Pruned(view, seq)[e].seen # 0
              => Pruned(view, seq)[e].seen >= seq - Grace
<1>1. view[e].seen \in Nat /\ Grace \in Nat
  BY NumbersAssumption DEF EpisodeRow
<1>2. CASE Grace <= 0 \/ seq - Grace <= 0
  BY <1>1, <1>2 DEF Pruned
<1>3. CASE ~(Grace <= 0 \/ seq - Grace <= 0)
  <2>1. Pruned(view, seq)[e] = IF view[e].seen < seq - Grace THEN NoEpisode ELSE view[e]
    BY <1>3 DEF Pruned
  <2>2. NoEpisode.seen = 0
    BY DEF NoEpisode
  <2> QED
    BY <1>1, <1>3, <2>1, <2>2
<1> QED
  BY <1>2, <1>3

LEMMA PruneEpisodesSeen ==
  ASSUME TypeInv, SeenInv, NEW c \in Crawlers, PruneEpisodes(c)
  PROVE  SeenInv'
<1> DEFINE t == tx[c]
<1>1. t.phase = "prune" /\ UNCHANGED <<crawlSeq, rows, parsed>>
  BY DEF PruneEpisodes
<1>2. /\ tx'[c].phase = "commit" /\ tx'[c].doc = t.doc /\ tx'[c].seq = t.seq
      /\ tx'[c].view = Pruned(t.view, t.seq)
  BY PruneEpisodesFacts
<1>3. t.doc \in Published
  BY <1>1 DEF TypeInv, InItems
<1>4. t.doc # None /\ \A i \in 1..Len(t.doc) : ParseFeed(t.doc)[i] \in Episodes
  BY <1>3, DocumentFacts
<1>5. /\ t.view \in [Episodes -> EpisodeRow] /\ rows \in [Episodes -> EpisodeRow]
      /\ t.seq \in Nat
  BY DEF TypeInv, TypeOK, Transaction
<1>6. ViewOf(t) /\ Upserts(t)
  BY <1>1, <1>4 DEF SeenInv, Upserts
<1>7. \A e \in Episodes : t.view[e].seen \in Nat /\ rows[e].seen \in Nat
  BY <1>5 DEF EpisodeRow
<1>8. \A e \in Episodes :
        /\ tx'[c].view[e].seen \in {0, t.view[e].seen}
        /\ \/ tx'[c].view[e].seen = t.view[e].seen
           \/ Grace > 0 /\ t.view[e].seen < t.seq - Grace
        /\ Grace > 0 /\ tx'[c].view[e].seen # 0 => tx'[c].view[e].seen >= t.seq - Grace
  BY <1>2, <1>5, PrunedSeen
<1>9. \A e \in Episodes :
        \/ tx'[c].view[e].seen >= rows[e].seen
        \/ Grace > 0 /\ rows[e].seen < t.seq - Grace
  <2>1. \A e \in Episodes : t.view[e].seen >= rows[e].seen
    BY <1>1, <1>6 DEF ViewOf
  <2> HIDE DEF t
  <2> QED
    BY <1>5, <1>7, <1>8, <2>1, NumbersAssumption
<1>10. \A j \in 1..Len(t.doc) : tx'[c].view[ParseFeed(t.doc)[j]].seen = t.seq
  <2>1. \A j \in 1..Len(t.doc) : t.view[ParseFeed(t.doc)[j]].seen = t.seq
    BY <1>1, <1>6 DEF ViewOf
  <2> HIDE DEF t
  <2> QED
    BY <1>4, <1>5, <1>8, <2>1, NumbersAssumption
<1>11. \A e \in Episodes :
         \/ tx'[c].view[e].seen \in {0, rows[e].seen}
         \/ tx'[c].view[e].seen = t.seq /\ ListedIn(t.doc, e)
  <2>1. \A e \in Episodes :
          \/ t.view[e].seen \in {0, rows[e].seen}
          \/ t.view[e].seen = t.seq /\ ListedIn(t.doc, e)
    BY <1>6 DEF ViewOf
  <2> HIDE DEF t
  <2> QED
    BY <1>8, <2>1
<1>12. ViewOf(tx[c])'
  <2>1. t.seq = crawlSeq + 1
    BY <1>6 DEF ViewOf
  <2> HIDE DEF t
  <2> QED
    BY <1>1, <1>2, <1>4, <1>8, <1>9, <1>10, <1>11, <2>1 DEF ViewOf, Upserts, ListedIn
<1>13. c \in Holders /\ \A d \in Holders : d = c
  BY <1>1 DEF Holders, SeenInv
<1> QED
  BY <1>1, <1>12, <1>13, OneMoves, PruneEpisodesFacts

(* The view becomes the rows, and the document the latest parse.           *)
LEMMA CommitSeen ==
  ASSUME TypeInv, SeenInv, NEW c \in Crawlers, Commit(c)
  PROVE  SeenInv'
<1> DEFINE t == tx[c]
<1>1. /\ t.phase = "commit" /\ crawlSeq' = t.seq /\ rows' = t.view
      /\ parsed' = IF t.doc = None THEN parsed ELSE Append(parsed, t.doc)
  BY DEF Commit
<1>2. tx'[c].phase = "idle" /\ \A d \in Crawlers \ {c} : tx'[d] = tx[d]
  BY ClosedFacts DEF Commit
<1>3. \A d \in Holders : d = c
  BY <1>1 DEF Holders, SeenInv
<1>4. Holders' = {}
  BY <1>2, <1>3 DEF Holders
<1>5. \A d \in Crawlers : ViewOf(tx[d])'
  BY <1>4 DEF Holders, ViewOf, Upserts
<1>6. ViewOf(t)
  BY DEF SeenInv
<1>7. /\ t.doc \in Published \cup {None} /\ t.view \in [Episodes -> EpisodeRow]
      /\ t.seq \in Nat /\ rows \in [Episodes -> EpisodeRow] /\ parsed \in Seq(Published)
  BY DEF TypeInv, TypeOK, Transaction
<1>8. \A e \in Episodes : t.view[e].seen \in Nat /\ rows[e].seen \in Nat
  BY <1>7 DEF EpisodeRow
<1>9. CASE t.doc = None
  <2>1. UNCHANGED <<crawlSeq, rows, parsed>>
    BY <1>1, <1>6, <1>9 DEF ViewOf
  <2>2. SeenIsListed' /\ ListedIsSeen' /\ NothingOlder' /\ crawlSeq' = Len(parsed')
    BY <2>1 DEF SeenInv, SeenIsListed, ListedIsSeen, NothingOlder, Remembered, ListedIn
  <2> QED
    BY <1>4, <1>5, <2>2 DEF SeenInv
<1>10. CASE t.doc # None
  <2>1. /\ t.doc \in Published /\ Len(t.doc) \in Nat
        /\ t.doc = <<>> <=> Len(t.doc) = 0
        /\ \A e : ListedIn(t.doc, e) <=>
               \E j \in 1..Len(t.doc) : e = ParseFeed(t.doc)[j]
    BY <1>7, <1>10, DocumentFacts DEF ListedIn
  <2>2. /\ Len(parsed) \in Nat /\ t.seq = Len(parsed) + 1 /\ Upserts(t)
        /\ crawlSeq = Len(parsed)
    BY <1>1, <1>6, <1>7, <1>10 DEF SeenInv, ViewOf, Upserts
  <2>3. /\ Len(parsed') = t.seq /\ parsed' # <<>>
        /\ parsed'[t.seq] = t.doc /\ Last(parsed') = t.doc
        /\ \A i \in 1..Len(parsed) : parsed'[i] = parsed[i]
    BY <1>1, <1>7, <1>10, <2>1, <2>2 DEF Last
  <2>4. ASSUME NEW e \in Episodes, rows'[e].seen # 0
        PROVE  rows'[e].seen \in 1..Len(parsed') /\ ListedIn(parsed'[rows'[e].seen], e)
    <3>1. CASE t.view[e].seen = t.seq /\ ListedIn(t.doc, e)
      BY <1>1, <1>7, <2>2, <2>3, <3>1
    <3>2. CASE t.view[e].seen = rows[e].seen
      <4>1. rows[e].seen \in 1..Len(parsed) /\ ListedIn(parsed[rows[e].seen], e)
        BY <1>1, <2>4, <3>2 DEF SeenInv, SeenIsListed
      <4> QED
        BY <1>1, <2>2, <2>3, <3>2, <4>1
    <3> QED
      BY <1>1, <1>6, <2>2, <2>4, <3>1, <3>2 DEF ViewOf
  <2>5. ASSUME NEW i \in 1..Len(parsed'), NEW e \in Episodes,
               Grace = 0 \/ i >= Len(parsed') - Grace, ListedIn(parsed'[i], e)
        PROVE  rows'[e].seen >= i
    <3>1. CASE i = t.seq
      <4>1. PICK j \in 1..Len(t.doc) : e = ParseFeed(t.doc)[j]
        BY <2>1, <2>3, <2>5, <3>1
      <4>2. t.view[e].seen = t.seq
        BY <1>1, <1>6, <2>2, <4>1 DEF ViewOf
      <4> QED
        BY <1>1, <1>7, <3>1, <4>2
    <3>2. CASE i # t.seq
      <4>1. i \in 1..Len(parsed) /\ ListedIn(parsed[i], e)
        BY <2>2, <2>3, <2>5, <3>2
      <4>2. Remembered(i)
        BY <2>2, <2>3, <2>5, <4>1, NumbersAssumption DEF Remembered
      <4>3. rows[e].seen >= i
        BY <4>1, <4>2 DEF SeenInv, ListedIsSeen
      <4>4. t.view[e].seen >= rows[e].seen \/ (Grace > 0 /\ rows[e].seen < t.seq - Grace)
        BY <1>6, <2>2 DEF ViewOf
      <4> HIDE DEF t
      <4> QED
        BY <1>1, <1>8, <2>2, <2>3, <2>5, <4>1, <4>3, <4>4, NumbersAssumption
    <3> QED
      BY <3>1, <3>2
  <2>6. NothingOlder'
    BY <1>1, <1>6, <2>2, <2>3 DEF NothingOlder, ViewOf
  <2>7. SeenIsListed' /\ ListedIsSeen'
    BY <2>4, <2>5 DEF SeenIsListed, ListedIsSeen, Remembered, ListedIn
  <2> QED
    BY <1>1, <1>4, <1>5, <2>3, <2>6, <2>7 DEF SeenInv
<1> QED
  BY <1>9, <1>10

LEMMA SeenInvariant == Spec => []SeenInv
<1>1. Init => SeenInv
  BY InitSeen
<1>2. TypeInv /\ SeenInv /\ [Next]_vars => SeenInv'
  <2> SUFFICES ASSUME TypeInv, SeenInv, [Next]_vars
               PROVE  SeenInv'
    OBVIOUS
  <2>1. CASE UNCHANGED vars
    BY <2>1 DEF vars, SeenInv, SeenIsListed, ListedIsSeen, NothingOlder, Remembered,
                ListedIn, Holders, ViewOf, Upserts
  <2> QED
    BY <2>1, BeginSeen, UpdateFeedSeen, UpsertEpisodeSeen, PruneEpisodesSeen,
       CommitSeen, RollbackSeen DEF Next
<1> QED
  BY <1>1, <1>2, TypeInvariant, PTL DEF Spec

-----------------------------------------------------------------------------
(***************************************************************************)
(* Where and since when.  On top of what the rows remember, this invariant *)
(* keeps the place in its document that a row served tells, and the parse  *)
(* a row was born with: the first one that listed the episode with no gap  *)
(* since that pruning would not have forgiven.                             *)
(***************************************************************************)

(* The row says where among its first n items the document lists e last. *)
AtPlace(row, e, doc, n) ==
  /\ row.pos + 1 \in 1..n
  /\ ParseFeed(doc)[row.pos + 1] = e
  /\ \A k \in 1..n : ParseFeed(doc)[k] = e => k <= row.pos + 1

RowsPlaced ==
  \A e \in Episodes : parsed # <<>> /\ rows[e].seen = crawlSeq =>
    AtPlace(rows[e], e, Last(parsed), Len(Last(parsed)))

(* How many items of its document a transaction has upserted. *)
Done(t) == IF t.phase = "upsert" THEN t.next - 1 ELSE Len(t.doc)

(* The parses that listed e, and since which of them no pruning missed it. *)
Listings(docs, e) == {k \in 1..Len(docs) : ListedIn(docs[k], e)}

Reaches(docs, e, b, k) == \E j \in Listings(docs, e) : b <= j /\ j <= k /\ k - j <= Grace

Sustained(docs, e, b) ==
  \A k \in b..Len(docs) : Grace > 0 /\ docs[k] # <<>> => Reaches(docs, e, b, k)

(* A row is born with the first listing that nothing has broken since, and *)
(* there is no row only if there is no such listing.                       *)
BornAs(row, docs, e) ==
  /\ row.seen # 0 =>
       /\ row.born \in Listings(docs, e) /\ row.born <= row.seen
       /\ row.seen \in Listings(docs, e)
       /\ Sustained(docs, e, row.born)
       /\ \A b \in Listings(docs, e) :
            b <= row.seen /\ (Sustained(docs, e, b) => row.born <= b)
  /\ row.seen = 0 => \A b \in Listings(docs, e) : ~Sustained(docs, e, b)

BornInv == \A e \in Episodes : BornAs(rows[e], parsed, e)

(* What a transaction has made of where and when episodes are. *)
HistoryOf(t) ==
  Upserts(t) =>
    /\ t.phase = "prune" => t.doc # <<>>
    /\ t.phase = "commit" /\ t.doc = <<>> => t.view = rows
    /\ \A e \in Episodes :
         \/ t.view[e].seen = 0
         \/ t.view[e] = rows[e]
         \/ t.view[e].seen = t.seq
              /\ t.view[e].born = IF rows[e].seen = 0 THEN t.seq ELSE rows[e].born
    /\ \A e \in Episodes : t.view[e].seen = t.seq => AtPlace(t.view[e], e, t.doc, Done(t))

HistoryInv ==
  /\ RowsPlaced
  /\ BornInv
  /\ \A c \in Crawlers : HistoryOf(tx[c])

(* A step that leaves the rows alone and moves one transaction on. *)
LEMMA OneGoesOn ==
  ASSUME HistoryInv, NEW c \in Crawlers,
         UNCHANGED <<crawlSeq, rows, parsed>>,
         \A d \in Crawlers \ {c} : tx'[d] = tx[d],
         HistoryOf(tx[c])'
  PROVE  HistoryInv'
<1>1. RowsPlaced' /\ BornInv'
  BY DEF HistoryInv, RowsPlaced, BornInv
<1>2. ASSUME NEW d \in Crawlers, d # c
      PROVE  HistoryOf(tx[d])'
  <2>1. HistoryOf(tx[d]) /\ tx'[d] = tx[d] /\ rows' = rows
    BY <1>2 DEF HistoryInv
  <2> QED BY <2>1 DEF HistoryOf, Upserts, AtPlace, Done
<1>3. \A d \in Crawlers : HistoryOf(tx[d])'
  BY <1>2
<1> QED BY <1>1, <1>3 DEF HistoryInv

LEMMA InitHistory == Init => HistoryInv
<1> SUFFICES ASSUME Init
             PROVE  HistoryInv
  OBVIOUS
<1>1. parsed = <<>> /\ Len(parsed) = 0 /\ \A c \in Crawlers : tx[c] = NoTx
  BY DEF Init
<1>2. \A e \in Episodes : rows[e].seen = 0 /\ Listings(parsed, e) = {}
  BY <1>1 DEF Init, NoEpisode, Listings
<1>3. RowsPlaced
  BY <1>1 DEF RowsPlaced
<1>4. BornInv
  BY <1>2 DEF BornInv, BornAs
<1>5. \A c \in Crawlers : HistoryOf(tx[c])
  BY <1>1 DEF HistoryOf, Upserts, NoTx
<1> QED BY <1>3, <1>4, <1>5 DEF HistoryInv

LEMMA BeginHistory ==
  ASSUME TypeInv, HistoryInv, NEW c \in Crawlers, NEW doc \in Published \cup {None},
         Begin(c, doc)
  PROVE  HistoryInv'
<1>1. HistoryOf(tx[c])'
  BY BeginFacts DEF HistoryOf, Upserts
<1> QED BY <1>1, BeginFacts, OneGoesOn DEF Begin

LEMMA RollbackHistory ==
  ASSUME TypeInv, HistoryInv, NEW c \in Crawlers, Rollback(c)
  PROVE  HistoryInv'
<1>1. tx'[c].phase = "idle" /\ \A d \in Crawlers \ {c} : tx'[d] = tx[d]
  BY ClosedFacts DEF Rollback
<1>2. HistoryOf(tx[c])'
  BY <1>1 DEF HistoryOf, Upserts
<1> QED BY <1>1, <1>2, OneGoesOn DEF Rollback

LEMMA UpdateFeedHistory ==
  ASSUME TypeInv, SeenInv, HistoryInv, NEW c \in Crawlers, UpdateFeed(c)
  PROVE  HistoryInv'
<1>1. /\ tx'[c].phase = IF tx[c].doc \in {None, <<>>} THEN "commit" ELSE "upsert"
      /\ tx'[c].doc = tx[c].doc
      /\ tx'[c].seq = IF tx[c].doc = None THEN crawlSeq ELSE crawlSeq + 1
      /\ tx'[c].view = rows
      /\ \A d \in Crawlers \ {c} : tx'[d] = tx[d]
  BY UpdateFeedFacts
<1>2. UNCHANGED <<crawlSeq, rows, parsed>>
  BY DEF UpdateFeed
<1>3. \A e \in Episodes : rows[e].seen <= crawlSeq /\ rows[e].seen \in Nat /\ crawlSeq \in Nat
  <2>1. \A e \in Episodes : rows[e].seen \in Nat
    BY DEF TypeInv, TypeOK, EpisodeRow
  <2>2. crawlSeq \in Nat /\ crawlSeq = Len(parsed)
    BY DEF TypeInv, TypeOK, SeenInv
  <2> QED BY <2>1, <2>2 DEF SeenInv, SeenIsListed
<1>4. ASSUME tx[c].doc # None
      PROVE  \A e \in Episodes : rows'[e].seen # tx'[c].seq /\ tx'[c].view[e] = rows'[e]
  BY <1>1, <1>2, <1>3, <1>4
<1>5. HistoryOf(tx[c])'
  BY <1>1, <1>2, <1>4 DEF HistoryOf, Upserts
<1> QED BY <1>1, <1>2, <1>5, OneGoesOn

LEMMA UpsertEpisodeHistory ==
  ASSUME TypeInv, SeenInv, HistoryInv, NEW c \in Crawlers, UpsertEpisode(c)
  PROVE  HistoryInv'
<1> DEFINE t == tx[c]
           e0 == ParseFeed(t.doc)[t.next]
<1>1. t.phase = "upsert" /\ UNCHANGED <<crawlSeq, rows, parsed>>
  BY DEF UpsertEpisode
<1>2. t.doc \in Published /\ t.next \in 1..Len(t.doc) /\ e0 \in Episodes
  BY UpsertEpisodeFacts
<1>3. /\ tx'[c].phase = IF t.next < Len(t.doc) THEN "upsert" ELSE "prune"
      /\ tx'[c].doc = t.doc
      /\ tx'[c].seq = t.seq
      /\ tx'[c].view = [t.view EXCEPT ![e0] = Upserted(@, t.seq, t.next - 1)]
      /\ tx'[c].next = IF t.next < Len(t.doc) THEN t.next + 1 ELSE 0
      /\ \A d \in Crawlers \ {c} : tx'[d] = tx[d]
  BY UpsertEpisodeFacts
<1>4. t.doc # None /\ Len(t.doc) \in Nat /\ t.next \in Nat
  BY <1>2, DocumentFacts
<1>5. t.view \in [Episodes -> EpisodeRow] /\ rows \in [Episodes -> EpisodeRow] /\ t.seq \in Nat
  BY DEF TypeInv, TypeOK, Transaction
<1>6. HistoryOf(t) /\ ViewOf(t) /\ Upserts(t)
  BY <1>1, <1>4 DEF HistoryInv, SeenInv, Upserts
<1>7. Done(tx[c])' = t.next
  BY <1>2, <1>3, <1>4 DEF Done
<1>8. Done(t) = t.next - 1
  BY <1>1 DEF Done
<1>9. /\ tx'[c].view[e0].seen = t.seq /\ tx'[c].view[e0].pos = t.next - 1
      /\ tx'[c].view[e0].born = IF t.view[e0].seen = 0 THEN t.seq ELSE t.view[e0].born
      /\ \A e \in Episodes \ {e0} : tx'[c].view[e] = t.view[e]
  <2> DEFINE up == Upserted(t.view[e0], t.seq, t.next - 1)
  <2>1. /\ up.seen = t.seq /\ up.pos = t.next - 1
        /\ up.born = IF t.view[e0].seen = 0 THEN t.seq ELSE t.view[e0].born
    BY DEF Upserted
  <2>2. tx'[c].view = [t.view EXCEPT ![e0] = up]
    BY <1>3
  <2> HIDE DEF up, t, e0
  <2> QED BY <1>2, <1>5, <2>1, <2>2
<1>10. tx'[c].view[e0].born = IF rows[e0].seen = 0 THEN t.seq ELSE rows[e0].born
  <2>1. t.view[e0].seen = 0 => rows[e0].seen = 0
    <3>1. t.view[e0].seen >= rows[e0].seen
      BY <1>1, <1>2, <1>6 DEF ViewOf
    <3>2. rows[e0].seen \in Nat
      BY <1>2, <1>5 DEF EpisodeRow
    <3> HIDE DEF t, e0
    <3> QED BY <3>1, <3>2
  <2>2. \/ t.view[e0].seen = 0
        \/ t.view[e0] = rows[e0]
        \/ t.view[e0].seen = t.seq
             /\ t.view[e0].born = IF rows[e0].seen = 0 THEN t.seq ELSE rows[e0].born
    BY <1>2, <1>6 DEF HistoryOf
  <2>3. t.seq # 0
    <3>1. t.seq = crawlSeq + 1 /\ crawlSeq \in Nat
      BY <1>6 DEF ViewOf, TypeInv, TypeOK
    <3> QED BY <3>1
  <2> HIDE DEF t, e0
  <2> QED BY <1>9, <2>1, <2>2, <2>3
<1>11. ASSUME NEW e \in Episodes, tx'[c].view[e].seen = t.seq
       PROVE  AtPlace(tx'[c].view[e], e, t.doc, t.next)
  <2>1. CASE e = e0
    <3>1. tx'[c].view[e].pos + 1 = t.next
      BY <1>4, <1>9, <2>1
    <3>2. ParseFeed(t.doc)[t.next] = e /\ t.next \in 1..t.next
      BY <1>2, <1>4, <2>1
    <3>3. \A k \in 1..t.next : k <= t.next
      OBVIOUS
    <3> HIDE DEF t
    <3> QED BY <3>1, <3>2, <3>3 DEF AtPlace
  <2>2. CASE e # e0
    <3>1. tx'[c].view[e] = t.view[e]
      BY <1>9, <2>2
    <3>2. AtPlace(t.view[e], e, t.doc, t.next - 1)
      BY <1>6, <1>8, <1>11, <3>1 DEF HistoryOf
    <3>3. t.view[e].pos + 1 \in 1..t.next
      BY <1>4, <3>2 DEF AtPlace
    <3>4. \A k \in 1..t.next : ParseFeed(t.doc)[k] = e => k <= t.view[e].pos + 1
      BY <1>4, <2>2, <3>2 DEF AtPlace
    <3>5. ParseFeed(t.doc)[t.view[e].pos + 1] = e
      BY <3>2 DEF AtPlace
    <3> QED BY <3>1, <3>3, <3>4, <3>5 DEF AtPlace
  <2> QED BY <2>1, <2>2
<1>12. ASSUME NEW e \in Episodes
       PROVE  \/ tx'[c].view[e].seen = 0
              \/ tx'[c].view[e] = rows[e]
              \/ tx'[c].view[e].seen = t.seq
                   /\ tx'[c].view[e].born = IF rows[e].seen = 0 THEN t.seq ELSE rows[e].born
  <2>1. CASE e = e0
    BY <1>9, <1>10, <2>1
  <2>2. CASE e # e0
    BY <1>6, <1>9, <2>2 DEF HistoryOf
  <2> QED BY <2>1, <2>2
<1>13. HistoryOf(tx[c])'
  <2>1. /\ tx'[c].phase # "commit" /\ tx'[c].doc = t.doc /\ tx'[c].seq = t.seq
        /\ rows' = rows /\ t.doc # <<>>
    BY <1>1, <1>2, <1>3, DocumentFacts
  <2> HIDE DEF t, e0
  <2> QED BY <1>7, <1>11, <1>12, <2>1 DEF HistoryOf
<1> QED BY <1>1, <1>3, <1>13, OneGoesOn

LEMMA PruneEpisodesHistory ==
  ASSUME TypeInv, SeenInv, HistoryInv, NEW c \in Crawlers, PruneEpisodes(c)
  PROVE  HistoryInv'
<1> DEFINE t == tx[c]
<1>1. t.phase = "prune" /\ UNCHANGED <<crawlSeq, rows, parsed>>
  BY DEF PruneEpisodes
<1>2. /\ tx'[c].phase = "commit" /\ tx'[c].doc = t.doc /\ tx'[c].seq = t.seq
      /\ tx'[c].view = Pruned(t.view, t.seq)
      /\ \A d \in Crawlers \ {c} : tx'[d] = tx[d]
  BY PruneEpisodesFacts
<1>3. t.doc \in Published /\ t.doc # None /\ Len(t.doc) \in Nat
  BY <1>1, DocumentFacts DEF TypeInv, InItems
<1>4. HistoryOf(t) /\ ViewOf(t) /\ Upserts(t)
  BY <1>1, <1>3 DEF HistoryInv, SeenInv, Upserts
<1>5. \A e \in Episodes : tx'[c].view[e] = t.view[e] \/ tx'[c].view[e].seen = 0
  BY <1>2 DEF Pruned, NoEpisode
<1>6. t.seq # 0
  <2>1. t.seq = crawlSeq + 1 /\ crawlSeq \in Nat
    BY <1>4 DEF ViewOf, TypeInv, TypeOK
  <2> QED BY <2>1
<1>7. Done(t) = Len(t.doc) /\ Done(tx'[c]) = Len(t.doc)
  BY <1>1, <1>2 DEF Done
<1>8. t.doc # <<>>
  BY <1>1, <1>4 DEF HistoryOf
<1>9. HistoryOf(tx[c])'
  <2>1. rows' = rows
    BY <1>1
  <2> HIDE DEF t
  <2> QED BY <1>2, <1>4, <1>5, <1>6, <1>7, <1>8, <2>1 DEF HistoryOf
<1> QED BY <1>1, <1>2, <1>9, OneGoesOn

(* One more parse: what it lists, and which listings last through it.      *)
LEMMA OneMoreParse ==
  ASSUME NEW docs \in Seq(Published), NEW doc \in Published, NEW e
  PROVE  LET n == Len(docs) + 1
             more == Append(docs, doc) IN
         /\ n \in Nat /\ Len(more) = n
         /\ \A j : j \in Listings(more, e) <=>
                     j \in Listings(docs, e) \/ (j = n /\ ListedIn(doc, e))
         /\ \A b \in Listings(docs, e) :
              Sustained(more, e, b) <=>
                /\ Sustained(docs, e, b)
                /\ Grace > 0 /\ doc # <<>> => Reaches(more, e, b, n)
<1> DEFINE n == Len(docs) + 1
           more == Append(docs, doc)
<1>1. /\ Len(docs) \in Nat /\ n \in Nat /\ Len(more) = n /\ more[n] = doc
      /\ \A k \in 1..Len(docs) : more[k] = docs[k]
  OBVIOUS
<1> HIDE DEF more
<1>2. \A j : j \in Listings(more, e) <=>
               j \in Listings(docs, e) \/ (j = n /\ ListedIn(doc, e))
  BY <1>1 DEF Listings
<1>3. ASSUME NEW b \in Listings(docs, e), NEW k \in b..Len(docs)
      PROVE  Reaches(more, e, b, k) <=> Reaches(docs, e, b, k)
  <2>1. \A j \in Listings(docs, e) : j \in 1..Len(docs)
    BY DEF Listings
  <2>2. k < n
    BY <1>1, <2>1
  <2>3. b \in Nat /\ k \in Int
    BY <2>1
  <2>4. ASSUME NEW j \in Listings(more, e), j <= k
        PROVE  j \in Listings(docs, e)
    BY <1>1, <1>2, <2>2, <2>3, <2>4
  <2> QED BY <1>2, <2>4 DEF Reaches
<1>4. ASSUME NEW b \in Listings(docs, e)
      PROVE  Sustained(more, e, b) <=>
                /\ Sustained(docs, e, b)
                /\ Grace > 0 /\ doc # <<>> => Reaches(more, e, b, n)
  <2>1. b \in 1..Len(docs)
    BY DEF Listings
  <2>2. \A k : k \in b..Len(more) <=> k \in b..Len(docs) \/ k = n
    BY <1>1, <2>1
  <2>3. \A k \in b..Len(docs) : more[k] = docs[k]
    BY <1>1, <2>1
  <2> HIDE DEF n
  <2> QED BY <1>1, <1>3, <2>2, <2>3 DEF Sustained
<1> QED BY <1>1, <1>2, <1>4 DEF more

(* An episode the new document lists keeps the row it has, or gets one.    *)
LEMMA ListedIsBorn ==
  ASSUME NEW docs \in Seq(Published), NEW doc \in Published, NEW e,
         NEW row \in EpisodeRow, NEW new \in EpisodeRow,
         BornAs(row, docs, e), ListedIn(doc, e),
         new.seen = Len(docs) + 1,
         new.born = IF row.seen = 0 THEN Len(docs) + 1 ELSE row.born
  PROVE  BornAs(new, Append(docs, doc), e)
<1> DEFINE n == Len(docs) + 1
           more == Append(docs, doc)
<1>1. /\ n \in Nat /\ Len(more) = n /\ n # 0
      /\ \A j : j \in Listings(more, e) <=> j \in Listings(docs, e) \/ j = n
      /\ \A b \in Listings(docs, e) :
           Sustained(more, e, b) => Sustained(docs, e, b)
  BY OneMoreParse
<1>2. \A b \in Listings(docs, e) :
        Sustained(docs, e, b) /\ Reaches(more, e, b, n) => Sustained(more, e, b)
  BY OneMoreParse
<1>3. \A j \in Listings(docs, e) : j \in Nat /\ j < n
  BY DEF Listings
<1>4. Grace \in Nat
  BY NumbersAssumption
<1>5. new.seen = n /\ new.born = IF row.seen = 0 THEN n ELSE row.born
  OBVIOUS
<1> HIDE DEF n, more
<1>6. \A b \in Listings(more, e) : b <= n => Reaches(more, e, b, n)
  BY <1>1, <1>4 DEF Reaches
<1>7. \A b \in Listings(more, e) : b \in Nat /\ b <= n
  BY <1>1, <1>3
<1>8. CASE row.seen = 0
  <2>1. Sustained(more, e, n)
    <3>1. \A k \in n..Len(more) : k = n
      BY <1>1
    <3> QED BY <1>1, <1>6, <3>1 DEF Sustained
  <2>2. \A b \in Listings(docs, e) : ~Sustained(more, e, b)
    BY <1>1, <1>8 DEF BornAs
  <2>3. \A b \in Listings(more, e) : Sustained(more, e, b) => n <= b
    BY <1>1, <2>2
  <2> QED BY <1>1, <1>5, <1>7, <1>8, <2>1, <2>3 DEF BornAs, more
<1>9. CASE row.seen # 0
  <2>1. /\ row.born \in Listings(docs, e)
        /\ Sustained(docs, e, row.born)
        /\ \A b \in Listings(docs, e) : Sustained(docs, e, b) => row.born <= b
    BY <1>9 DEF BornAs
  <2>2. row.born \in Listings(more, e) /\ Sustained(more, e, row.born) /\ row.born <= n
    BY <1>1, <1>2, <1>6, <1>7, <2>1
  <2>3. \A b \in Listings(more, e) : Sustained(more, e, b) => row.born <= b
    BY <1>1, <2>1, <2>2
  <2> QED BY <1>1, <1>5, <1>7, <1>9, <2>2, <2>3 DEF BornAs, more
<1> QED BY <1>8, <1>9

(* One it does not list keeps its row as long as the grace lasts.          *)
LEMMA UnlistedIsKept ==
  ASSUME NEW docs \in Seq(Published), NEW doc \in Published, NEW e,
         NEW row \in EpisodeRow, BornAs(row, docs, e), ~ListedIn(doc, e),
         row.seen # 0 /\ Grace > 0 /\ doc # <<>> => row.seen >= (Len(docs) + 1) - Grace
  PROVE  BornAs(row, Append(docs, doc), e)
<1> DEFINE n == Len(docs) + 1
           more == Append(docs, doc)
<1>1. /\ n \in Nat /\ Len(more) = n
      /\ \A j : j \in Listings(more, e) <=> j \in Listings(docs, e)
      /\ \A b \in Listings(docs, e) : Sustained(more, e, b) => Sustained(docs, e, b)
  BY OneMoreParse
<1>2. \A b \in Listings(docs, e) :
        Sustained(docs, e, b) /\ (Grace > 0 /\ doc # <<>> => Reaches(more, e, b, n))
          => Sustained(more, e, b)
  BY OneMoreParse
<1>3. \A j \in Listings(docs, e) : j \in Nat /\ j < n
  BY DEF Listings
<1>4. Grace \in Nat
  BY NumbersAssumption
<1>5. row.seen # 0 /\ Grace > 0 /\ doc # <<>> => row.seen >= n - Grace
  OBVIOUS
<1> HIDE DEF n, more
<1>6. CASE row.seen = 0
  BY <1>1, <1>6 DEF BornAs, more
<1>7. CASE row.seen # 0
  <2>1. /\ row.born \in Listings(docs, e) /\ row.born <= row.seen
        /\ row.seen \in Listings(docs, e)
        /\ Sustained(docs, e, row.born)
        /\ \A b \in Listings(docs, e) :
             b <= row.seen /\ (Sustained(docs, e, b) => row.born <= b)
    BY <1>7 DEF BornAs
  <2>2. Grace > 0 /\ doc # <<>> => Reaches(more, e, row.born, n)
    <3> SUFFICES ASSUME Grace > 0, doc # <<>>
                 PROVE  Reaches(more, e, row.born, n)
      OBVIOUS
    <3>1. n - row.seen <= Grace /\ row.seen <= n
      BY <1>1, <1>3, <1>4, <1>5, <1>7, <2>1
    <3> QED BY <1>1, <2>1, <3>1 DEF Reaches
  <2>3. Sustained(more, e, row.born)
    BY <1>2, <2>1, <2>2
  <2> QED BY <1>1, <1>7, <2>1, <2>3 DEF BornAs, more
<1> QED BY <1>6, <1>7

(* One whose row is pruned has no listing left that still counts.          *)
LEMMA PrunedIsForgotten ==
  ASSUME NEW docs \in Seq(Published), NEW doc \in Published, NEW e,
         NEW row \in EpisodeRow, NEW new \in EpisodeRow,
         BornAs(row, docs, e), ~ListedIn(doc, e), new.seen = 0,
         row.seen # 0, Grace > 0, doc # <<>>, row.seen < (Len(docs) + 1) - Grace
  PROVE  BornAs(new, Append(docs, doc), e)
<1> DEFINE n == Len(docs) + 1
           more == Append(docs, doc)
<1>1. /\ n \in Nat
      /\ \A j : j \in Listings(more, e) <=> j \in Listings(docs, e)
      /\ \A b \in Listings(docs, e) : Sustained(more, e, b) => Reaches(more, e, b, n)
  BY OneMoreParse
<1>2. \A j \in Listings(docs, e) : j \in Nat /\ j <= row.seen
  BY DEF Listings, BornAs
<1>3. row.seen \in Nat /\ Grace \in Nat /\ row.seen < n - Grace
  BY NumbersAssumption DEF EpisodeRow
<1> HIDE DEF n, more
<1>4. \A b : ~Reaches(more, e, b, n)
  BY <1>1, <1>2, <1>3 DEF Reaches
<1> QED BY <1>1, <1>4 DEF BornAs, more

LEMMA CommitHistory ==
  ASSUME TypeInv, SeenInv, HistoryInv, NEW c \in Crawlers, Commit(c)
  PROVE  HistoryInv'
<1> DEFINE t == tx[c]
<1>1. /\ t.phase = "commit" /\ crawlSeq' = t.seq /\ rows' = t.view
      /\ parsed' = IF t.doc = None THEN parsed ELSE Append(parsed, t.doc)
  BY DEF Commit
<1>2. tx'[c].phase = "idle" /\ \A d \in Crawlers \ {c} : tx'[d] = tx[d]
  BY ClosedFacts DEF Commit
<1>3. \A d \in Crawlers : ~Upserts(tx'[d])
  <2>1. \A d \in Holders : d = c
    BY <1>1 DEF Holders, SeenInv
  <2>2. \A d \in Crawlers \ {c} : ~Upserts(tx[d])
    BY <2>1 DEF Holders, Upserts
  <2> QED BY <1>2, <2>2 DEF Upserts
<1>4. \A d \in Crawlers : HistoryOf(tx[d])'
  BY <1>3 DEF HistoryOf, Upserts
<1>5. HistoryOf(t) /\ ViewOf(t)
  BY DEF HistoryInv, SeenInv
<1>6. /\ t.doc \in Published \cup {None} /\ t.view \in [Episodes -> EpisodeRow]
      /\ t.seq \in Nat /\ rows \in [Episodes -> EpisodeRow] /\ parsed \in Seq(Published)
  BY DEF TypeInv, TypeOK, Transaction
<1>7. CASE t.doc = None
  <2>1. UNCHANGED <<crawlSeq, rows, parsed>>
    BY <1>1, <1>5, <1>7 DEF ViewOf
  <2>2. RowsPlaced' /\ BornInv'
    BY <2>1 DEF HistoryInv, RowsPlaced, BornInv
  <2> QED BY <1>4, <2>2 DEF HistoryInv
<1>8. CASE t.doc # None
  <2>1. /\ t.doc \in Published /\ Upserts(t) /\ Len(parsed) \in Nat
        /\ t.seq = Len(parsed) + 1 /\ parsed' = Append(parsed, t.doc)
    BY <1>1, <1>5, <1>6, <1>8 DEF SeenInv, ViewOf, Upserts
  <2>2. Last(parsed') = t.doc /\ Done(t) = Len(t.doc)
    BY <1>1, <1>6, <2>1 DEF Last, Done
  <2>3. RowsPlaced'
    BY <1>1, <1>5, <2>1, <2>2 DEF RowsPlaced, HistoryOf
  <2>4. ASSUME NEW e \in Episodes
        PROVE  BornAs(t.view[e], Append(parsed, t.doc), e)
    <3> DEFINE old == rows[e]
               new == t.view[e]
    <3>1. /\ old \in EpisodeRow /\ new \in EpisodeRow
          /\ old.seen \in Nat /\ new.seen \in Nat
      BY <1>6 DEF EpisodeRow
    <3>2. BornAs(old, parsed, e)
      BY DEF HistoryInv, BornInv
    <3>3. /\ new.seen \in {0, old.seen} \/ (new.seen = t.seq /\ ListedIn(t.doc, e))
          /\ new.seen >= old.seen \/ (Grace > 0 /\ old.seen < t.seq - Grace)
          /\ Grace > 0 /\ t.doc # <<>> /\ new.seen # 0 => new.seen >= t.seq - Grace
      BY <1>1, <1>5, <2>1 DEF ViewOf
    <3>4. /\ t.doc = <<>> => new = old
          /\ \/ new.seen = 0
             \/ new = old
             \/ new.seen = t.seq /\ new.born = IF old.seen = 0 THEN t.seq ELSE old.born
      BY <1>1, <1>5, <2>1 DEF HistoryOf
    <3>5. ListedIn(t.doc, e) => new.seen = t.seq
      <4>1. \A j \in 1..Len(t.doc) : t.view[ParseFeed(t.doc)[j]].seen = t.seq
        BY <1>1, <1>5, <2>1 DEF ViewOf
      <4> QED BY <2>1, <4>1, DocumentFacts DEF ListedIn
    <3>6. old.seen < t.seq
      <4>1. old.seen # 0 => old.seen \in 1..Len(parsed)
        BY DEF SeenInv, SeenIsListed
      <4> HIDE DEF old, t
      <4> QED BY <2>1, <3>1, <4>1
    <3> HIDE DEF old, new, t
    <3>7. CASE ListedIn(t.doc, e)
      <4>1. new.seen = t.seq /\ new # old /\ new.seen # 0
        BY <2>1, <3>1, <3>5, <3>6, <3>7
      <4>2. new.born = IF old.seen = 0 THEN t.seq ELSE old.born
        BY <3>4, <4>1
      <4>3. BornAs(new, Append(parsed, t.doc), e)
        BY <1>6, <2>1, <3>1, <3>2, <3>7, <4>1, <4>2, ListedIsBorn
      <4> QED BY <4>3 DEF new
    <3>8. CASE ~ListedIn(t.doc, e) /\ new = old
      <4>1. old.seen # 0 /\ Grace > 0 /\ t.doc # <<>> => old.seen >= (Len(parsed) + 1) - Grace
        BY <2>1, <3>3, <3>8
      <4>2. BornAs(old, Append(parsed, t.doc), e)
        BY <1>6, <2>1, <3>1, <3>2, <3>8, <4>1, UnlistedIsKept
      <4> QED BY <3>8, <4>2 DEF new
    <3>9. CASE ~ListedIn(t.doc, e) /\ new # old
      <4>1. new.seen = 0 /\ t.doc # <<>>
        <5>1. new.seen # t.seq
          BY <3>3, <3>6, <3>9, <3>1, <2>1
        <5> QED BY <3>4, <3>9, <5>1
      <4>2. CASE old.seen = 0
        <5>1. \A b \in Listings(parsed, e) : ~Sustained(parsed, e, b)
          BY <3>2, <4>2 DEF BornAs
        <5>2. BornAs(new, parsed, e)
          BY <4>1, <5>1 DEF BornAs
        <5>3. BornAs(new, Append(parsed, t.doc), e)
          BY <1>6, <2>1, <3>1, <3>9, <4>1, <5>2, UnlistedIsKept
        <5> QED BY <5>3 DEF new
      <4>3. CASE old.seen # 0
        <5>1. Grace > 0 /\ old.seen < (Len(parsed) + 1) - Grace
          BY <2>1, <3>1, <3>3, <4>1, <4>3
        <5>2. BornAs(new, Append(parsed, t.doc), e)
          BY <1>6, <2>1, <3>1, <3>2, <3>9, <4>1, <4>3, <5>1, PrunedIsForgotten
        <5> QED BY <5>2 DEF new
      <4> QED BY <4>2, <4>3
    <3> QED BY <3>7, <3>8, <3>9 DEF new
  <2>5. BornInv'
    BY <1>1, <2>1, <2>4 DEF BornInv
  <2> QED BY <1>4, <2>3, <2>5 DEF HistoryInv
<1> QED BY <1>7, <1>8

LEMMA HistoryInvariant == Spec => []HistoryInv
<1>1. TypeInv /\ SeenInv /\ HistoryInv /\ [Next]_vars => HistoryInv'
  <2> SUFFICES ASSUME TypeInv, SeenInv, HistoryInv, [Next]_vars
               PROVE  HistoryInv'
    OBVIOUS
  <2>1. CASE UNCHANGED vars
    BY <2>1 DEF vars, HistoryInv, RowsPlaced, BornInv, HistoryOf, Upserts, Done
  <2> QED
    BY <2>1, BeginHistory, UpdateFeedHistory, UpsertEpisodeHistory, PruneEpisodesHistory,
       CommitHistory, RollbackHistory DEF Next
<1> QED
  BY <1>1, InitHistory, TypeInvariant, SeenInvariant, PTL DEF Spec

-----------------------------------------------------------------------------
LEMMA ListedFacts ==
  ASSUME TypeInv, NEW n \in Nat, NEW e
  PROVE  e \in Listed(n) <=>
           \E i \in 1..Len(parsed) : i > Len(parsed) - n /\ ListedIn(parsed[i], e)
  BY DEF Listed, LastParsed, ListedIn

LEMMA ListedAreEpisodes ==
  ASSUME TypeInv, NEW i \in 1..Len(parsed), NEW e, ListedIn(parsed[i], e)
  PROVE  e \in Episodes
<1>1. parsed[i] \in Published
  BY DEF TypeInv, TypeOK
<1> QED
  BY <1>1 DEF ListedIn, Episodes, Documents

(* An episode that the latest document, or one of the Grace before it,     *)
(* lists is never pruned (pruneEpisodes).                                  *)
THEOREM GraceIsKept == Spec => []RecentSurvives
<1>1. TypeInv /\ SeenInv => RecentSurvives
  <2> SUFFICES ASSUME TypeInv, SeenInv,
                      NEW e \in Listed(IF Grace = 0 THEN Len(parsed) ELSE Grace + 1)
               PROVE  e \in Stored
    BY DEF RecentSurvives
  <2>1. Len(parsed) \in Nat /\ Grace \in Nat
    BY NumbersAssumption DEF TypeInv, TypeOK
  <2>2. PICK i \in 1..Len(parsed) :
          Remembered(i) /\ ListedIn(parsed[i], e)
    BY <2>1, ListedFacts DEF Remembered
  <2>3. e \in Episodes /\ rows[e].seen >= i
    BY <2>2, ListedAreEpisodes DEF SeenInv, ListedIsSeen
  <2>4. rows[e].seen \in Nat
    BY <2>3 DEF TypeInv, TypeOK, EpisodeRow
  <2> QED
    BY <2>1, <2>3, <2>4 DEF Stored
<1> QED
  BY <1>1, TypeInvariant, SeenInvariant, PTL

(* After a document with items nothing is left that no document within the *)
(* grace listed (pruneEpisodes).                                           *)
THEOREM NothingOutstaysGrace == Spec => []OldIsPruned
<1>1. TypeInv /\ SeenInv => OldIsPruned
  <2> SUFFICES ASSUME TypeInv, SeenInv, Grace > 0, parsed # <<>>, Last(parsed) # <<>>,
                      NEW e \in Stored
               PROVE  e \in Listed(Grace + 1)
    BY DEF OldIsPruned
  <2>1. Len(parsed) \in Nat /\ Grace + 1 \in Nat /\ Grace \in Nat
    BY NumbersAssumption DEF TypeInv, TypeOK
  <2>2. e \in Episodes /\ rows[e].seen # 0
    BY DEF Stored
  <2>3. rows[e].seen \in 1..Len(parsed) /\ ListedIn(parsed[rows[e].seen], e)
    BY <2>2 DEF SeenInv, SeenIsListed
  <2>4. rows[e].seen >= Len(parsed) - Grace
    BY <2>2 DEF SeenInv, NothingOlder
  <2>5. rows[e].seen > Len(parsed) - (Grace + 1)
    BY <2>1, <2>3, <2>4
  <2> QED
    BY <2>1, <2>3, <2>5, ListedFacts
<1> QED
  BY <1>1, TypeInvariant, SeenInvariant, PTL

-----------------------------------------------------------------------------
(* A guid identifies an item exactly when the document uses it once.       *)
LEMMA GuidIdentity ==
  ASSUME NEW doc \in Published, NEW g, g # Blank
  PROVE  LET e == <<"guid", 0, g>> IN
         /\ ListedIn(doc, e) <=> Cardinality(Copies(doc, g)) = 1
         /\ \A k \in 1..Len(doc) : ParseFeed(doc)[k] = e => doc[k].guid = g
         /\ Cardinality(Copies(doc, g)) = 1 =>
              \A k, j \in 1..Len(doc) : doc[k].guid = g /\ doc[j].guid = g => k = j
<1> DEFINE e == <<"guid", 0, g>>
           C == Copies(doc, g)
<1>1. Len(doc) \in Nat /\ DOMAIN doc = 1..Len(doc)
  BY DocumentFacts
<1>a. \A x : ListedIn(doc, x) <=> \E k \in 1..Len(doc) : x = ParseFeed(doc)[k]
  <2>1. ToSet(ParseFeed(doc)) = {ParseFeed(doc)[i] : i \in 1..Len(doc)}
    BY DocumentFacts
  <2> QED BY <2>1 DEF ListedIn
<1>2. IsFiniteSet(C) /\ Cardinality(C) \in Nat
  <2>1. IsFiniteSet(1..Len(doc))
    BY <1>1, FS_Interval
  <2>2. C \subseteq 1..Len(doc)
    BY <1>1 DEF Copies
  <2> QED BY <2>1, <2>2, PartOfFinite
<1>3. \A k \in 1..Len(doc) :
        ParseFeed(doc)[k] = EpisodeIdentity(doc[k], k - 1, DuplicatedGuids(doc))
  BY <1>1 DEF ParseFeed
<1>4. ASSUME NEW k \in 1..Len(doc)
      PROVE  ParseFeed(doc)[k] = e <=> doc[k].guid = g /\ g \notin DuplicatedGuids(doc)
  <2> DEFINE it == doc[k]
             dup == DuplicatedGuids(doc)
             id == ParseFeed(doc)[k]
  <2>1. id = IF it.guid # Blank /\ it.guid \notin dup THEN <<"guid", 0, it.guid>>
             ELSE IF it.enclosure # Blank THEN <<"enclosure_hash", 0, it.enclosure>>
             ELSE <<"derived", k - 1, it.content>>
    BY <1>3 DEF EpisodeIdentity
  <2> HIDE DEF it, dup, id
  <2>2. /\ \A a, b : <<"enclosure_hash", 0, a>> # <<"guid", 0, b>>
        /\ \A a, b, c : <<"derived", a, b>> # <<"guid", 0, c>>
        /\ \A a, b : <<"guid", 0, a>> = <<"guid", 0, b>> => a = b
    OBVIOUS
  <2>3. id = e <=> it.guid # Blank /\ it.guid \notin dup /\ it.guid = g
    BY <2>1, <2>2
  <2>4. id = e <=> it.guid = g /\ g \notin dup
    BY <2>3
  <2> QED BY <2>4 DEF it, dup, id
<1>5. \A k \in 1..Len(doc) : doc[k].guid = g =>
        (g \in DuplicatedGuids(doc) <=> Cardinality(C) > 1)
  BY <1>1 DEF DuplicatedGuids
<1>6. \A k \in 1..Len(doc) : doc[k].guid = g <=> k \in C
  BY <1>1 DEF Copies
<1>7. Cardinality(C) = 0 <=> C = {}
  BY <1>2, FS_EmptySet
<1>8. C \subseteq 1..Len(doc)
  BY <1>1 DEF Copies
<1>9. ListedIn(doc, e) <=> Cardinality(C) = 1
  <2>1. ListedIn(doc, e) <=> \E k \in C : ~(Cardinality(C) > 1)
    BY <1>a, <1>4, <1>5, <1>6, <1>8
  <2> HIDE DEF C
  <2>2. C # {} /\ ~(Cardinality(C) > 1) <=> Cardinality(C) = 1
    BY <1>2, <1>7
  <2> QED BY <2>1, <2>2
<1>10. Cardinality(C) = 1 => \A k, j \in C : k = j
  <2>1. Cardinality(C) = 1 => \E x : C = {x}
    BY <1>2, FS_Singleton
  <2> QED BY <2>1
<1> QED BY <1>4, <1>6, <1>9, <1>10

(* Two items with one identity, known by its guid, are one item.           *)
LEMMA SharedGuid ==
  ASSUME NEW doc \in Published, NEW i \in 1..Len(doc), NEW j \in 1..Len(doc),
         NEW g, g # Blank,
         ParseFeed(doc)[i] = <<"guid", 0, g>>, ParseFeed(doc)[j] = <<"guid", 0, g>>
  PROVE  i = j
<1>1. doc[i].guid = g /\ doc[j].guid = g
  BY GuidIdentity
<1>2. ToSet(ParseFeed(doc)) = {ParseFeed(doc)[k] : k \in 1..Len(doc)}
  BY DocumentFacts
<1>3. ListedIn(doc, <<"guid", 0, g>>)
  BY <1>2 DEF ListedIn
<1>4. Cardinality(Copies(doc, g)) = 1
  BY <1>3, GuidIdentity
<1> QED BY <1>1, <1>4, GuidIdentity

(* What the latest document lists is what is served, each episode at the   *)
(* place where the document lists it last.                                 *)
LEMMA ServedInPlace ==
  ASSUME TypeInv, SeenInv, HistoryInv, parsed # <<>>
  PROVE  LET doc == Last(parsed) IN
         /\ doc \in Published /\ crawlSeq = Len(parsed) /\ crawlSeq \in Nat \ {0}
         /\ \A e \in Episodes : rows[e].seen = crawlSeq <=> ListedIn(doc, e)
         /\ \A e \in Episodes : rows[e].seen = crawlSeq =>
              AtPlace(rows[e], e, doc, Len(doc))
<1> DEFINE doc == Last(parsed)
<1>1. /\ parsed \in Seq(Published) /\ Len(parsed) \in Nat \ {0}
      /\ doc = parsed[Len(parsed)] /\ doc \in Published
      /\ crawlSeq = Len(parsed)
  BY DEF TypeInv, TypeOK, Last, SeenInv
<1>2. ASSUME NEW e \in Episodes PROVE rows[e].seen = crawlSeq <=> ListedIn(doc, e)
  <2>1. rows[e].seen \in Nat
    BY DEF TypeInv, TypeOK, EpisodeRow
  <2>2. rows[e].seen # 0 =>
          rows[e].seen \in 1..Len(parsed) /\ ListedIn(parsed[rows[e].seen], e)
    BY DEF SeenInv, SeenIsListed
  <2>3. ListedIn(doc, e) => rows[e].seen >= Len(parsed)
    <3>1. Remembered(Len(parsed))
      BY <1>1, NumbersAssumption DEF Remembered
    <3> QED BY <1>1, <3>1 DEF SeenInv, ListedIsSeen
  <2> HIDE DEF doc
  <2>4. ListedIn(doc, e) => rows[e].seen = crawlSeq
    BY <1>1, <2>1, <2>2, <2>3
  <2>5. rows[e].seen = crawlSeq => ListedIn(doc, e)
    BY <1>1, <2>2
  <2> QED BY <2>4, <2>5
<1>3. \A e \in Episodes : rows[e].seen = crawlSeq => AtPlace(rows[e], e, doc, Len(doc))
  BY DEF HistoryInv, RowsPlaced
<1> QED BY <1>1, <1>2, <1>3

(* An episode known by its guid is served from one row as long as the      *)
(* publisher lists it with no gap beyond the grace, wherever in the        *)
(* document its item stands (upsertEpisodes, pruneEpisodes).               *)
THEOREM RowsAreKept == Spec => []KeepsItsRow
<1>1. TypeInv /\ SeenInv /\ HistoryInv => KeepsItsRow
  <2> SUFFICES ASSUME TypeInv, SeenInv, HistoryInv, parsed # <<>>,
                      NEW i \in DOMAIN Last(parsed),
                      Last(parsed)[i].guid # Blank,
                      Len(parsed) \in Lists1(Last(parsed)[i].guid)
               PROVE  LET g == Last(parsed)[i].guid IN
                      \E e \in Stored :
                        /\ rows[e].seen = crawlSeq
                        /\ rows[e].pos = i - 1
                        /\ rows[e].born \in Lists1(g)
                        /\ Unbroken(g, rows[e].born)
                        /\ \A b \in Lists1(g) : Unbroken(g, b) => rows[e].born <= b
    BY DEF KeepsItsRow
  <2> DEFINE doc == Last(parsed)
             g == doc[i].guid
             e == <<"guid", 0, g>>
  <2>1. /\ doc \in Published /\ crawlSeq = Len(parsed) /\ crawlSeq \in Nat \ {0}
        /\ \A x \in Episodes : rows[x].seen = crawlSeq <=> ListedIn(doc, x)
        /\ \A x \in Episodes : rows[x].seen = crawlSeq =>
             AtPlace(rows[x], x, doc, Len(doc))
    BY ServedInPlace
  <2>2. i \in 1..Len(doc) /\ Len(doc) \in Nat
    BY <2>1, DocumentFacts
  <2>3. /\ parsed \in Seq(Published) /\ DOMAIN parsed = 1..Len(parsed)
        /\ doc = parsed[Len(parsed)] /\ \A k \in 1..Len(parsed) : parsed[k] \in Published
    <3>1. parsed \in Seq(Published)
      BY DEF TypeInv, TypeOK
    <3> QED BY <3>1 DEF Last
  <2>4. \A k \in 1..Len(parsed) :
          ListedIn(parsed[k], e) <=> Cardinality(Copies(parsed[k], g)) = 1
    BY <2>3, GuidIdentity
  <2>5. Lists1(g) = Listings(parsed, e)
    BY <2>3, <2>4 DEF Lists1, Listings
  <2>6. \A b : Unbroken(g, b) <=> Sustained(parsed, e, b)
    BY <2>5 DEF Unbroken, Sustained, Reaches
  <2>7. ListedIn(doc, e)
    BY <2>3, <2>5 DEF Listings
  <2>8. e \in Episodes
    BY <2>1, <2>7 DEF ListedIn, Episodes, Documents
  <2>9. rows[e].seen = crawlSeq /\ AtPlace(rows[e], e, doc, Len(doc)) /\ rows[e].seen # 0
    BY <2>1, <2>7, <2>8
  <2>10. rows[e].pos = i - 1
    <3>1. Cardinality(Copies(doc, g)) = 1
      BY <2>1, <2>7, GuidIdentity
    <3> DEFINE p == rows[e].pos + 1
    <3>a. p \in 1..Len(doc) /\ ParseFeed(doc)[p] = e
      BY <2>9 DEF AtPlace
    <3>2. doc[p].guid = g
      <4>1. \A k \in 1..Len(doc) : ParseFeed(doc)[k] = e => doc[k].guid = g
        <5>1. g # Blank
          OBVIOUS
        <5> HIDE DEF doc, g
        <5> QED BY <2>1, <5>1, GuidIdentity DEF e
      <4> HIDE DEF p, doc, g, e
      <4> QED BY <3>a, <4>1
    <3>3. p = i
      <4> HIDE DEF p
      <4> QED BY <2>1, <2>2, <3>1, <3>2, <3>a, GuidIdentity
    <3>4. rows[e].pos \in Nat
      BY <2>8 DEF TypeInv, TypeOK, EpisodeRow
    <3> HIDE DEF e
    <3> QED BY <2>2, <3>3, <3>4
  <2>11. e \in Stored
    <3>1. rows[e].seen \in Nat
      BY <2>8 DEF TypeInv, TypeOK, EpisodeRow
    <3> HIDE DEF e
    <3> QED BY <2>8, <2>9, <3>1 DEF Stored
  <2>12. BornAs(rows[e], parsed, e)
    BY <2>8 DEF HistoryInv, BornInv
  <2>13. /\ rows[e].born \in Lists1(g) /\ Unbroken(g, rows[e].born)
         /\ \A b \in Lists1(g) : Unbroken(g, b) => rows[e].born <= b
    BY <2>5, <2>6, <2>9, <2>12 DEF BornAs
  <2> QED BY <2>9, <2>10, <2>11, <2>13
<1> QED
  BY <1>1, TypeInvariant, SeenInvariant, HistoryInvariant, PTL

(* The readers' order and the order of Lists are one.                      *)
LEMMA SameOrdering ==
  /\ \A f : Lists!InOrder(f) = InOrder(f)
  /\ \A s, places : Lists!Picked(s, places) = Picked(s, places)
<1>1. \A S : Lists!Cardinality(S) = Cardinality(S)
  BY Zenon DEF Lists!Cardinality, Cardinality
<1>2. \A n, f : Lists!Nth(n, f) = Nth(n, f)
  BY <1>1 DEF Lists!Nth, Nth, Lists!Below, Below, Lists!UpTo, UpTo
<1>3. \A f : Lists!InOrder(f) = InOrder(f)
  BY <1>1, <1>2 DEF Lists!InOrder, InOrder
<1>4. ASSUME NEW s, NEW places PROVE Lists!Picked(s, places) = Picked(s, places)
  <2> DEFINE P(i) == {j \in places : j <= i}
  <2>1. /\ Lists!Picked(s, places) =
             [n \in 1..Lists!Cardinality(places) |->
                s[CHOOSE i \in places : Lists!Cardinality(P(i)) = n]]
        /\ Picked(s, places) =
             [n \in 1..Cardinality(places) |->
                s[CHOOSE i \in places : Cardinality(P(i)) = n]]
    BY DEF Lists!Picked, Picked
  <2> HIDE DEF P
  <2> QED BY <1>1, <2>1
<1> QED BY <1>3, <1>4

LEMMA ParsedIsSequence ==
  ASSUME NEW doc \in Published
  PROVE  ParseFeed(doc) \in Seq(Episodes) /\ Len(ParseFeed(doc)) = Len(doc)
<1>1. /\ Len(doc) \in Nat /\ DOMAIN doc = 1..Len(doc)
      /\ \A i \in 1..Len(doc) : ParseFeed(doc)[i] \in Episodes
  BY DocumentFacts
<1>2. ParseFeed(doc) \in [1..Len(doc) -> Episodes]
  BY <1>1 DEF ParseFeed
<1>3. ParseFeed(doc) \in Seq(Episodes)
  BY <1>1, <1>2
<1> QED BY <1>1, <1>2, <1>3

(* What is served is the list of the latest document.                      *)
LEMMA ServedIsListed ==
  ASSUME TypeInv, SeenInv, HistoryInv
  PROVE  EpisodesByFeed = Lists!ListOf(Latest)
<1> DEFINE place == [e \in Served |-> rows[e].pos]
           Kept(pf) == {j \in 1..Len(pf) : Lists!IsLast(pf, j)}
           kept(pf) == [i \in Kept(pf) |-> i]
<1>1. EpisodesByFeed = [n \in 1..Cardinality(Served) |-> InOrder(place)[n]]
  BY DEF EpisodesByFeed, InOrder
<1>2. ASSUME NEW pf, Len(pf) \in Nat
      PROVE  Lists!ListOf(pf) =
               [n \in 1..Cardinality(Kept(pf)) |-> pf[InOrder(kept(pf))[n]]]
  <2>1. Kept(pf) \in SUBSET Int /\ IsFiniteSet(Kept(pf))
    <3>1. IsFiniteSet(1..Len(pf)) /\ Kept(pf) \subseteq 1..Len(pf)
      BY <1>2, FS_Interval
    <3> HIDE DEF Kept
    <3> QED BY <3>1, PartOfFinite
  <2>2. Lists!ListOf(pf) = Picked(pf, Kept(pf))
    BY SameOrdering DEF Lists!ListOf
  <2> HIDE DEF Kept
  <2> QED BY <2>1, <2>2, PickedInOrder
<1>3. CASE parsed = <<>>
  <2>1. crawlSeq = 0 /\ Latest = <<>>
    BY <1>3 DEF SeenInv, Latest
  <2>2. Served = {} /\ Kept(<<>>) = {}
    BY <2>1 DEF Served
  <2>3. Cardinality({}) = 0 /\ 1..0 = {}
    BY FS_EmptySet
  <2> HIDE DEF place, kept, Kept
  <2> QED BY <1>1, <1>2, <2>1, <2>2, <2>3
<1>4. CASE parsed # <<>>
  <2> DEFINE doc == Last(parsed)
             pf == ParseFeed(doc)
             T == Kept(pf)
             f == kept(pf)
             h == [t \in T |-> pf[t]]
  <2>1. /\ doc \in Published /\ crawlSeq \in Nat \ {0}
        /\ \A e \in Episodes : rows[e].seen = crawlSeq <=> ListedIn(doc, e)
        /\ \A e \in Episodes : rows[e].seen = crawlSeq =>
             AtPlace(rows[e], e, doc, Len(doc))
    BY <1>4, ServedInPlace
  <2>2. /\ pf \in Seq(Episodes) /\ Len(pf) = Len(doc) /\ Len(pf) \in Nat
        /\ \A e : ListedIn(doc, e) <=> \E k \in 1..Len(pf) : e = pf[k]
    BY <2>1, ParsedIsSequence, DocumentFacts DEF ListedIn
  <2>3. \A e : e \in Served <=> e \in Episodes /\ rows[e].seen = crawlSeq
    BY <2>1 DEF Served
  <2>4. \A e \in Served : /\ rows[e].pos \in Nat /\ rows[e].pos + 1 \in 1..Len(pf)
                          /\ pf[rows[e].pos + 1] = e
                          /\ \A k \in 1..Len(pf) : pf[k] = e => k <= rows[e].pos + 1
    BY <2>1, <2>2, <2>3 DEF AtPlace, TypeInv, TypeOK, EpisodeRow
  <2>5. \A t \in 1..Len(pf) : pf[t] \in Served
    BY <2>1, <2>2, <2>3
  <2>6. Latest = pf
    BY <1>4 DEF Latest
  <2> HIDE DEF doc, pf
  <2>7. \A t \in T : t \in 1..Len(pf) /\ \A j \in t + 1..Len(pf) : pf[j] # pf[t]
    BY DEF Lists!IsLast
  <2>8. ASSUME NEW t \in T PROVE rows[pf[t]].pos + 1 = t /\ rows[pf[t]].pos \in Nat
    <3>1. /\ pf[t] \in Served /\ t \in 1..Len(pf)
          /\ rows[pf[t]].pos \in Nat /\ rows[pf[t]].pos + 1 \in 1..Len(pf)
          /\ pf[rows[pf[t]].pos + 1] = pf[t] /\ t <= rows[pf[t]].pos + 1
      BY <2>4, <2>5, <2>7
    <3>2. ~(rows[pf[t]].pos + 1 \in t + 1..Len(pf))
      BY <2>7, <3>1
    <3> DEFINE p == rows[pf[t]].pos
    <3> HIDE DEF p, T
    <3>3. /\ p \in Nat /\ p + 1 \in 1..Len(pf) /\ t <= p + 1 /\ t \in 1..Len(pf)
          /\ ~(p + 1 \in t + 1..Len(pf))
      BY <3>1, <3>2 DEF p
    <3>4. p + 1 = t
      BY <2>2, <3>3
    <3> QED BY <3>3, <3>4 DEF p
  <2>9. ASSUME NEW e \in Served PROVE \E t \in T : e = h[t]
    <3> DEFINE t == rows[e].pos + 1
    <3>1. /\ t \in 1..Len(pf) /\ pf[t] = e
          /\ \A k \in 1..Len(pf) : pf[k] = e => k <= t
      BY <2>4
    <3> HIDE DEF t
    <3>2. \A j \in t + 1..Len(pf) : pf[j] # pf[t]
      BY <2>2, <3>1
    <3>3. t \in T
      BY <3>1, <3>2 DEF Lists!IsLast
    <3> QED BY <3>1, <3>3
  <2>10. IsFiniteSet(T)
    <3>1. IsFiniteSet(1..Len(pf)) /\ T \subseteq 1..Len(pf)
      BY <2>2, FS_Interval
    <3> HIDE DEF T
    <3> QED BY <3>1, PartOfFinite
  <2>11. /\ f \in [T -> Int] /\ \A t \in T : f[t] = t
         /\ h \in [T -> Served] /\ \A t \in T : h[t] = pf[t]
         /\ place \in [Served -> Int] /\ \A e \in Served : place[e] = rows[e].pos
    <3>1. f \in [T -> Int] /\ \A t \in T : f[t] = t
      BY <2>7
    <3>2. h \in [T -> Served] /\ \A t \in T : h[t] = pf[t]
      BY <2>5, <2>7
    <3>3. place \in [Served -> Int] /\ \A e \in Served : place[e] = rows[e].pos
      BY <2>4
    <3> QED BY <3>1, <3>2, <3>3
  <2>12. DOMAIN f = T /\ \A n : InOrder(f)[n] = InOrder(kept(pf))[n]
    OBVIOUS
  <2>13. \A t \in T : t \in Int
    BY <2>7
  <2> HIDE DEF f, h, place, T
  <2>14. \A t, u \in T : f[t] < f[u] <=> place[h[t]] < place[h[u]]
    <3> TAKE t \in T, u \in T
    <3>1. /\ f[t] = t /\ f[u] = u /\ t \in Int /\ u \in Int
          /\ place[h[t]] + 1 = t /\ place[h[u]] + 1 = u
          /\ place[h[t]] \in Int /\ place[h[u]] \in Int
      BY <2>8, <2>11, <2>13
    <3> QED BY <3>1
  <2>15. \A t, u \in T : f[t] = f[u] => t = u
    BY <2>11
  <2>16. /\ Cardinality(Served) = Cardinality(T)
         /\ \A n \in 1..Cardinality(T) :
              InOrder(f)[n] \in T /\ InOrder(place)[n] = h[InOrder(f)[n]]
    BY <2>9, <2>10, <2>11, <2>14, <2>15, SortedAlike
  <2>17. \A n \in 1..Cardinality(T) : InOrder(place)[n] = pf[InOrder(f)[n]]
    BY <2>11, <2>16
  <2>18. Lists!ListOf(pf) = [n \in 1..Cardinality(T) |-> pf[InOrder(f)[n]]]
    BY <1>2, <2>2 DEF T, f
  <2> QED BY <1>1, <2>6, <2>16, <2>17, <2>18
<1> QED BY <1>3, <1>4

(* "crawl_seq and the episodes stamped with it can never disagree": what   *)
(* readers are promised, refined (ApplyCrawl, EpisodesByFeed).             *)
THEOREM ReadersAreServedWhole == Spec => ReadersSeeWholeDocuments
<1> DEFINE Inv == TypeInv /\ SeenInv /\ EpisodesByFeed = Lists!ListOf(Latest)
<1>1. Init => Lists!Init
  <2> SUFFICES ASSUME Init PROVE Lists!Init
    OBVIOUS
  <2>1. parsed = <<>> /\ crawlSeq = 0 /\ Served = {}
    BY DEF Init, Served
  <2>2. Latest = <<>>
    BY <2>1 DEF Latest
  <2>3. Cardinality({}) = 0 /\ 1..0 = {}
    BY FS_EmptySet
  <2>4. EpisodesByFeed = <<>>
    BY <2>1, <2>3 DEF EpisodesByFeed, InOrder
  <2> QED BY <2>2, <2>4 DEF Lists!Init
<1>2. Inv /\ Inv' /\ [Next]_vars => [Lists!Next]_(Lists!vars)
  <2> SUFFICES ASSUME Inv, Inv', [Next]_vars
               PROVE  Lists!Next \/ UNCHANGED Lists!vars
    OBVIOUS
  <2>1. ASSUME UNCHANGED <<crawlSeq, rows, parsed>>
        PROVE  UNCHANGED Lists!vars
    BY <2>1 DEF Lists!vars, Latest, EpisodesByFeed, Served
  <2>2. ASSUME NEW c \in Crawlers, Commit(c)
        PROVE  Lists!Next \/ UNCHANGED Lists!vars
    <3>1. ViewOf(tx[c]) /\ tx[c].doc \in Published \cup {None}
      BY DEF SeenInv, TypeInv, TypeOK, Transaction
    <3>2. CASE tx[c].doc = None
      <4>1. UNCHANGED <<crawlSeq, rows, parsed>>
        BY <2>2, <3>1, <3>2 DEF Commit, ViewOf
      <4> QED BY <2>1, <4>1
    <3>3. CASE tx[c].doc # None
      <4>1. parsed' = Append(parsed, tx[c].doc) /\ tx[c].doc \in Published
        BY <2>2, <3>1, <3>3 DEF Commit
      <4>2. parsed \in Seq(Published)
        BY DEF TypeInv, TypeOK
      <4>3. parsed' # <<>> /\ Last(parsed') = tx[c].doc
        BY <4>1, <4>2 DEF Last
      <4>4. Latest' = ParseFeed(tx[c].doc)
        BY <4>3 DEF Latest
      <4>5. EpisodesByFeed' = Lists!ListOf(Latest')
        OBVIOUS
      <4>6. ParseFeed(tx[c].doc) \in Documents
        BY <4>1 DEF Documents
      <4>7. Lists!Publish(ParseFeed(tx[c].doc))
        BY <4>4, <4>5 DEF Lists!Publish
      <4> QED BY <4>6, <4>7 DEF Lists!Next
    <3> QED BY <3>2, <3>3
  <2>3. CASE UNCHANGED vars
    BY <2>1, <2>3 DEF vars
  <2> QED
    BY <2>1, <2>2, <2>3 DEF Next, Begin, UpdateFeed, UpsertEpisode, PruneEpisodes, Rollback
<1>3. Spec => []Inv
  <2>1. TypeInv /\ SeenInv /\ HistoryInv => Inv
    BY ServedIsListed
  <2> QED BY <2>1, TypeInvariant, SeenInvariant, HistoryInvariant, PTL
<1> HIDE DEF Inv
<1> QED
  BY <1>1, <1>2, <1>3, PTL DEF Spec, ReadersSeeWholeDocuments, Lists!Spec

(* A document whose items all have audio of their own is served item by    *)
(* item, also when it repeats a guid (episodeIdentity, duplicatedGuids).   *)
THEOREM NothingIsSwallowed == Spec => []EveryItemServed
<1>1. TypeInv /\ SeenInv /\ HistoryInv => EveryItemServed
  <2> SUFFICES ASSUME TypeInv, SeenInv, HistoryInv, parsed # <<>>,
                      \A i, j \in DOMAIN Last(parsed) :
                        /\ Last(parsed)[i].enclosure # Blank
                        /\ Last(parsed)[i].enclosure = Last(parsed)[j].enclosure => i = j
               PROVE  Len(EpisodesByFeed) = Len(Last(parsed))
    BY DEF EveryItemServed
  <2> DEFINE doc == Last(parsed)
             pf == ParseFeed(doc)
             T == {j \in 1..Len(pf) : Lists!IsLast(pf, j)}
  <2>1. doc \in Published
    BY ServedInPlace
  <2>2. /\ Len(doc) \in Nat /\ DOMAIN doc = 1..Len(doc)
        /\ Len(pf) = Len(doc)
    BY <2>1, DocumentFacts, ParsedIsSequence
  <2>3. ASSUME NEW i \in DOMAIN doc, NEW j \in DOMAIN doc, pf[i] = pf[j]
        PROVE  i = j
    <3>1. /\ pf[i] = EpisodeIdentity(doc[i], i - 1, DuplicatedGuids(doc))
          /\ pf[j] = EpisodeIdentity(doc[j], j - 1, DuplicatedGuids(doc))
      BY DEF ParseFeed
    <3>2. doc[i].enclosure # Blank /\ doc[j].enclosure # Blank
          /\ (doc[i].enclosure = doc[j].enclosure => i = j)
      OBVIOUS
    <3>3. CASE doc[i].guid # Blank /\ doc[i].guid \notin DuplicatedGuids(doc)
      <4>1. pf[i] = <<"guid", 0, doc[i].guid>>
        BY <3>1, <3>3 DEF EpisodeIdentity
      <4> QED BY <2>1, <2>2, <2>3, <3>3, <4>1, SharedGuid
    <3>4. CASE doc[j].guid # Blank /\ doc[j].guid \notin DuplicatedGuids(doc)
      <4>1. pf[j] = <<"guid", 0, doc[j].guid>>
        BY <3>1, <3>4 DEF EpisodeIdentity
      <4> QED BY <2>1, <2>2, <2>3, <3>4, <4>1, SharedGuid
    <3>5. CASE /\ ~(doc[i].guid # Blank /\ doc[i].guid \notin DuplicatedGuids(doc))
               /\ ~(doc[j].guid # Blank /\ doc[j].guid \notin DuplicatedGuids(doc))
      <4>1. /\ pf[i] = <<"enclosure_hash", 0, doc[i].enclosure>>
            /\ pf[j] = <<"enclosure_hash", 0, doc[j].enclosure>>
        BY <3>1, <3>2, <3>5 DEF EpisodeIdentity
      <4>2. \A a, b : <<"enclosure_hash", 0, a>> = <<"enclosure_hash", 0, b>> => a = b
        OBVIOUS
      <4>3. doc[i].enclosure = doc[j].enclosure
        BY <2>3, <4>1, <4>2
      <4> QED BY <3>2, <4>3
    <3> QED BY <3>3, <3>4, <3>5
  <2>4. T = 1..Len(doc)
    <3>1. \A i \in 1..Len(doc) : \A j \in i + 1..Len(doc) : pf[j] # pf[i]
      <4> SUFFICES ASSUME NEW i \in 1..Len(doc), NEW j \in i + 1..Len(doc), pf[j] = pf[i]
                   PROVE  FALSE
        OBVIOUS
      <4>1. j \in 1..Len(doc) /\ j # i
        BY <2>2
      <4> QED BY <2>2, <2>3, <4>1
    <3> QED BY <2>2, <3>1 DEF Lists!IsLast
  <2>5. Cardinality(1..Len(doc)) = Len(doc)
    <3> DEFINE n == Len(doc)
    <3>1. n \in Nat
      BY <2>2
    <3> HIDE DEF n
    <3>2. Cardinality(1..n) = n
      BY <3>1, FS_Interval
    <3> QED BY <3>2 DEF n
  <2>6. EpisodesByFeed = Lists!ListOf(pf)
    BY ServedIsListed DEF Latest
  <2>7. DOMAIN Lists!ListOf(pf) = 1..Cardinality(T)
    BY SameOrdering DEF Lists!ListOf, Picked
  <2>8. EpisodesByFeed = [n \in 1..Cardinality(Served) |-> EpisodesByFeed[n]]
    BY DEF EpisodesByFeed, InOrder
  <2> HIDE DEF doc, pf, T
  <2>9. DOMAIN EpisodesByFeed = 1..Len(doc)
    BY <2>4, <2>5, <2>6, <2>7
  <2>10. EpisodesByFeed = [n \in 1..Len(doc) |-> EpisodesByFeed[n]]
    BY <2>8, <2>9
  <2>11. Len([n \in 1..Len(doc) |-> EpisodesByFeed[n]]) = Len(doc)
    BY <2>2
  <2> QED BY <2>10, <2>11 DEF doc
<1> QED
  BY <1>1, TypeInvariant, SeenInvariant, HistoryInvariant, PTL
=============================================================================
