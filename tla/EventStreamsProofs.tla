------------------------- MODULE EventStreamsProofs -------------------------
(***************************************************************************)
(* Theorems about the event streams, for any number of writers, rows,      *)
(* pages and connections: the type invariant, which rows a chain of        *)
(* resumed connections may skip, and which it may send twice.              *)
(***************************************************************************)
EXTENDS EventStreams, FiniteSetTheorems, WellFoundedInduction, TLAPS

\* No two rows have the same id.  That is all the invariant says about ids.
IdsDistinct ==
    \A r \in RowIds, s \in RowIds : rows[r].id = rows[s].id => r = s

\* A connected stream continues behind the last row the client has.
CursorFollows == stream.at \in {"poll", "send"} => stream.cursor = LastSent

\* A row that is committed or may still be.
Alive(r) == rows[r].state # "undone"

\* What SkippedOnlyIfOvertaken says, of the rows still to be committed too.
BehindIsExplained ==
    \A r \in RowIds : /\ Alive(r) /\ r \notin Received
                      /\ received # <<>> /\ rows[r].id < LastSent
        => r \in overtaken \/ Disordered(r)

\* The same of what will be behind once a row of the page is sent.
PagePassesExplained ==
    \A s \in stream.page : \A r \in RowIds :
        /\ Alive(r) /\ r \notin Received /\ r \notin stream.page
        /\ r < s /\ rows[r].id < rows[s].id
        => r \in overtaken \/ Disordered(r)

\* A row the client has, but whose id is ahead of the cursor again.
AheadIsExplained ==
    received # <<>> => \A s \in Received : rows[s].id > LastSent => Overtook(s)

\* The same of the rows that a row of the page would bring back.
PageReturnsExplained ==
    \A m \in stream.page, s \in Received :
        s >= m /\ rows[s].id >= rows[m].id => Overtook(s)

Inv ==
    /\ TypeOK
    /\ IdsDistinct
    /\ CursorFollows
    /\ BehindIsExplained
    /\ PagePassesExplained
    /\ AheadIsExplained
    /\ PageReturnsExplained
    /\ SentTwiceOnlyIfDisordered

-----------------------------------------------------------------------------
(* Numbers, pages and ids. *)

\* The rows of a page can be sent in order: a non-empty set of numbers has a
\* least element.
LEMMA MinIsLeast ==
    ASSUME NEW S \in SUBSET Nat, S # {}
    PROVE  Min(S) \in S /\ \A y \in S : Min(S) <= y
<1>1. PICK x \in S : \A y \in S : ~(<<y, x>> \in OpToRel(<, Nat))
  BY WFMin, NatLessThanWellFounded, Zenon
<1>2. \A y \in S : ~(y < x)
  BY <1>1, Zenon DEF OpToRel
<1>3. \A y \in S : x <= y
  BY <1>2
<1>4. QED
  BY <1>3 DEF Min

\* A bounded non-empty set of numbers has a greatest element.
LEMMA HasGreatest ==
    ASSUME NEW n \in Nat, NEW S \in SUBSET (0..n), S # {}
    PROVE  \E x \in S : \A y \in S : y <= x
<1> DEFINE T == {k \in Nat : k <= n /\ n - k \in S}
<1>1. PICK s \in S : TRUE
  OBVIOUS
<1>2. n - s \in T
  BY <1>1
<1>3. Min(T) \in T /\ \A y \in T : Min(T) <= y
  BY <1>2, MinIsLeast
<1>4. \A y \in S : n - y \in T
  OBVIOUS
<1>5. \A y \in S : y <= n - Min(T)
  BY <1>3, <1>4
<1>6. QED
  BY <1>3, <1>5

\* A poll selects committed rows behind the cursor, every one that is earlier
\* than a selected one among them, and at most PageSize of them.
LEMMA PageOfPoll ==
    ASSUME TypeOK, NEW c \in Nat
    PROVE  /\ NextPage(c) \in SUBSET After(c)
           /\ After(c) \in SUBSET RowIds
           /\ \A s \in NextPage(c), r \in After(c) : r < s => r \in NextPage(c)
           /\ Cardinality(NextPage(c)) <= PageSize
<1> DEFINE A == After(c)
           P == NextPage(c)
           Below(r) == {t \in A : t < r}
<1>1. /\ Len(rows) \in Nat /\ A \in SUBSET RowIds /\ RowIds \in SUBSET (0..Len(rows))
      /\ \A r \in A : r \in Nat
  BY DEF TypeOK, After, RowIds
<1>2. IsFiniteSet(A) /\ \A r \in A : IsFiniteSet(Below(r))
  <2>1. IsFiniteSet(RowIds)
    BY <1>1, FS_Interval DEF RowIds
  <2>2. \A r \in A : Below(r) \in SUBSET RowIds
    BY <1>1
  <2>3. QED
    BY <1>1, <2>1, <2>2, FS_Subset, Zenon
<1>3. P = {r \in A : Cardinality(Below(r)) < PageSize}
  BY DEF NextPage
<1>4. P \in SUBSET A
  BY <1>3
<1>5. ASSUME NEW s \in P, NEW r \in A, r < s
      PROVE  r \in P
  <2>1. r \in Nat /\ s \in Nat /\ \A t \in A : t \in Nat
    BY <1>1, <1>4
  <2>2. Below(r) \in SUBSET Below(s)
    <3>1. \A t \in A : t < r => t < s
      BY <1>5, <2>1
    <3>2. QED
      BY <3>1
  <2>3. Cardinality(Below(r)) <= Cardinality(Below(s))
    BY <1>2, <1>4, <2>2, FS_Subset
  <2>4. Cardinality(Below(r)) \in Nat /\ Cardinality(Below(s)) \in Nat
    BY <1>2, <1>4, FS_CardinalityType
  <2>5. QED
    BY <1>3, <2>3, <2>4, StreamsAssumption
<1>6. Cardinality(P) <= PageSize
  <2>1. CASE P = {}
    BY <2>1, FS_EmptySet, StreamsAssumption
  <2>2. CASE P # {}
    <3>1. P \in SUBSET (0..Len(rows))
      BY <1>1, <1>4
    <3>2. PICK m \in P : \A y \in P : y <= m
      BY <1>1, <2>2, <3>1, HasGreatest
    <3>3. P \in SUBSET (Below(m) \cup {m})
      BY <1>1, <1>4, <3>2
    <3>4. m \in A /\ m \notin Below(m) /\ Cardinality(Below(m)) < PageSize
      BY <1>1, <1>3, <1>4
    <3>5. /\ IsFiniteSet(Below(m) \cup {m})
          /\ Cardinality(Below(m) \cup {m}) = Cardinality(Below(m)) + 1
      BY <1>2, <3>4, FS_AddElement
    <3>6. Cardinality(P) <= Cardinality(Below(m) \cup {m})
      BY <3>3, <3>5, FS_Subset
    <3>7. Cardinality(Below(m)) \in Nat
      BY <1>2, <3>4, FS_CardinalityType
    <3>8. IsFiniteSet(P) /\ Cardinality(P) \in Nat
      BY <3>3, <3>5, FS_Subset, FS_CardinalityType
    <3>9. QED
      BY <3>4, <3>5, <3>6, <3>7, <3>8, StreamsAssumption
  <2>3. QED
    BY <2>1, <2>2
<1>7. QED
  BY <1>1, <1>4, <1>5, <1>6

-----------------------------------------------------------------------------
(* Writers. *)

\* What a writer's step leaves as it was: the rows there were keep their ids,
\* and a row that was rolled back stays so.
RowsKept ==
    /\ Len(rows) <= Len(rows')
    /\ \A r \in RowIds : /\ rows'[r].id = rows[r].id
                         /\ rows[r].state = "undone" => rows'[r].state = "undone"

Apart == <<table, run, stream, received, overtaken, connects>>

\* A new row has the next number and an id of its own.
LEMMA EmitRows ==
    ASSUME Inv, NEW w \in Writers, Emit(w)
    PROVE  TypeOK' /\ IdsDistinct' /\ RowsKept
<1>1. PICK id \in NewIds(w) : rows' = Append(rows, [id |-> id, writer |-> w,
                                state |-> IF table = "events" THEN "open" ELSE "seen"])
  BY DEF Emit
<1> DEFINE n == Len(rows) + 1
           row == [id |-> id, writer |-> w,
                   state |-> IF table = "events" THEN "open" ELSE "seen"]
<1>2. Len(rows) \in Nat
  BY DEF Inv, TypeOK
<1>3. id \in 1..MaxRows /\ \A r \in RowIds : rows[r].id # id
  BY DEF NewIds
<1>4. row \in RowType
  BY <1>3 DEF RowType
<1>5. /\ rows' \in Seq(RowType)
      /\ Len(rows') = n
      /\ \A r \in RowIds : rows'[r] = rows[r]
      /\ rows'[n] = row
  BY <1>1, <1>4 DEF Inv, TypeOK, RowIds
<1>6. TypeOK'
  <2>1. RowIds \subseteq RowIds'
    BY <1>2, <1>5 DEF RowIds
  <2>2. UNCHANGED Apart
    BY DEF Emit, Apart
  <2>3. stream' \in StreamType'
    BY <2>1, <2>2 DEF Inv, TypeOK, StreamType, Apart
  <2>4. received' \in Seq(RowIds')
    BY <2>1, <2>2 DEF Inv, TypeOK, Apart
  <2>5. QED
    BY <1>5, <2>1, <2>2, <2>3, <2>4 DEF Inv, TypeOK, Apart
<1>7. IdsDistinct'
  <2>1. \A r \in RowIds' : r \in RowIds \/ r = n
    BY <1>2, <1>5 DEF RowIds
  <2>2. \A r \in RowIds : rows'[r].id = rows[r].id
    BY <1>5
  <2>3. rows'[n].id = id
    BY <1>5
  <2>4. QED
    BY <1>3, <2>1, <2>2, <2>3 DEF Inv, IdsDistinct
<1>8. RowsKept
  BY <1>2, <1>5 DEF RowsKept
<1>9. QED
  BY <1>6, <1>7, <1>8

\* The end of a transaction changes the state of its rows only.
LEMMA EndTransactionRows ==
    ASSUME Inv, NEW w \in Writers, NEW state \in {"seen", "undone"},
           EndTransaction(w, state)
    PROVE  TypeOK' /\ IdsDistinct' /\ RowsKept
<1>1. rows' = [r \in RowIds |-> IF r \in Open(w) THEN [rows[r] EXCEPT !.state = state]
                                                ELSE rows[r]]
  BY DEF EndTransaction
<1>2. Len(rows) \in Nat /\ RowIds = 1..Len(rows) /\ \A r \in RowIds : rows[r] \in RowType
  <2>1. rows \in Seq(RowType)
    BY DEF Inv, TypeOK
  <2>2. QED
    BY <2>1 DEF RowIds
<1>3. \A r \in RowIds : /\ rows'[r] \in RowType /\ rows'[r].id = rows[r].id
                        /\ rows[r].state = "undone" => rows'[r].state = "undone"
  BY <1>1, <1>2 DEF Open, RowType
<1>4. rows' \in Seq(RowType) /\ Len(rows') = Len(rows)
  BY <1>1, <1>2, <1>3
<1>5. TypeOK'
  BY <1>4 DEF Inv, TypeOK, StreamType, EndTransaction, RowIds
<1>6. QED
  BY <1>2, <1>3, <1>4, <1>5 DEF Inv, IdsDistinct, RowIds, RowsKept

\* What the client has are rows, and LastSent is the id of the last of them.
LEMMA ReceivedRows ==
    ASSUME TypeOK
    PROVE  /\ Received \subseteq RowIds
           /\ received # <<>> => /\ Len(received) \in DOMAIN received
                                 /\ Last(received) = received[Len(received)]
                                 /\ Last(received) \in Received
                                 /\ LastSent = rows[Last(received)].id
           /\ received = <<>> => Received = {} /\ LastSent = 0
BY DEF TypeOK, Received, Range, Last, LastSent

\* Ids are positive.
LEMMA RowFacts ==
    ASSUME TypeOK
    PROVE  \A r \in RowIds : /\ rows[r].id \in 1..MaxRows /\ rows[r].id \in Nat
                             /\ rows[r].id > 0
                             /\ rows[r].state \in {"open", "seen", "undone"}
<1> SUFFICES ASSUME NEW r \in RowIds
             PROVE  /\ rows[r].id \in 1..MaxRows /\ rows[r].id \in Nat /\ rows[r].id > 0
                    /\ rows[r].state \in {"open", "seen", "undone"}
  OBVIOUS
<1>1. rows[r] \in RowType
  BY DEF TypeOK, RowIds
<1>2. rows[r].id \in 1..MaxRows /\ rows[r].state \in {"open", "seen", "undone"}
  BY <1>1 DEF RowType
<1>3. QED
  BY <1>2, StreamsAssumption

\* Writers disturb nothing of what is known about the rows that were sent: a
\* new row is behind the cursor only if its id is smaller than an earlier one's.
LEMMA WritersPreserveInv ==
    ASSUME Inv, TypeOK', IdsDistinct', RowsKept, UNCHANGED Apart
    PROVE  Inv'
<1>1. /\ Len(rows) \in Nat /\ Len(rows') \in Nat
      /\ RowIds = 1..Len(rows) /\ RowIds' = 1..Len(rows') /\ RowIds \subseteq RowIds'
  BY DEF Inv, TypeOK, RowsKept, RowIds
<1>2. \A r \in RowIds : rows'[r].id = rows[r].id /\ (Alive(r)' => Alive(r))
  BY DEF RowsKept, Alive
<1>3. Received' = Received /\ Received \subseteq RowIds
  BY ReceivedRows DEF Apart, Received, Inv
<1>4. \A r \in RowIds : (Disordered(r) => Disordered(r)') /\ (Overtook(r) => Overtook(r)')
  BY <1>2, <1>3 DEF Disordered, Overtook
<1>5. /\ stream' = stream /\ received' = received /\ overtaken' = overtaken
      /\ Received' = Received /\ Received \subseteq RowIds
      /\ stream.page \subseteq RowIds
  BY ReceivedRows DEF Apart, Received, Inv, TypeOK, StreamType
<1>6. received # <<>> => /\ Last(received) \in Received
                        /\ LastSent = rows[Last(received)].id
                        /\ LastSent' = LastSent
  BY <1>2, <1>5, ReceivedRows DEF Inv, LastSent
<1>7. LastSent' = LastSent
  BY <1>5, <1>6 DEF LastSent
<1>9. CursorFollows'
  BY <1>5, <1>7 DEF Inv, CursorFollows
<1>10. BehindIsExplained'
  <2> SUFFICES ASSUME NEW r \in RowIds', Alive(r)', r \notin Received',
                      received' # <<>>, rows'[r].id < LastSent'
               PROVE  r \in overtaken' \/ Disordered(r)'
    BY DEF BehindIsExplained
  <2>1. CASE r \in RowIds
    BY <1>2, <1>4, <1>5, <1>7, <2>1 DEF Inv, BehindIsExplained
  <2>2. CASE r \notin RowIds
    <3>1. /\ Last(received) \in RowIds /\ Last(received) \in Received'
          /\ LastSent' = rows'[Last(received)].id
      BY <1>2, <1>3, <1>5, <1>6
    <3>2. Last(received) < r
      BY <1>1, <2>2, <3>1
    <3>3. QED
      BY <3>1, <3>2 DEF Disordered
  <2>3. QED
    BY <2>1, <2>2
<1>11. PagePassesExplained'
  <2> SUFFICES ASSUME NEW s \in stream'.page, NEW r \in RowIds',
                      Alive(r)', r \notin Received', r \notin stream'.page,
                      r < s, rows'[r].id < rows'[s].id
               PROVE  r \in overtaken' \/ Disordered(r)'
    BY DEF PagePassesExplained
  <2>1. r \in RowIds /\ s \in RowIds
    BY <1>1, <1>5
  <2>2. QED
    BY <1>2, <1>4, <1>5, <2>1 DEF Inv, PagePassesExplained
<1>12. AheadIsExplained'
  BY <1>2, <1>4, <1>5, <1>7 DEF Inv, AheadIsExplained
<1>13. PageReturnsExplained'
  BY <1>2, <1>4, <1>5 DEF Inv, PageReturnsExplained
<1>14. SentTwiceOnlyIfDisordered'
  <2>1. \A i \in DOMAIN received : received[i] \in RowIds
    BY DEF Inv, TypeOK
  <2>2. QED
    BY <1>4, <1>5, <2>1 DEF Inv, SentTwiceOnlyIfDisordered
<1>15. QED
  BY <1>9, <1>10, <1>11, <1>12, <1>13, <1>14 DEF Inv

-----------------------------------------------------------------------------
(* The stream. *)

\* The parts of the invariant that look at the rows keep their meaning as long
\* as no row changes.
LEMMA SameRows ==
    ASSUME UNCHANGED rows
    PROVE  /\ RowIds' = RowIds
           /\ \A r : Alive(r)' <=> Alive(r)
           /\ IdsDistinct => IdsDistinct'
BY DEF RowIds, Alive, IdsDistinct

\* So do the orders between a row and those the client has.
LEMMA SameOrder ==
    ASSUME UNCHANGED <<rows, received>>
    PROVE  \A r : (Disordered(r)' <=> Disordered(r)) /\ (Overtook(r)' <=> Overtook(r))
BY DEF Received, Disordered, Overtook

\* With nothing on the page the parts about pages hold.
LEMMA EmptyPage ==
    ASSUME stream.page = {}
    PROVE  PagePassesExplained /\ PageReturnsExplained
BY DEF PagePassesExplained, PageReturnsExplained

\* A stream that is off, or at a page's end, and what the run's status does to
\* it: the client and the rows stay as they are.
LEMMA PausePreservesInv ==
    ASSUME Inv, TypeOK', UNCHANGED <<rows, received, overtaken>>, stream'.page = {},
           stream'.at \in {"poll", "send"} => stream'.cursor = LastSent
    PROVE  Inv'
<1>1. LastSent' = LastSent /\ Received' = Received
  BY DEF LastSent, Received
<1>2. IdsDistinct' /\ CursorFollows'
  BY <1>1, SameRows DEF Inv, CursorFollows
<1>3. BehindIsExplained' /\ AheadIsExplained' /\ SentTwiceOnlyIfDisordered'
  BY <1>1, SameRows, SameOrder
     DEF Inv, BehindIsExplained, AheadIsExplained, SentTwiceOnlyIfDisordered
<1>4. PagePassesExplained' /\ PageReturnsExplained'
  BY DEF PagePassesExplained, PageReturnsExplained
<1>5. QED
  BY <1>2, <1>3, <1>4 DEF Inv

\* A client that starts again knows nothing; one that resumes goes on behind
\* the last row it has.
LEMMA ConnectPreservesInv ==
    ASSUME Inv, NEW cursor \in {0, LastSent}, Connect(cursor)
    PROVE  Inv'
<1>1. LastSent \in 0..MaxRows
  BY ReceivedRows, RowFacts, StreamsAssumption DEF Inv
<1>2. stream' = [at |-> "poll", cursor |-> cursor, page |-> {}, known |-> "unread"]
  BY DEF Connect, Off
<1>3. TypeOK'
  <2>1. stream' \in StreamType' /\ Cardinality(stream'.page) <= PageSize
    BY <1>1, <1>2, FS_EmptySet, StreamsAssumption DEF StreamType
  <2>2. received' \in Seq(RowIds') /\ overtaken' \subseteq RowIds'
    <3>1. RowIds' = RowIds /\ received \in Seq(RowIds) /\ overtaken \subseteq RowIds
      BY DEF Connect, Inv, TypeOK, RowIds
    <3>2. <<>> \in Seq(RowIds) /\ {} \subseteq RowIds
      OBVIOUS
    <3>3. /\ received' = received \/ received' = <<>>
          /\ overtaken' = overtaken \/ overtaken' = {}
      BY DEF Connect
    <3>4. QED
      BY <3>1, <3>2, <3>3
  <2>3. QED
    BY <2>1, <2>2, StreamsAssumption DEF Inv, TypeOK, Connect
<1>4. CASE cursor # 0
  <2>1. cursor = LastSent /\ UNCHANGED <<rows, received, overtaken>>
    BY <1>4 DEF Connect
  <2>2. QED
    BY <1>2, <1>3, <2>1, PausePreservesInv
<1>5. CASE cursor = 0
  <2>1. received' = <<>> /\ Received' = {} /\ LastSent' = 0 /\ UNCHANGED rows
    BY <1>5 DEF Connect, Received, Range, LastSent
  <2>2. CursorFollows' /\ BehindIsExplained' /\ AheadIsExplained'
        /\ SentTwiceOnlyIfDisordered'
    BY <1>2, <1>5, <2>1
       DEF CursorFollows, BehindIsExplained, AheadIsExplained, SentTwiceOnlyIfDisordered
  <2>3. PagePassesExplained' /\ PageReturnsExplained'
    BY <1>2 DEF PagePassesExplained, PageReturnsExplained
  <2>4. QED
    BY <1>3, <2>1, <2>2, <2>3, SameRows DEF Inv
<1>6. QED
  BY <1>4, <1>5

\* What is not selected by a poll although its id is smaller than that of a
\* selected row was behind the cursor before, is not committed yet, or is of a
\* later time.
LEMMA PollPreservesInv ==
    ASSUME Inv, Poll
    PROVE  Inv'
<1> DEFINE page == NextPage(stream.cursor)
<1>1. /\ stream.at = "poll" /\ stream.cursor = LastSent /\ stream.cursor \in Nat
      /\ stream' = [stream EXCEPT !.at = "send", !.page = page]
      /\ UNCHANGED <<table, rows, run, received, connects>>
  BY DEF Poll, Inv, CursorFollows, TypeOK, StreamType
<1>2. /\ page \in SUBSET After(LastSent) /\ After(LastSent) \in SUBSET RowIds
      /\ \A s \in page, r \in After(LastSent) : r < s => r \in page
      /\ Cardinality(page) <= PageSize
  BY <1>1, PageOfPoll DEF Inv
<1>3. overtaken' = overtaken \cup {r \in RowIds : rows[r].state = "open" /\
                                      \E s \in page : rows[s].id > rows[r].id}
  BY DEF Poll
<1>4. /\ stream'.page = page /\ stream'.at = "send" /\ stream'.cursor = LastSent
      /\ stream' \in StreamType
  BY <1>1, <1>2 DEF Inv, TypeOK, StreamType
<1>5. LastSent' = LastSent /\ Received' = Received /\ received' = received
  BY <1>1 DEF LastSent, Received
<1>6. TypeOK'
  <2>1. RowIds' = RowIds /\ StreamType' = StreamType
    BY <1>1 DEF RowIds, StreamType
  <2>2. QED
    BY <1>1, <1>2, <1>3, <1>4, <2>1 DEF Inv, TypeOK
<1>7. IdsDistinct' /\ CursorFollows'
  BY <1>1, <1>4, <1>5, SameRows DEF Inv, CursorFollows
<1>8. BehindIsExplained' /\ AheadIsExplained' /\ SentTwiceOnlyIfDisordered'
  BY <1>1, <1>3, <1>5, SameRows, SameOrder
     DEF Inv, BehindIsExplained, AheadIsExplained, SentTwiceOnlyIfDisordered
<1>9. \A r \in RowIds : rows[r].id \in Nat /\ rows[r].id > 0
                        /\ rows[r].state \in {"open", "seen", "undone"}
  BY RowFacts DEF Inv
<1>10. ASSUME NEW s \in page, NEW r \in RowIds, Alive(r), r \notin Received,
              r \notin page, r < s, rows[r].id < rows[s].id
       PROVE  r \in overtaken' \/ Disordered(r)
  <2>1. CASE rows[r].state = "open"
    BY <1>3, <1>9, <1>10, <2>1
  <2>2. CASE rows[r].state = "seen"
    <3>1. r \notin After(LastSent)
      BY <1>2, <1>10
    <3>2. rows[r].id <= LastSent
      BY <1>1, <1>9, <2>2, <3>1 DEF After
    <3>3. received # <<>> /\ Last(received) \in RowIds /\ Last(received) \in Received
          /\ LastSent = rows[Last(received)].id
      BY <1>9, <3>2, ReceivedRows DEF Inv
    <3>4. rows[r].id # LastSent
      BY <1>10, <3>3 DEF Inv, IdsDistinct
    <3>5. rows[r].id < LastSent
      BY <1>1, <1>9, <3>2, <3>4
    <3>6. QED
      BY <1>3, <1>10, <3>3, <3>5 DEF Inv, BehindIsExplained
  <2>3. QED
    BY <1>9, <1>10, <2>1, <2>2 DEF Alive
<1>11. PagePassesExplained'
  BY <1>1, <1>4, <1>5, <1>10, SameRows, SameOrder DEF PagePassesExplained
<1>12. ASSUME NEW m \in page, NEW s \in Received, s >= m, rows[s].id >= rows[m].id
       PROVE  Overtook(s)
  <2>1. received # <<>> /\ s \in RowIds /\ m \in RowIds /\ rows[m].id > LastSent
    BY <1>2, ReceivedRows DEF Inv, After
  <2>2. rows[s].id > LastSent
    BY <1>1, <1>9, <1>12, <2>1
  <2>3. QED
    BY <2>1, <2>2 DEF Inv, AheadIsExplained
<1>13. PageReturnsExplained'
  BY <1>1, <1>4, <1>5, <1>12, SameRows, SameOrder DEF PageReturnsExplained
<1>14. QED
  BY <1>6, <1>7, <1>8, <1>11, <1>13 DEF Inv

\* Sending the earliest row of the page leaves behind only what the page had
\* accounted for, and brings ahead again only what it had accounted for.
LEMMA SendPreservesInv ==
    ASSUME Inv, Send
    PROVE  Inv'
<1> DEFINE m == Min(stream.page)
<1>1. /\ stream.page # {} /\ stream.page \in SUBSET RowIds
      /\ stream' = [stream EXCEPT !.page = @ \ {m}, !.cursor = rows[m].id]
      /\ received' = Append(received, m)
      /\ UNCHANGED <<table, rows, run, overtaken, connects>>
  BY DEF Send, Inv, TypeOK, StreamType
<1>2. RowIds \in SUBSET Nat
  BY DEF RowIds, Inv, TypeOK
<1>3. stream.page \in SUBSET Nat
  BY <1>1, <1>2
<1>4. m \in stream.page /\ m \in RowIds /\ m \in Nat /\ \A y \in stream.page : m <= y
  BY <1>1, <1>2, <1>3, MinIsLeast
<1>5. \A r \in RowIds : r \in Nat /\ rows[r].id \in Nat /\ rows[r].id \in 0..MaxRows
  <2>1. \A r \in RowIds : rows[r].id \in 1..MaxRows /\ rows[r].id \in Nat
    BY RowFacts DEF Inv
  <2>2. 1..MaxRows \subseteq 0..MaxRows
    BY StreamsAssumption
  <2>3. QED
    BY <1>2, <2>1, <2>2
<1>6. /\ stream'.page = stream.page \ {m} /\ stream'.cursor = rows[m].id
      /\ stream' \in StreamType
  BY <1>1, <1>4, <1>5 DEF Inv, TypeOK, StreamType
<1>7. received \in Seq(RowIds) /\ received' \in Seq(RowIds) /\ received' # <<>>
      /\ Len(received') = Len(received) + 1 /\ received'[Len(received) + 1] = m
      /\ \A i \in DOMAIN received : received'[i] = received[i]
  BY <1>1, <1>4 DEF Inv, TypeOK
<1>8. Received' = Received \cup {m} /\ Received \subseteq RowIds
  BY <1>7, ReceivedRows DEF Received, Range, Inv
<1>9. LastSent' = rows[m].id
  BY <1>1, <1>7 DEF LastSent, Last
<1>10. RowIds' = RowIds /\ StreamType' = StreamType
  BY <1>1 DEF RowIds, StreamType
<1>11. TypeOK'
  <2>1. IsFiniteSet(stream.page)
    <3>1. IsFiniteSet(RowIds)
      BY FS_Interval DEF RowIds, Inv, TypeOK
    <3>2. QED
      BY <1>1, <3>1, FS_Subset
  <2>2. /\ Cardinality(stream.page) \in Nat
        /\ Cardinality(stream.page \ {m}) = Cardinality(stream.page) - 1
    BY <1>4, <2>1, FS_RemoveElement, FS_CardinalityType
  <2>3. Cardinality(stream'.page) <= PageSize
    BY <1>6, <2>2, StreamsAssumption DEF Inv, TypeOK
  <2>4. QED
    BY <1>1, <1>6, <1>7, <1>10, <2>3 DEF Inv, TypeOK
<1>12. IdsDistinct' /\ CursorFollows'
  BY <1>1, <1>6, <1>9, SameRows DEF Inv, CursorFollows
<1>13. \A r : (Disordered(r) => Disordered(r)') /\ (Overtook(r) => Overtook(r)')
  BY <1>1, <1>8 DEF Disordered, Overtook
<1>14. BehindIsExplained'
  <2> SUFFICES ASSUME NEW r \in RowIds, Alive(r), r \notin Received', rows[r].id < rows[m].id
               PROVE  r \in overtaken \/ Disordered(r)'
    BY <1>1, <1>9, <1>10, SameRows DEF BehindIsExplained
  <2>1. CASE r < m
    BY <1>4, <1>5, <1>8, <1>13, <2>1 DEF Inv, PagePassesExplained
  <2>2. CASE m < r
    BY <1>1, <1>8, <2>2 DEF Disordered
  <2>3. QED
    BY <1>4, <1>5, <1>8, <2>1, <2>2
<1>15. PagePassesExplained'
  BY <1>1, <1>6, <1>8, <1>10, <1>13, SameRows DEF Inv, PagePassesExplained
<1>16. ASSUME NEW s \in Received', rows[s].id > rows[m].id
       PROVE  Overtook(s)'
  <2>1. s # m /\ s \in RowIds /\ s \in Received
    BY <1>4, <1>5, <1>8, <1>16
  <2>2. CASE s < m
    BY <1>1, <1>4, <1>5, <1>8, <1>16, <2>1, <2>2 DEF Overtook
  <2>3. CASE m < s
    BY <1>4, <1>5, <1>13, <1>16, <2>1, <2>3 DEF Inv, PageReturnsExplained
  <2>4. QED
    BY <1>4, <1>5, <2>1, <2>2, <2>3
<1>17. AheadIsExplained'
  BY <1>1, <1>9, <1>16, SameRows DEF AheadIsExplained
<1>18. PageReturnsExplained'
  <2> SUFFICES ASSUME NEW k \in stream'.page, NEW s \in Received',
                      s >= k, rows[s].id >= rows[k].id
               PROVE  Overtook(s)'
    BY <1>1, SameRows DEF PageReturnsExplained
  <2>1. k \in stream.page /\ k \in RowIds /\ m < k
    BY <1>1, <1>4, <1>5, <1>6
  <2>2. s # m /\ s \in Received
    BY <1>4, <1>5, <1>8, <2>1
  <2>3. QED
    BY <1>13, <2>1, <2>2 DEF Inv, PageReturnsExplained
<1>19. SentTwiceOnlyIfDisordered'
  <2> DEFINE MovedBehind(r) == \E q \in Received' : r < q /\ rows[q].id < rows[r].id
  <2> SUFFICES ASSUME NEW i \in DOMAIN received', NEW k \in DOMAIN received',
                      i < k, received'[i] = received'[k]
               PROVE  MovedBehind(received'[k])
    BY <1>1 DEF SentTwiceOnlyIfDisordered, Overtook
  <2>0. \A r : Overtook(r) => MovedBehind(r)
    BY <1>8 DEF Overtook
  <2> HIDE DEF MovedBehind
  <2>1. /\ DOMAIN received = 1..Len(received) /\ DOMAIN received' = 1..(Len(received) + 1)
        /\ Len(received) \in Nat
    BY <1>7
  <2>2. CASE k \in DOMAIN received
    <3>1. i \in DOMAIN received
      BY <2>1, <2>2
    <3>2. QED
      BY <1>7, <2>0, <2>2, <3>1 DEF Inv, SentTwiceOnlyIfDisordered
  <2>3. CASE k \notin DOMAIN received
    <3>1. i \in DOMAIN received /\ received'[k] = m
      BY <1>7, <2>1, <2>3
    <3>2. m \in Received
      BY <1>7, <3>1 DEF Received, Range
    <3>3. Overtook(m)
      BY <1>4, <1>5, <3>2 DEF Inv, PageReturnsExplained
    <3>4. QED
      BY <2>0, <3>1, <3>3
  <2>4. QED
    BY <2>2, <2>3
<1>20. QED
  BY <1>11, <1>12, <1>14, <1>15, <1>17, <1>18, <1>19 DEF Inv

-----------------------------------------------------------------------------
(* The theorems. *)

\* The invariant holds at the start.
LEMMA InitEstablishesInv == Init => Inv
<1> SUFFICES ASSUME Init
             PROVE  Inv
  OBVIOUS
<1>1. rows = <<>> /\ received = <<>> /\ RowIds = {} /\ Received = {} /\ LastSent = 0
  BY DEF Init, RowIds, Received, Range, LastSent
<1>2. stream = [at |-> "off", cursor |-> 0, page |-> {}, known |-> "unread"]
  BY DEF Init, Off
<1>3. TypeOK
  <2>1. rows \in Seq(RowType) /\ received \in Seq(RowIds)
    BY <1>1
  <2>2. stream \in StreamType /\ Cardinality(stream.page) <= PageSize
    BY <1>2, FS_EmptySet, StreamsAssumption DEF StreamType
  <2>3. QED
    BY <2>1, <2>2, StreamsAssumption DEF Init, TypeOK
<1>4. PagePassesExplained /\ PageReturnsExplained
  BY <1>2, EmptyPage
<1>5. QED
  BY <1>1, <1>2, <1>3, <1>4
     DEF Inv, IdsDistinct, CursorFollows, BehindIsExplained, AheadIsExplained,
         SentTwiceOnlyIfDisordered

\* Every step preserves the invariant.
LEMMA NextPreservesInv == Inv /\ [Next]_vars => Inv'
<1> SUFFICES ASSUME Inv, [Next]_vars
             PROVE  Inv'
  OBVIOUS
<1>1. ASSUME NEW w \in Writers, Emit(w)
      PROVE  Inv'
  <2>1. UNCHANGED Apart
    BY <1>1 DEF Emit, Apart
  <2>2. QED
    BY <1>1, <2>1, EmitRows, WritersPreserveInv
<1>2. ASSUME NEW w \in Writers, NEW state \in {"seen", "undone"}, EndTransaction(w, state)
      PROVE  Inv'
  <2>1. UNCHANGED Apart
    BY <1>2 DEF EndTransaction, Apart
  <2>2. QED
    BY <1>2, <2>1, EndTransactionRows, WritersPreserveInv
<1>3. CASE RunEnds
  <2>1. TypeOK' /\ IdsDistinct' /\ UNCHANGED <<rows, stream, received, overtaken>>
    BY <1>3, SameRows DEF RunEnds, Inv, TypeOK, StreamType, RowIds
  <2>2. LastSent' = LastSent /\ Received' = Received /\ RowIds' = RowIds
    BY <2>1 DEF LastSent, Received, RowIds
  <2>3. QED
    BY <2>1, <2>2, SameRows, SameOrder
       DEF Inv, CursorFollows, BehindIsExplained, PagePassesExplained, AheadIsExplained,
           PageReturnsExplained, SentTwiceOnlyIfDisordered
<1>4. CASE Disconnect
  <2>1. stream' = [at |-> "off", cursor |-> 0, page |-> {}, known |-> "unread"]
    BY <1>4 DEF Disconnect, Off
  <2>2. UNCHANGED <<table, rows, run, received, overtaken, connects>>
    BY <1>4 DEF Disconnect
  <2>3. stream' \in StreamType' /\ Cardinality(stream'.page) <= PageSize
    BY <2>1, FS_EmptySet, StreamsAssumption DEF StreamType
  <2>4. TypeOK'
    BY <2>2, <2>3 DEF Inv, TypeOK, RowIds
  <2>5. QED
    BY <2>1, <2>2, <2>4, PausePreservesInv
<1>5. ASSUME EndOfTelemetryPage \/ EndOfEventPage
      PROVE  Inv'
  <2>1. /\ stream.at = "send" /\ stream.page = {} /\ stream.cursor = LastSent
        /\ UNCHANGED <<table, rows, run, received, overtaken, connects>>
        /\ stream' \in StreamType /\ stream'.page = {} /\ stream'.cursor = LastSent
    BY <1>5 DEF EndOfTelemetryPage, EndOfEventPage, Known, Inv, TypeOK, StreamType,
                CursorFollows
  <2>2. TypeOK'
    BY <2>1 DEF Inv, TypeOK, RowIds, StreamType
  <2>3. QED
    BY <2>1, <2>2, PausePreservesInv
<1>6. CASE UNCHANGED vars
  <2>1. TypeOK' /\ IdsDistinct' /\ UNCHANGED <<rows, stream, received, overtaken>>
    BY <1>6, SameRows DEF vars, Inv, TypeOK, StreamType, RowIds
  <2>2. LastSent' = LastSent /\ Received' = Received /\ RowIds' = RowIds
    BY <2>1 DEF LastSent, Received, RowIds
  <2>3. QED
    BY <2>1, <2>2, SameRows, SameOrder
       DEF Inv, CursorFollows, BehindIsExplained, PagePassesExplained, AheadIsExplained,
           PageReturnsExplained, SentTwiceOnlyIfDisordered
<1>7. QED
  BY <1>1, <1>2, <1>3, <1>4, <1>5, <1>6, ConnectPreservesInv, PollPreservesInv,
     SendPreservesInv
     DEF Next, StreamStep, CommitTransaction, RollbackTransaction

\* The inductive invariant of the streams.
THEOREM StreamsInvariant == Spec => []Inv
BY InitEstablishesInv, NextPreservesInv, PTL DEF Spec

\* Every variable keeps its type, and no page exceeds its limit
\* (events.py and experiment.py, the streams' polls).
THEOREM StreamsTypeOK == Spec => []TypeOK
<1>1. Inv => TypeOK
  BY DEF Inv
<1>2. QED
  BY <1>1, StreamsInvariant, PTL

\* However often a client loses its connection and resumes from its last id,
\* the streams skip a committed row only if it committed after a row with a
\* greater id was polled, or if its id is smaller than that of an earlier row
\* the client was sent (events.py and experiment.py, WHERE id > cursor ORDER BY
\* time).  Nothing is assumed of ids but that they are distinct.
THEOREM StreamsSkipOnlyOvertaken == Spec => []SkippedOnlyIfOvertaken
<1>1. Inv => SkippedOnlyIfOvertaken
  BY DEF Inv, BehindIsExplained, SkippedOnlyIfOvertaken, Alive
<1>2. QED
  BY <1>1, StreamsInvariant, PTL

\* They send a row twice only if the client was sent a later row with a smaller
\* id, which moved the cursor back.
THEOREM StreamsSendOnce == Spec => []SentTwiceOnlyIfDisordered
<1>1. Inv => SentTwiceOnlyIfDisordered
  BY DEF Inv
<1>2. QED
  BY <1>1, StreamsInvariant, PTL
=============================================================================
