-------------------------- MODULE UiSessionProofs --------------------------
(***************************************************************************)
(* Proofs about module UiSession, for any number of requests, any rows and *)
(* whatever the user does.                                                 *)
(*                                                                         *)
(* The argument: answers come in the order of the requests, so the tracked *)
(* request is the newest one, and while it is outstanding nothing else is  *)
(* sent for the rows that are shown.  What follows from it is kept in four *)
(* parts, of the tracker, the catalogue refresh, the ranking and the grid, *)
(* and every action is shown to keep each of them.                         *)
(***************************************************************************)
EXTENDS UiSession, SequenceTheorems, TLAPS

\* SingleFlight: what is served is the first request without an answer.
FlightOrder ==
    /\ submitted \in 0 .. MaxRequest
    /\ answers \in Seq(Answer)
    /\ Len(answers) <= submitted
    /\ serving = 0 \/ (serving = Len(answers) + 1 /\ serving <= submitted)

RequestsKept ==
    /\ requests \in Seq(RequestRecord)
    /\ Len(requests) = submitted
    /\ handled \in 0 .. Len(answers)

\* A refresh that is waited for is one, and no change of the catalogue is lost.
RefreshInv ==
    /\ refresh \in [pending : BOOLEAN, cooling : BOOLEAN, last : 0 .. submitted]
    /\ catalogue \in 0 .. submitted
    /\ refresh.last # NoRequest => requests[refresh.last].kind = "refresh"
    /\ RefreshNeverLost

\* A ranking ranks the rows of an answered request, the newest of the user.
RankingInv ==
    /\ ranking \in 0 .. submitted
    /\ rankings \in Seq(1 .. submitted)
    /\ ranking # NoRequest =>
          /\ ranking <= handled
          /\ \A r \in ranking + 1 .. submitted : requests[r].kind = "refresh"

\* The cursor is in the grid, and a session is on the focused row.
CursorInGrid ==
    /\ grid.rows # <<>> => grid.focus \in DOMAIN grid.rows
    /\ grid.session # 0 => grid.session = grid.focus /\ grid.session \in DOMAIN grid.rows

GridInv ==
    /\ grid \in [rows : Seq(Identity), origin : Origin, from : 0 .. submitted,
                 focus : Nat \ {0}, session : Nat, armed : Nat]
    /\ previewed \in Identity \union {NoRow}
    /\ pendingFocus \in Row \union {"none"}
    /\ CursorInGrid
    /\ DeleteConfirmsArmedRow

UiInv ==
    /\ FlightOrder
    /\ RequestsKept
    /\ TrackerTellsTruth
    /\ RefreshInv
    /\ RankingInv
    /\ GridInv
    /\ MutationsHitTheirRow

\* What was asked and answered so far stays.
Appended ==
    /\ submitted <= submitted'
    /\ Len(answers) <= Len(answers')
    /\ \A r \in 1 .. submitted : requests'[r] = requests[r]
    /\ \A r \in 1 .. Len(answers) : answers'[r] = answers[r]

-----------------------------------------------------------------------------
(* Requests and answers.                                                   *)

LEMMA Counts ==
  ASSUME UiInv
  PROVE  /\ submitted \in Nat /\ Len(answers) \in Nat /\ handled \in Nat
         /\ handled <= Len(answers) /\ Len(answers) <= submitted /\ submitted <= MaxRequest
         /\ MaxRequest \in Nat \ {0}
         /\ tracker = IF handled = submitted THEN 0 ELSE submitted
         /\ NoRequest = 0
         /\ requests \in Seq(RequestRecord) /\ Len(requests) = submitted
         /\ \A r \in 1 .. submitted : requests[r] \in RequestRecord
         /\ answers \in Seq(Answer)
  BY MaxRequestAssumption, LenProperties, ElementOfSeq
     DEF UiInv, FlightOrder, RequestsKept, TrackerTellsTruth, NoRequest

LEMMA SendAppends ==
  ASSUME UiInv, NEW kind \in Kind, NEW flagged \in BOOLEAN,
         NEW identity \in Identity \union {NoRow}, NEW index \in Nat,
         Send(kind, flagged, identity, index),
         handled' \in 0 .. Len(answers)
  PROVE  /\ FlightOrder' /\ RequestsKept' /\ TrackerTellsTruth' /\ Appended
         /\ submitted' = submitted + 1 /\ tracker' = submitted + 1
         /\ requests'[submitted + 1].kind = kind
         /\ requests'[submitted + 1].identity = identity
         /\ requests'[submitted + 1].index = index
         /\ UNCHANGED answers
<1> DEFINE record == [kind |-> kind, flagged |-> flagged, identity |-> identity, index |-> index]
<1>1. /\ submitted' = submitted + 1 /\ submitted < MaxRequest
      /\ UNCHANGED <<answers, serving>>
      /\ requests' = Append(requests, record) /\ tracker' = submitted + 1
  BY DEF Send, SubmitRequest
<1>2. record \in RequestRecord
  BY DEF RequestRecord
<1> HIDE DEF record
<1>3. /\ requests' \in Seq(RequestRecord) /\ Len(requests') = submitted + 1
      /\ \A r \in 1 .. submitted : requests'[r] = requests[r]
      /\ requests'[submitted + 1] = record
  BY <1>1, <1>2, Counts, AppendProperties
<1>4. FlightOrder'
  BY <1>1, Counts DEF UiInv, FlightOrder
<1>5. RequestsKept' /\ TrackerTellsTruth' /\ Appended
  BY <1>1, <1>3, Counts DEF RequestsKept, TrackerTellsTruth, Appended
<1>6. QED
  BY <1>1, <1>3, <1>4, <1>5 DEF record

LEMMA NothingAppended ==
  ASSUME UiInv, UNCHANGED <<flightVars, requests>>, handled' \in 0 .. Len(answers)
  PROVE  FlightOrder' /\ RequestsKept' /\ Appended
  BY Counts DEF UiInv, FlightOrder, RequestsKept, Appended, flightVars

LEMMA EngineAppends ==
  ASSUME UiInv, Engine
  PROVE  /\ FlightOrder' /\ RequestsKept' /\ TrackerTellsTruth' /\ Appended
         /\ UNCHANGED <<submitted, uiVars>>
<1>1. UNCHANGED uiVars
  BY DEF Engine
<1>2. UNCHANGED submitted
  BY DEF Engine, StartServing, Apply, AnswerServed
<1>3. CASE StartServing \/ \E r \in Request : Apply(r)
  BY <1>1, <1>2, <1>3, Counts
     DEF UiInv, StartServing, Apply, FlightOrder, RequestsKept, TrackerTellsTruth, Appended, uiVars
<1>4. CASE \E answer \in Answer : AnswerServed(answer)
  <2>1. PICK answer \in Answer : AnswerServed(answer)
    BY <1>4
  <2>2. /\ serving = Len(answers) + 1 /\ serving <= submitted
        /\ answers' = Append(answers, answer)
        /\ serving' \in {0, serving + 1} /\ serving' <= submitted
    BY <1>2, <2>1 DEF AnswerServed, UiInv, FlightOrder
  <2>3. /\ answers' \in Seq(Answer) /\ Len(answers') = Len(answers) + 1
        /\ \A r \in 1 .. Len(answers) : answers'[r] = answers[r]
    BY <2>2, Counts, AppendProperties
  <2>4. FlightOrder'
    BY <1>2, <2>2, <2>3, Counts DEF FlightOrder
  <2>5. RequestsKept' /\ TrackerTellsTruth' /\ Appended
    BY <1>1, <1>2, <2>3, Counts DEF RequestsKept, TrackerTellsTruth, Appended, uiVars
  <2>6. QED
    BY <1>1, <1>2, <2>4, <2>5
<1>5. QED
  BY <1>1, <1>2, <1>3, <1>4 DEF Engine

\* An answer that is handled is that of the newest request or of an older one.
LEMMA AnswerHandled ==
  ASSUME UiInv, handled < Len(answers)
  PROVE  /\ Coming \in 1 .. submitted
         /\ Coming \in 0 .. Len(answers) /\ Coming \in 1 .. Len(answers)
         /\ Coming = handled + 1 /\ Coming <= MaxRequest
         /\ tracker = submitted
         /\ Active => Coming = submitted /\ tracker = Coming
         /\ requests[Coming] \in RequestRecord
         /\ requests[Coming].kind \in Kind
         /\ requests[Coming].flagged \in BOOLEAN
  BY Counts DEF Coming, Active, RequestRecord

LEMMA TrackerEnds ==
  ASSUME UiInv, handled < Len(answers), Active, handled' = Coming, tracker' = NoRequest,
         UNCHANGED submitted
  PROVE  TrackerTellsTruth' /\ MutationsHitTheirRow'
  BY AnswerHandled DEF TrackerTellsTruth, MutationsHitTheirRow, Tracks

-----------------------------------------------------------------------------
(* The catalogue refresh.                                                  *)

LEMMA RefreshStays ==
  ASSUME UiInv, Appended, submitted' \in Nat, UNCHANGED <<refresh, catalogue, handled>>
  PROVE  RefreshInv'
<1>1. /\ refresh' \in [pending : BOOLEAN, cooling : BOOLEAN, last : 0 .. submitted']
      /\ catalogue' \in 0 .. submitted'
  BY Counts DEF UiInv, RefreshInv, Appended
<1>2. refresh'.last # NoRequest => requests'[refresh'.last].kind = "refresh"
  BY Counts DEF UiInv, RefreshInv, Appended
<1>3. \A r \in 1 .. handled : MayHaveChangedCatalogue(r)' = MayHaveChangedCatalogue(r)
  BY Counts DEF MayHaveChangedCatalogue, Appended
<1>4. RefreshNeverLost'
  BY <1>3 DEF UiInv, RefreshInv, RefreshNeverLost
<1>5. QED
  BY <1>1, <1>2, <1>4 DEF RefreshInv

\* The answer to request Coming is handled, and the catalogue is not replaced.
LEMMA RefreshAnswered ==
  ASSUME UiInv, Appended, submitted' \in Nat, handled < Len(answers), handled' = Coming,
         UNCHANGED catalogue,
         \/ refresh' = Pending
         \/ refresh' = Retried
         \/ refresh' = Requeued /\ ~MayHaveChangedCatalogue(Coming)
         \/ UNCHANGED refresh /\ refresh.last # Coming /\ ~MayHaveChangedCatalogue(Coming)
  PROVE  RefreshInv'
<1>1. /\ refresh \in [pending : BOOLEAN, cooling : BOOLEAN, last : 0 .. submitted]
      /\ catalogue' \in 0 .. submitted'
  BY Counts DEF UiInv, RefreshInv, Appended
<1>2. /\ refresh' \in [pending : BOOLEAN, cooling : BOOLEAN, last : 0 .. submitted']
      /\ refresh'.last \in {refresh.last, NoRequest}
      /\ \/ refresh'.pending
         \/ UNCHANGED refresh /\ refresh.last # Coming /\ ~MayHaveChangedCatalogue(Coming)
  <2>1. 0 \in 0 .. submitted' /\ NoRequest = 0 /\ refresh.last \in 0 .. submitted'
        /\ refresh \in [pending : BOOLEAN, cooling : BOOLEAN, last : 0 .. submitted']
    BY <1>1, Counts DEF Appended
  <2>2. CASE refresh' = Pending
    BY <2>1, <2>2 DEF Pending
  <2>3. CASE refresh' = Retried
    BY <2>1, <2>3 DEF Retried
  <2>4. CASE refresh' = Requeued /\ ~MayHaveChangedCatalogue(Coming)
    BY <2>1, <2>4 DEF Requeued
  <2>5. CASE UNCHANGED refresh /\ refresh.last # Coming /\ ~MayHaveChangedCatalogue(Coming)
    BY <2>1, <2>5
  <2>6. QED
    BY <2>2, <2>3, <2>4, <2>5
<1>3. refresh'.last # NoRequest => requests'[refresh'.last].kind = "refresh"
  BY <1>1, <1>2, Counts DEF UiInv, RefreshInv, Appended
<1>4. \A r \in 1 .. handled + 1 : MayHaveChangedCatalogue(r)' = MayHaveChangedCatalogue(r)
  BY Counts DEF MayHaveChangedCatalogue, Appended
<1>5. RefreshNeverLost'
  <2>1. CASE refresh'.pending
    BY <2>1 DEF RefreshNeverLost
  <2>2. CASE UNCHANGED refresh /\ refresh.last # Coming /\ ~MayHaveChangedCatalogue(Coming)
    BY <1>1, <1>4, <2>2, Counts DEF UiInv, RefreshInv, RefreshNeverLost, Coming
  <2>3. QED
    BY <1>2, <2>1, <2>2
<1>6. QED
  BY <1>1, <1>2, <1>3, <1>5 DEF RefreshInv

-----------------------------------------------------------------------------
(* The ranking.                                                            *)

LEMMA LongerSeq ==
  ASSUME NEW m \in Nat, NEW n \in Nat, m <= n, NEW s \in Seq(1 .. m)
  PROVE  s \in Seq(1 .. n)
  BY SeqMonotonic

LEMMA RankingEnds ==
  ASSUME UiInv, Appended, submitted' \in Nat, ranking' = NoRequest, rankings' \in {rankings, <<>>}
  PROVE  RankingInv'
<1>1. <<>> \in Seq(1 .. submitted') /\ rankings \in Seq(1 .. submitted')
  BY Counts, LongerSeq, EmptySeq DEF UiInv, RankingInv, Appended
<1>2. rankings' \in Seq(1 .. submitted')
  BY <1>1, Zenon
<1>3. 0 \in 0 .. submitted'
  OBVIOUS
<1>4. QED
  BY <1>2, <1>3 DEF RankingInv, NoRequest

LEMMA RankingStays ==
  ASSUME UiInv, UNCHANGED <<submitted, requests, ranking, rankings>>,
         handled' \in Nat, handled <= handled'
  PROVE  RankingInv'
  BY Counts DEF UiInv, RankingInv

-----------------------------------------------------------------------------
(* The grid.                                                               *)

LEMMA GridStays ==
  ASSUME UiInv, Appended, submitted' \in Nat, UNCHANGED gridVars
  PROVE  GridInv'
<1>1. 0 .. submitted \subseteq 0 .. submitted'
  BY Counts DEF Appended
<1>2. grid' \in [rows : Seq(Identity), origin : Origin, from : 0 .. submitted',
                 focus : Nat \ {0}, session : Nat, armed : Nat]
  BY <1>1 DEF UiInv, GridInv, gridVars
<1>3. CursorInGrid' /\ DeleteConfirmsArmedRow'
  BY DEF UiInv, GridInv, gridVars, CursorInGrid, DeleteConfirmsArmedRow, Focused
<1>4. QED
  BY <1>2, <1>3 DEF UiInv, GridInv, gridVars

\* The rows of an answer that may be a mutation's stay where they are.
LEMMA MutationStays ==
  ASSUME UiInv, Appended, UNCHANGED tracker,
         DOMAIN grid'.rows = DOMAIN grid.rows,
         \A i \in DOMAIN grid.rows : grid'.rows[i].key = grid.rows[i].key
  PROVE  MutationsHitTheirRow'
<1>1. tracker # NoRequest => requests'[tracker] = requests[tracker]
  BY Counts DEF Appended
<1>2. QED
  BY <1>1 DEF UiInv, MutationsHitTheirRow, Tracks

LEMMA GridTypes ==
  ASSUME UiInv
  PROVE  /\ grid \in [rows : Seq(Identity), origin : Origin, from : 0 .. submitted,
                      focus : Nat \ {0}, session : Nat, armed : Nat]
         /\ grid.rows \in Seq(Identity) /\ Len(grid.rows) \in Nat
         /\ DOMAIN grid.rows = 1 .. Len(grid.rows)
         /\ \A i \in 1 .. Len(grid.rows) : grid.rows[i] \in Identity
         /\ grid.rows # <<>> => Len(grid.rows) > 0
         /\ grid.focus \in Nat \ {0} /\ grid.session \in Nat /\ grid.armed \in Nat
         /\ previewed \in Identity \union {NoRow}
         /\ pendingFocus \in Row \union {"none"}
<1>1. grid \in [rows : Seq(Identity), origin : Origin, from : 0 .. submitted,
                focus : Nat \ {0}, session : Nat, armed : Nat]
  BY DEF UiInv, GridInv
<1>2. grid.rows \in Seq(Identity)
  BY <1>1
<1>3. QED
  BY <1>1, <1>2, LenProperties, ElementOfSeq, EmptySeq DEF UiInv, GridInv

LEMMA ResultsAreRows ==
  ASSUME NEW rows \in Results
  PROVE  rows \in Seq(Identity)
<1>1. PICK n \in 0 .. MaxRows : rows \in [1 .. n -> [key : Row, revision : {0}]]
  BY DEF Results
<1>2. n \in Nat /\ 0 \in 0 .. MaxRequest
  BY MaxRowsAssumption, MaxRequestAssumption
<1>3. rows \in [1 .. n -> Identity]
  BY <1>1, <1>2 DEF Identity
<1>4. QED
  BY <1>2, <1>3

\* A result is shown: the cursor is in it, and nothing is armed.
LEMMA ShowKeeps ==
  ASSUME UiInv, UNCHANGED submitted, NEW r \in 0 .. submitted, NEW origin \in Origin,
         Show(r, origin)
  PROVE  GridInv' /\ grid'.from = r
<1>1. PICK rows \in Results :
         \E focus \in {1} \union {i \in DOMAIN rows : rows[i].key = pendingFocus} :
            grid' = [Shown(r, rows, origin) EXCEPT !.focus = focus]
  BY DEF Show
<1>2. /\ rows \in Seq(Identity) /\ DOMAIN rows = 1 .. Len(rows) /\ Len(rows) \in Nat
      /\ rows # <<>> => Len(rows) > 0
  BY ResultsAreRows, LenProperties, EmptySeq
<1>3. PICK focus \in {1} \union DOMAIN rows :
         grid' = [Shown(r, rows, origin) EXCEPT !.focus = focus]
  BY <1>1
<1>4. focus \in Nat \ {0} /\ (rows # <<>> => focus \in DOMAIN rows)
  BY <1>2
<1>5. grid' = [rows |-> rows, origin |-> origin, from |-> r, focus |-> focus, session |-> 0,
               armed |-> 0]
  BY <1>3 DEF Shown
<1>6. grid' \in [rows : Seq(Identity), origin : Origin, from : 0 .. submitted',
                 focus : Nat \ {0}, session : Nat, armed : Nat]
  BY <1>2, <1>4, <1>5
<1>7. CursorInGrid' /\ DeleteConfirmsArmedRow'
  BY <1>4, <1>5 DEF CursorInGrid, DeleteConfirmsArmedRow
<1>8. previewed' \in Identity \union {NoRow} /\ pendingFocus' \in Row \union {"none"}
  BY GridTypes DEF Show
<1>9. QED
  BY <1>5, <1>6, <1>7, <1>8 DEF GridInv

LEMMA RowRemoved ==
  ASSUME NEW S, NEW s \in Seq(S), NEW i \in 1 .. Len(s)
  PROVE  RemoveAt(s, i) \in Seq(S) /\ Len(RemoveAt(s, i)) = Len(s) - 1
<1>1. Len(s) \in Nat /\ \A j \in 1 .. Len(s) : s[j] \in S
  BY LenProperties, ElementOfSeq
<1>2. SubSeq(s, 1, i - 1) \in Seq(S) /\ Len(SubSeq(s, 1, i - 1)) = i - 1
  <2>1. /\ 1 \in Int /\ i - 1 \in Int
        /\ \A j \in 1 .. i - 1 : s[j] \in S
        /\ (IF 1 <= i - 1 THEN i - 1 - 1 + 1 ELSE 0) = i - 1
    BY <1>1
  <2>2. QED
    BY <2>1, SubSeqProperties
<1>3. SubSeq(s, i + 1, Len(s)) \in Seq(S) /\ Len(SubSeq(s, i + 1, Len(s))) = Len(s) - i
  <2>1. /\ i + 1 \in Int /\ Len(s) \in Int
        /\ \A j \in i + 1 .. Len(s) : s[j] \in S
        /\ (IF i + 1 <= Len(s) THEN Len(s) - (i + 1) + 1 ELSE 0) = Len(s) - i
    BY <1>1
  <2>2. QED
    BY <2>1, SubSeqProperties
<1>4. ASSUME NEW a \in Seq(S), NEW b \in Seq(S)
      PROVE  a \o b \in Seq(S) /\ Len(a \o b) = Len(a) + Len(b)
  BY ConcatProperties
<1>5. /\ RemoveAt(s, i) \in Seq(S)
      /\ Len(RemoveAt(s, i)) = Len(SubSeq(s, 1, i - 1)) + Len(SubSeq(s, i + 1, Len(s)))
  BY <1>2, <1>3, <1>4, Zenon DEF RemoveAt
<1>6. Len(RemoveAt(s, i)) = (i - 1) + (Len(s) - i)
  BY <1>2, <1>3, <1>5, Zenon
<1>7. (i - 1) + (Len(s) - i) = Len(s) - 1
  BY <1>1
<1>8. QED
  BY <1>5, <1>6, <1>7, Zenon

LEMMA Smaller ==
  ASSUME NEW a \in Nat, NEW b \in Nat
  PROVE  Min({a, b}) \in {a, b} /\ Min({a, b}) <= a /\ Min({a, b}) <= b
  BY DEF Min

-----------------------------------------------------------------------------
(* What the user does.                                                     *)

LEMMA QueryKeeps ==
  ASSUME UiInv, NEW kind \in {"sql", "select", "semantic"}, NEW flagged \in BOOLEAN,
         Query(kind, flagged)
  PROVE  UiInv'
<1>1. /\ Send(kind, flagged, NoRow, 0)
      /\ UNCHANGED <<handled, catalogueVars, rankings, gridVars>>
      /\ ranking' = NoRequest
  BY DEF Query, UserSends, CancelPipeline
<1>2. kind \in Kind /\ NoRow \in Identity \union {NoRow} /\ handled' \in 0 .. Len(answers)
  BY <1>1, Counts DEF Kind
<1>3. /\ FlightOrder' /\ RequestsKept' /\ TrackerTellsTruth' /\ Appended
      /\ submitted' = submitted + 1 /\ tracker' = submitted + 1
      /\ requests'[submitted + 1].kind = kind
  BY <1>1, <1>2, SendAppends
<1>4. submitted' \in Nat
  BY <1>3, Counts
<1>5. RefreshInv' /\ RankingInv' /\ GridInv'
  BY <1>1, <1>3, <1>4, RefreshStays, RankingEnds, GridStays DEF catalogueVars
<1>6. MutationsHitTheirRow'
  BY <1>3 DEF MutationsHitTheirRow, Tracks
<1>7. QED
  BY <1>3, <1>5, <1>6 DEF UiInv

LEMMA CancelKeeps ==
  ASSUME UiInv, RequestCancel \/ DisableSemanticRuntime
  PROVE  UiInv'
<1>1. /\ UNCHANGED <<flightVars, requests, handled, tracker, catalogueVars, gridVars>>
      /\ ranking' = NoRequest /\ rankings' \in {rankings, <<>>}
  BY DEF RequestCancel, DisableSemanticRuntime, CancelPipeline
<1>2. FlightOrder' /\ RequestsKept' /\ Appended /\ submitted' \in Nat
  BY <1>1, Counts, NothingAppended DEF flightVars
<1>3. TrackerTellsTruth'
  BY <1>1 DEF UiInv, TrackerTellsTruth, flightVars
<1>4. RefreshInv' /\ RankingInv' /\ GridInv'
  BY <1>1, <1>2, RefreshStays, RankingEnds, GridStays DEF catalogueVars
<1>5. MutationsHitTheirRow'
  BY <1>1, <1>2, MutationStays DEF gridVars
<1>6. QED
  BY <1>2, <1>3, <1>4, <1>5 DEF UiInv

\* The user moves in the grid: nothing is sent, and the rows stay.
LEMMA GridOnlyKeeps ==
  ASSUME UiInv,
         UNCHANGED <<flightVars, requests, handled, tracker, catalogueVars, searchVars>>,
         grid'.rows = grid.rows, GridInv'
  PROVE  UiInv'
<1>1. FlightOrder' /\ RequestsKept' /\ Appended /\ submitted' \in Nat
  BY Counts, NothingAppended DEF flightVars
<1>2. TrackerTellsTruth'
  BY DEF UiInv, TrackerTellsTruth, flightVars
<1>3. RefreshInv' /\ RankingInv'
  BY <1>1, RefreshStays, RankingStays, Counts DEF catalogueVars, searchVars, flightVars
<1>4. MutationsHitTheirRow'
  BY <1>1, MutationStays
<1>5. QED
  BY <1>1, <1>2, <1>3, <1>4 DEF UiInv

\* A cursor, a session and an armed row that are in order.
LEMMA GridStep ==
  ASSUME UiInv, UNCHANGED submitted,
         NEW focus \in Nat \ {0}, NEW session \in Nat, NEW armed \in Nat,
         grid' = [grid EXCEPT !.focus = focus, !.session = session, !.armed = armed],
         previewed' \in Identity \union {NoRow}, UNCHANGED pendingFocus,
         grid.rows # <<>> => focus \in DOMAIN grid.rows,
         session # 0 => session = focus /\ session \in DOMAIN grid.rows,
         armed # 0 => armed = focus /\ armed \in DOMAIN grid.rows
                        /\ grid.rows[focus].key = previewed'.key
  PROVE  GridInv' /\ grid'.rows = grid.rows
<1>1. /\ grid' \in [rows : Seq(Identity), origin : Origin, from : 0 .. submitted',
                    focus : Nat \ {0}, session : Nat, armed : Nat]
      /\ grid'.rows = grid.rows /\ grid'.focus = focus /\ grid'.session = session
      /\ grid'.armed = armed
  BY GridTypes
<1>2. CursorInGrid'
  BY <1>1 DEF CursorInGrid
<1>3. DeleteConfirmsArmedRow'
  BY <1>1 DEF DeleteConfirmsArmedRow, Focused
<1>4. QED
  BY <1>1, <1>2, <1>3, GridTypes DEF GridInv

\* What the invariant says of the cursor.
LEMMA Cursor ==
  ASSUME UiInv
  PROVE  /\ grid.rows # <<>> => grid.focus \in DOMAIN grid.rows
         /\ grid.session # 0 => grid.session = grid.focus /\ grid.session \in DOMAIN grid.rows
         /\ grid.armed # 0 => /\ grid.armed = grid.focus /\ grid.armed \in DOMAIN grid.rows
                              /\ grid.rows[grid.focus].key = previewed.key
  BY DEF UiInv, GridInv, CursorInGrid, DeleteConfirmsArmedRow, Focused

LEMMA MoveKeeps ==
  ASSUME UiInv, MoveFocus \/ BeginEdit \/ Disarm \/ EndEdit \/ ArmDelete
  PROVE  UiInv'
<1>1. UNCHANGED <<flightVars, requests, handled, tracker, catalogueVars, searchVars, pendingFocus>>
  BY DEF MoveFocus, BeginEdit, Disarm, EndEdit, ArmDelete, GridOnly
<1>2. UNCHANGED submitted
  BY <1>1 DEF flightVars
<1>3. PICK focus \in Nat \ {0}, session \in Nat, armed \in Nat :
         /\ grid' = [grid EXCEPT !.focus = focus, !.session = session, !.armed = armed]
         /\ grid.rows # <<>> => focus \in DOMAIN grid.rows
         /\ session # 0 => session = focus /\ session \in DOMAIN grid.rows
         /\ armed # 0 => armed = focus /\ armed \in DOMAIN grid.rows
                           /\ grid.rows[focus].key = previewed'.key
  <2>1. CASE MoveFocus
    <3>1. PICK row \in DOMAIN grid.rows : grid' = FocusOn(row)
      BY <2>1 DEF MoveFocus
    <3>2. row \in Nat \ {0} /\ 0 \in Nat
      BY GridTypes
    <3>3. grid' = [grid EXCEPT !.focus = row, !.session = 0, !.armed = 0]
      BY <3>1 DEF FocusOn
    <3>4. QED
      BY <3>2, <3>3
  <2>2. CASE BeginEdit
    <3>1. PICK armed \in {0, grid.armed} :
             grid' = [grid EXCEPT !.session = grid.focus, !.armed = armed]
      BY <2>2 DEF BeginEdit
    <3>2. grid' = [grid EXCEPT !.focus = grid.focus, !.session = grid.focus, !.armed = armed]
      BY <3>1, GridTypes
    <3>3. UNCHANGED previewed /\ grid.rows # <<>>
      BY <2>2 DEF BeginEdit, GridOnly, Editable
    <3>4. /\ armed \in Nat
          /\ armed # 0 => armed = grid.focus /\ armed \in DOMAIN grid.rows
                            /\ grid.rows[grid.focus].key = previewed'.key
      BY <3>1, <3>3, Cursor, GridTypes
    <3>5. QED
      BY <3>2, <3>3, <3>4, Cursor, GridTypes
  <2>3. CASE Disarm
    <3>1. grid' = [grid EXCEPT !.focus = grid.focus, !.session = grid.session, !.armed = 0]
      BY <2>3, GridTypes DEF Disarm
    <3>2. QED
      BY <3>1, Cursor, GridTypes
  <2>4. CASE EndEdit
    <3>1. grid' = [grid EXCEPT !.focus = grid.focus, !.session = 0, !.armed = grid.armed]
      BY <2>4, GridTypes DEF EndEdit
    <3>2. UNCHANGED previewed
      BY <2>4 DEF EndEdit, GridOnly
    <3>3. QED
      BY <3>1, <3>2, Cursor, GridTypes
  <2>5. CASE ArmDelete
    <3>1. grid' = [grid EXCEPT !.focus = grid.focus, !.session = grid.session, !.armed = grid.focus]
      BY <2>5, GridTypes DEF ArmDelete
    <3>2. grid.rows # <<>> /\ previewed' = grid.rows[grid.focus]
      BY <2>5 DEF ArmDelete, Editable, Focused
    <3>3. QED
      BY <3>1, <3>2, Cursor, GridTypes
  <2>6. QED
    BY <2>1, <2>2, <2>3, <2>4, <2>5
<1>4. previewed' \in Identity \union {NoRow}
  <2>1. CASE ArmDelete
    <3>1. grid.rows # <<>> /\ previewed' = grid.rows[grid.focus]
      BY <2>1 DEF ArmDelete, Editable, Focused
    <3>2. QED
      BY <3>1, Cursor, GridTypes
  <2>2. CASE MoveFocus \/ BeginEdit \/ Disarm \/ EndEdit
    BY <2>2, GridTypes DEF MoveFocus, BeginEdit, Disarm, EndEdit, GridOnly
  <2>3. QED
    BY <2>1, <2>2
<1>5. GridInv' /\ grid'.rows = grid.rows
  BY <1>1, <1>2, <1>3, <1>4, GridStep
<1>6. QED
  BY <1>1, <1>5, GridOnlyKeeps

\* An update or a delete is sent for a row of the grid.
LEMMA MutationSent ==
  ASSUME UiInv, NEW kind \in {"update", "delete"}, NEW index \in DOMAIN grid.rows,
         Send(kind, FALSE, grid.rows[index], index), ranking' = NoRequest,
         UNCHANGED <<handled, catalogueVars, rankings, previewed, pendingFocus>>,
         NEW session \in {0, grid.session}, NEW armed \in {0, grid.armed},
         grid' = [grid EXCEPT !.session = session, !.armed = armed]
  PROVE  UiInv'
<1>1. /\ kind \in Kind /\ grid.rows[index] \in Identity \union {NoRow} /\ index \in Nat
      /\ handled' \in 0 .. Len(answers)
  BY Counts, GridTypes DEF Kind
<1>2. /\ FlightOrder' /\ RequestsKept' /\ TrackerTellsTruth' /\ Appended
      /\ submitted' = submitted + 1 /\ tracker' = submitted + 1
      /\ requests'[submitted + 1].index = index
      /\ requests'[submitted + 1].identity = grid.rows[index]
  BY <1>1, SendAppends
<1>3. submitted' \in Nat /\ submitted <= submitted'
  BY <1>2, Counts
<1>4. RefreshInv' /\ RankingInv'
  BY <1>2, <1>3, RefreshStays, RankingEnds DEF catalogueVars
<1>5. /\ session \in Nat /\ armed \in Nat
      /\ 0 .. submitted \subseteq 0 .. submitted'
      /\ grid \in [rows : Seq(Identity), origin : Origin, from : 0 .. submitted,
                   focus : Nat \ {0}, session : Nat, armed : Nat]
  BY <1>3, GridTypes, Counts
<1>6. /\ grid' \in [rows : Seq(Identity), origin : Origin, from : 0 .. submitted',
                    focus : Nat \ {0}, session : Nat, armed : Nat]
      /\ grid'.rows = grid.rows /\ grid'.focus = grid.focus
      /\ grid'.session = session /\ grid'.armed = armed
  BY <1>5
<1>7. CursorInGrid'
  BY <1>6, Cursor DEF CursorInGrid
<1>8. DeleteConfirmsArmedRow'
  BY <1>6, Cursor DEF DeleteConfirmsArmedRow, Focused
<1>9. GridInv'
  BY <1>6, <1>7, <1>8, GridTypes DEF GridInv
<1>10. MutationsHitTheirRow'
  BY <1>2, <1>6 DEF MutationsHitTheirRow
<1>11. QED
  BY <1>2, <1>4, <1>9, <1>10 DEF UiInv

LEMMA SubmitKeeps ==
  ASSUME UiInv, SubmitEdit \/ SubmitDelete
  PROVE  UiInv'
<1>1. CASE SubmitEdit
  <2>1. /\ Send("update", FALSE, grid.rows[grid.session], grid.session) /\ ranking' = NoRequest
        /\ UNCHANGED <<handled, catalogueVars, rankings, previewed, pendingFocus>>
        /\ grid' = [grid EXCEPT !.session = 0] /\ grid.session # 0
    BY <1>1 DEF SubmitEdit, UserSends, CancelPipeline
  <2>2. /\ grid' = [grid EXCEPT !.session = 0, !.armed = grid.armed]
        /\ grid.session \in DOMAIN grid.rows
    BY <2>1, GridTypes, Cursor
  <2>3. QED
    BY <2>1, <2>2, MutationSent
<1>2. CASE SubmitDelete
  <2>1. /\ Send("delete", FALSE, grid.rows[grid.focus], grid.focus) /\ ranking' = NoRequest
        /\ UNCHANGED <<handled, catalogueVars, rankings, previewed, pendingFocus>>
        /\ grid' = [grid EXCEPT !.armed = 0] /\ grid.rows # <<>>
    BY <1>2 DEF SubmitDelete, UserSends, CancelPipeline, Focused, Editable
  <2>2. /\ grid' = [grid EXCEPT !.session = grid.session, !.armed = 0]
        /\ grid.focus \in DOMAIN grid.rows
    BY <2>1, GridTypes, Cursor
  <2>3. QED
    BY <2>1, <2>2, MutationSent
<1>3. QED
  BY <1>1, <1>2

-----------------------------------------------------------------------------
(* The refresh that the user interface sends by itself.                    *)

LEMMA PollCatalogRefreshKeeps ==
  ASSUME UiInv, PollCatalogRefresh
  PROVE  UiInv'
<1>1. /\ Send("refresh", FALSE, NoRow, 0)
      /\ refresh' = [pending |-> FALSE, cooling |-> FALSE, last |-> submitted + 1]
      /\ UNCHANGED <<handled, catalogue, searchVars, gridVars>>
      /\ tracker = NoRequest
  BY DEF PollCatalogRefresh
<1>2. "refresh" \in Kind /\ NoRow \in Identity \union {NoRow} /\ handled' \in 0 .. Len(answers)
  BY <1>1, Counts DEF Kind
<1>3. /\ FlightOrder' /\ RequestsKept' /\ TrackerTellsTruth' /\ Appended
      /\ submitted' = submitted + 1 /\ tracker' = submitted + 1
      /\ requests'[submitted + 1].kind = "refresh"
      /\ UNCHANGED answers
  BY <1>1, <1>2, SendAppends
<1>4. submitted' \in Nat
  BY <1>3, Counts
<1>5. RefreshInv'
  <2>1. /\ refresh' \in [pending : BOOLEAN, cooling : BOOLEAN, last : 0 .. submitted']
        /\ catalogue' \in 0 .. submitted'
    BY <1>1, <1>3, Counts DEF UiInv, RefreshInv
  <2>2. RefreshNeverLost'
    BY <1>1, <1>3, Counts DEF RefreshNeverLost
  <2>3. QED
    BY <1>1, <1>3, <2>1, <2>2 DEF RefreshInv
<1>6. RankingInv'
  <2>1. ranking' \in 0 .. submitted' /\ rankings' \in Seq(1 .. submitted')
    BY <1>1, <1>3, Counts, LongerSeq DEF UiInv, RankingInv, searchVars
  <2>2. ranking # NoRequest =>
           /\ ranking <= handled
           /\ \A r \in ranking + 1 .. submitted' : requests'[r].kind = "refresh"
    <3>1. SUFFICES ASSUME ranking # NoRequest, NEW r \in ranking + 1 .. submitted'
                   PROVE  ranking <= handled /\ requests'[r].kind = "refresh"
      BY DEF UiInv, RankingInv
    <3>2. /\ ranking \in Nat /\ ranking <= handled
          /\ \A q \in ranking + 1 .. submitted : requests[q].kind = "refresh"
      BY <3>1, Counts DEF UiInv, RankingInv
    <3>3. r = submitted + 1 \/ (r \in ranking + 1 .. submitted /\ r \in 1 .. submitted)
      BY <1>3, <3>2, Counts
    <3>4. QED
      BY <1>3, <3>2, <3>3 DEF Appended
  <2>3. QED
    BY <1>1, <2>1, <2>2 DEF RankingInv, searchVars
<1>7. GridInv'
  BY <1>1, <1>3, <1>4, GridStays
<1>8. MutationsHitTheirRow'
  BY <1>3 DEF MutationsHitTheirRow, Tracks
<1>9. QED
  BY <1>3, <1>5, <1>6, <1>7, <1>8 DEF UiInv

LEMMA CoolDownKeeps ==
  ASSUME UiInv, CoolDown
  PROVE  UiInv'
<1>1. /\ UNCHANGED <<flightVars, requests, handled, tracker, catalogue, searchVars, gridVars>>
      /\ refresh' = [refresh EXCEPT !.cooling = FALSE]
  BY DEF CoolDown
<1>2. FlightOrder' /\ RequestsKept' /\ Appended /\ submitted' \in Nat
  BY <1>1, Counts, NothingAppended DEF flightVars
<1>3. TrackerTellsTruth'
  BY <1>1 DEF UiInv, TrackerTellsTruth, flightVars
<1>4. RefreshInv'
  <2>1. /\ refresh' \in [pending : BOOLEAN, cooling : BOOLEAN, last : 0 .. submitted']
        /\ refresh'.pending = refresh.pending /\ refresh'.last = refresh.last
    BY <1>1 DEF UiInv, RefreshInv, flightVars
  <2>2. RefreshNeverLost'
    BY <1>1, <2>1 DEF UiInv, RefreshInv, RefreshNeverLost, MayHaveChangedCatalogue, flightVars
  <2>3. QED
    BY <1>1, <2>1, <2>2 DEF UiInv, RefreshInv, flightVars
<1>5. RankingInv' /\ GridInv'
  BY <1>1, <1>2, RankingStays, GridStays, Counts DEF searchVars, flightVars
<1>6. MutationsHitTheirRow'
  BY <1>1, <1>2, MutationStays DEF gridVars
<1>7. QED
  BY <1>2, <1>3, <1>4, <1>5, <1>6 DEF UiInv

-----------------------------------------------------------------------------
(* Answers.                                                                *)

\* The answer to a request that was replaced.
LEMMA InactiveKeeps ==
  ASSUME UiInv, HandleInactive
  PROVE  UiInv'
<1>1. /\ UNCHANGED <<flightVars, requests, tracker, catalogue, searchVars, gridVars>>
      /\ handled < Len(answers) /\ ~Active /\ handled' = Coming
      /\ refresh' = IF requests[Coming].kind = "sql" /\ Answered # "canceled"
                    THEN Pending ELSE Requeued
  BY DEF HandleInactive
<1>2. FlightOrder' /\ RequestsKept' /\ Appended /\ submitted' \in Nat
  BY <1>1, Counts, AnswerHandled, NothingAppended DEF flightVars
<1>3. TrackerTellsTruth'
  BY <1>1, AnswerHandled, Counts DEF TrackerTellsTruth, Active, flightVars
<1>4. refresh' = Pending \/ (refresh' = Requeued /\ ~MayHaveChangedCatalogue(Coming))
  BY <1>1 DEF MayHaveChangedCatalogue, Answered
<1>5. RefreshInv'
  BY <1>1, <1>2, <1>4, RefreshAnswered
<1>6. RankingInv'
  BY <1>1, AnswerHandled, Counts, RankingStays DEF searchVars, flightVars
<1>7. GridInv'
  BY <1>1, <1>2, GridStays
<1>8. MutationsHitTheirRow'
  BY <1>1, <1>2, MutationStays DEF gridVars
<1>9. QED
  BY <1>2, <1>3, <1>5, <1>6, <1>7, <1>8 DEF UiInv

\* The answer to the tracked request, when nothing is sent for it.
LEMMA ActiveKeeps ==
  ASSUME UiInv, handled < Len(answers), Active, handled' = Coming, tracker' = NoRequest,
         UNCHANGED <<flightVars, requests>>, RefreshInv', RankingInv', GridInv'
  PROVE  UiInv'
<1>1. FlightOrder' /\ RequestsKept'
  BY AnswerHandled, NothingAppended
<1>2. TrackerTellsTruth' /\ MutationsHitTheirRow'
  BY TrackerEnds DEF flightVars
<1>3. QED
  BY <1>1, <1>2 DEF UiInv

LEMMA NothingSent ==
  ASSUME UiInv, handled < Len(answers), handled' = Coming, UNCHANGED <<flightVars, requests>>
  PROVE  Appended /\ submitted' \in Nat /\ UNCHANGED submitted
  BY AnswerHandled, Counts, NothingAppended DEF flightVars

\* The session and the cursor stay, and what was armed may be disarmed.
LEMMA DisarmedKeeps ==
  ASSUME UiInv, UNCHANGED <<flightVars, previewed, pendingFocus>>,
         NEW armed \in {0, grid.armed}, grid' = [grid EXCEPT !.armed = armed]
  PROVE  GridInv'
<1>1. armed \in Nat
  BY GridTypes
<1>2. grid' = [grid EXCEPT !.focus = grid.focus, !.session = grid.session, !.armed = armed]
  BY <1>1, GridTypes
<1>3. /\ UNCHANGED <<submitted, previewed>> /\ pendingFocus' = pendingFocus
      /\ previewed' \in Identity \union {NoRow}
      /\ grid.focus \in Nat \ {0} /\ grid.session \in Nat
      /\ armed # 0 => armed = grid.focus /\ armed \in DOMAIN grid.rows
                        /\ grid.rows[grid.focus].key = previewed'.key
  BY Cursor, GridTypes DEF flightVars
<1>4. QED
  BY <1>1, <1>2, <1>3, Cursor, GridStep

LEMMA CanceledKeeps ==
  ASSUME UiInv, HandleCanceled
  PROVE  UiInv'
<1>1. /\ UNCHANGED <<flightVars, requests, catalogue, searchVars, previewed, pendingFocus>>
      /\ handled < Len(answers) /\ Active /\ handled' = Coming /\ tracker' = NoRequest
      /\ refresh' = Requeued /\ Answered = "canceled"
      /\ grid' = [grid EXCEPT !.armed = 0]
  BY DEF HandleCanceled
<1>2. Appended /\ submitted' \in Nat
  BY <1>1, NothingSent
<1>3. ~MayHaveChangedCatalogue(Coming)
  BY <1>1 DEF MayHaveChangedCatalogue, Answered
<1>4. RefreshInv'
  BY <1>1, <1>2, <1>3, RefreshAnswered
<1>5. RankingInv'
  BY <1>1, AnswerHandled, Counts, RankingStays DEF searchVars, flightVars
<1>6. GridInv'
  BY <1>1, DisarmedKeeps
<1>7. QED
  BY <1>1, <1>4, <1>5, <1>6, ActiveKeeps

\* A request that is not a refresh is not the refresh that is waited for.
LEMMA NotTheRefresh ==
  ASSUME UiInv, handled < Len(answers), requests[Coming].kind # "refresh"
  PROVE  refresh.last # Coming
  BY AnswerHandled DEF UiInv, RefreshInv, NoRequest

LEMMA ErrorKeeps ==
  ASSUME UiInv, HandleError
  PROVE  UiInv'
<1>1. /\ UNCHANGED <<flightVars, requests, catalogue, searchVars, previewed, pendingFocus>>
      /\ handled < Len(answers) /\ Active /\ handled' = Coming /\ tracker' = NoRequest
      /\ Answered \in {"error", "unknown"}
      /\ grid' = IF requests[Coming].kind \in {"update", "delete"}
                 THEN [grid EXCEPT !.armed = 0] ELSE grid
  BY DEF HandleError
<1>2. Appended /\ submitted' \in Nat
  BY <1>1, NothingSent
<1>3. RefreshInv'
  <2>1. CASE requests[Coming].kind = "sql" /\ (requests[Coming].flagged \/ Answered = "unknown")
    <3>1. refresh' = Pending
      BY <2>1 DEF HandleError
    <3>2. QED
      BY <1>1, <1>2, <3>1, RefreshAnswered
  <2>2. CASE requests[Coming].kind = "refresh"
    <3>1. refresh' = Retried
      BY <2>2 DEF HandleError
    <3>2. QED
      BY <1>1, <1>2, <3>1, RefreshAnswered
  <2>3. CASE /\ requests[Coming].kind # "refresh"
             /\ ~(/\ requests[Coming].kind = "sql"
                  /\ requests[Coming].flagged \/ Answered = "unknown")
    <3>1. UNCHANGED refresh
      BY <2>3 DEF HandleError
    <3>2. ~MayHaveChangedCatalogue(Coming)
      BY <1>1, <2>3 DEF MayHaveChangedCatalogue, Answered
    <3>3. QED
      BY <1>1, <1>2, <2>3, <3>1, <3>2, NotTheRefresh, RefreshAnswered
  <2>4. QED
    BY <2>1, <2>2, <2>3
<1>4. RankingInv'
  BY <1>1, AnswerHandled, Counts, RankingStays DEF searchVars, flightVars
<1>5. GridInv'
  <2>1. CASE requests[Coming].kind \in {"update", "delete"}
    BY <1>1, <2>1, DisarmedKeeps
  <2>2. CASE requests[Coming].kind \notin {"update", "delete"}
    BY <1>1, <1>2, <2>2, GridStays DEF gridVars
  <2>3. QED
    BY <2>1, <2>2
<1>6. QED
  BY <1>1, <1>3, <1>4, <1>5, ActiveKeeps

LEMMA RowsKeep ==
  ASSUME UiInv, HandleRows
  PROVE  UiInv'
<1>1. /\ UNCHANGED <<flightVars, requests, catalogue, searchVars>>
      /\ handled < Len(answers) /\ Active /\ handled' = Coming /\ tracker' = NoRequest
      /\ Answered = "success" /\ requests[Coming].kind \in {"sql", "select"}
      /\ refresh' = IF requests[Coming].flagged THEN Pending ELSE refresh
  BY DEF HandleRows, HandleSuccess
<1>2. PICK origin \in Origin : Show(Coming, origin)
  BY DEF HandleRows, Origin
<1>3. Appended /\ submitted' \in Nat /\ UNCHANGED submitted
  BY <1>1, NothingSent
<1>4. \/ refresh' = Pending
      \/ UNCHANGED refresh /\ refresh.last # Coming /\ ~MayHaveChangedCatalogue(Coming)
  BY <1>1, NotTheRefresh DEF MayHaveChangedCatalogue, Answered
<1>5. RefreshInv'
  BY <1>1, <1>3, <1>4, RefreshAnswered
<1>6. RankingInv'
  BY <1>1, AnswerHandled, Counts, RankingStays DEF searchVars, flightVars
<1>7. GridInv'
  BY <1>1, <1>2, <1>3, AnswerHandled, ShowKeeps
<1>8. QED
  BY <1>1, <1>5, <1>6, <1>7, ActiveKeeps

\* The answer says nothing of the catalogue.
LEMMA QuietAnswer ==
  ASSUME UiInv, Appended, submitted' \in Nat, handled < Len(answers), handled' = Coming,
         UNCHANGED catalogueVars, Answered = "success",
         requests[Coming].kind \in Kind \ {"sql", "refresh"}
  PROVE  RefreshInv'
<1>1. ~MayHaveChangedCatalogue(Coming)
  BY DEF MayHaveChangedCatalogue
<1>2. QED
  BY <1>1, NotTheRefresh, RefreshAnswered DEF catalogueVars

LEMMA FetchedKeeps ==
  ASSUME UiInv, HandleFetched
  PROVE  UiInv'
<1>1. /\ UNCHANGED <<flightVars, requests, catalogueVars, gridVars>>
      /\ handled < Len(answers) /\ Active /\ handled' = Coming /\ tracker' = NoRequest
      /\ Answered = "success" /\ requests[Coming].kind = "semantic"
  BY DEF HandleFetched, HandleSuccess
<1>2. Appended /\ submitted' \in Nat /\ UNCHANGED submitted
  BY <1>1, NothingSent
<1>3. RefreshInv' /\ GridInv'
  BY <1>1, <1>2, QuietAnswer, GridStays DEF Kind
<1>4. RankingInv'
  <2>1. CASE ranking' = NoRequest /\ UNCHANGED rankings
    BY <1>2, <2>1, RankingEnds
  <2>2. CASE ranking' = Coming /\ rankings' = Append(rankings, Coming)
    <3>1. Coming = submitted /\ Coming \in 1 .. submitted
      BY <1>1, AnswerHandled
    <3>2. rankings' \in Seq(1 .. submitted')
      BY <1>2, <2>2, <3>1, AppendProperties DEF UiInv, RankingInv
    <3>3. \A r \in Coming + 1 .. submitted' : FALSE
      BY <1>2, <3>1
    <3>4. ranking' <= handled' /\ ranking' \in 0 .. submitted'
      BY <1>1, <1>2, <2>2, <3>1, Counts
    <3>5. QED
      BY <2>2, <3>2, <3>3, <3>4 DEF RankingInv
  <2>3. QED
    BY <2>1, <2>2 DEF HandleFetched
<1>5. QED
  BY <1>1, <1>3, <1>4, ActiveKeeps

LEMMA CatalogueKeeps ==
  ASSUME UiInv, HandleCatalogue
  PROVE  UiInv'
<1>1. /\ UNCHANGED <<flightVars, requests, searchVars, gridVars>>
      /\ handled < Len(answers) /\ Active /\ handled' = Coming /\ tracker' = NoRequest
      /\ refresh' = [pending |-> FALSE, cooling |-> FALSE, last |-> NoRequest]
      /\ catalogue' = Coming /\ requests[Coming].kind = "refresh"
  BY DEF HandleCatalogue, HandleSuccess
<1>2. Appended /\ submitted' \in Nat /\ UNCHANGED <<submitted, answers>>
  BY <1>1, NothingSent DEF flightVars
<1>3. RefreshNeverLost'
  BY <1>1, <1>2, AnswerHandled, Counts DEF RefreshNeverLost, MayHaveChangedCatalogue
<1>4. RefreshInv'
  BY <1>1, <1>2, <1>3, AnswerHandled, Counts DEF RefreshInv
<1>5. RankingInv'
  BY <1>1, AnswerHandled, Counts, RankingStays DEF searchVars, flightVars
<1>6. GridInv'
  BY <1>1, <1>2, GridStays
<1>7. QED
  BY <1>1, <1>4, <1>5, <1>6, ActiveKeeps

LEMMA HydratedKeeps ==
  ASSUME UiInv, HandleHydrated
  PROVE  UiInv'
<1>1. /\ UNCHANGED <<flightVars, requests, catalogueVars, searchVars, gridVars>>
      /\ handled < Len(answers) /\ Active /\ handled' = Coming /\ tracker' = NoRequest
      /\ Answered = "success" /\ requests[Coming].kind = "row"
  BY DEF HandleHydrated, HandleSuccess
<1>2. Appended /\ submitted' \in Nat
  BY <1>1, NothingSent
<1>3. RefreshInv' /\ GridInv'
  BY <1>1, <1>2, QuietAnswer, GridStays DEF Kind
<1>4. RankingInv'
  BY <1>1, AnswerHandled, Counts, RankingStays DEF searchVars, flightVars
<1>5. QED
  BY <1>1, <1>3, <1>4, ActiveKeeps

-----------------------------------------------------------------------------
(* The answers to an update and a delete, and what is sent after them.     *)

\* A fetch for the rows, or for the row, that was mutated.
LEMMA RefetchKeeps ==
  ASSUME UiInv, handled < Len(answers), Active, handled' = Coming, Answered = "success",
         requests[Coming].kind \in {"update", "delete"},
         NEW kind \in {"select", "sql", "row"}, NEW identity \in Identity \union {NoRow},
         NEW index \in Nat, Send(kind, FALSE, identity, index),
         kind = "row" => index \in DOMAIN grid'.rows /\ grid'.rows[index].key = identity.key,
         UNCHANGED <<catalogueVars, rankings>>, ranking' = NoRequest,
         Appended /\ submitted' \in Nat => GridInv'
  PROVE  UiInv'
<1>1. kind \in Kind /\ handled' \in 0 .. Len(answers)
  BY AnswerHandled DEF Kind
<1>2. /\ FlightOrder' /\ RequestsKept' /\ TrackerTellsTruth' /\ Appended
      /\ submitted' = submitted + 1 /\ tracker' = submitted + 1
      /\ requests'[submitted + 1].kind = kind
      /\ requests'[submitted + 1].index = index
      /\ requests'[submitted + 1].identity = identity
  BY <1>1, SendAppends
<1>3. submitted' \in Nat
  BY <1>2, Counts
<1>4. RefreshInv'
  BY <1>2, <1>3, QuietAnswer DEF Kind
<1>5. RankingInv'
  BY <1>2, <1>3, RankingEnds
<1>6. MutationsHitTheirRow'
  BY <1>2 DEF MutationsHitTheirRow, Tracks
<1>7. QED
  BY <1>2, <1>3, <1>4, <1>5, <1>6 DEF UiInv

\* Nothing is fetched: there is no way to, or the table is gone.
LEMMA NoRefetchKeeps ==
  ASSUME UiInv, handled < Len(answers), Active, handled' = Coming, Answered = "success",
         requests[Coming].kind \in {"update", "delete"},
         tracker' = NoRequest, UNCHANGED <<flightVars, requests>>,
         UNCHANGED <<catalogueVars, rankings>>, ranking' \in {NoRequest, ranking},
         Appended /\ submitted' \in Nat => GridInv'
  PROVE  UiInv'
<1>1. Appended /\ submitted' \in Nat /\ UNCHANGED submitted
  BY NothingSent
<1>2. RefreshInv'
  BY <1>1, QuietAnswer DEF Kind
<1>3. RankingInv'
  <2>1. CASE ranking' = NoRequest
    BY <1>1, <2>1, RankingEnds
  <2>2. CASE UNCHANGED ranking
    BY <1>1, <2>2, AnswerHandled, Counts, RankingStays
  <2>3. QED
    BY <2>1, <2>2
<1>4. QED
  BY <1>1, <1>2, <1>3, ActiveKeeps

\* The row that the answer is about is where the request said.
LEMMA MutatedRow ==
  ASSUME UiInv, handled < Len(answers), Active, requests[Coming].kind \in {"update", "delete"}
  PROVE  /\ requests[Coming].index \in DOMAIN grid.rows
         /\ requests[Coming].index \in 1 .. Len(grid.rows)
         /\ grid.rows[requests[Coming].index].key = requests[Coming].identity.key
         /\ requests[Coming].identity \in Identity
<1>1. /\ requests[Coming].index \in DOMAIN grid.rows
      /\ grid.rows[requests[Coming].index].key = requests[Coming].identity.key
  BY AnswerHandled DEF UiInv, MutationsHitTheirRow, Tracks, NoRequest
<1>2. requests[Coming].index \in 1 .. Len(grid.rows)
  BY <1>1, GridTypes
<1>3. requests[Coming].identity.key \in Row
  BY <1>1, <1>2, GridTypes DEF Identity
<1>4. requests[Coming].identity \in Identity \union {NoRow}
  BY AnswerHandled DEF RequestRecord
<1>5. requests[Coming].identity \in Identity
  BY <1>3, <1>4, MaxRequestAssumption DEF NoRow, Identity
<1>6. QED
  BY <1>1, <1>2, <1>5

LEMMA Revised ==
  ASSUME NEW row \in Identity, NEW r \in 0 .. MaxRequest
  PROVE  [row EXCEPT !.revision = r] \in Identity /\ [row EXCEPT !.revision = r].key = row.key
  BY DEF Identity

LEMMA UpdatedKeeps ==
  ASSUME UiInv, HandleUpdated
  PROVE  UiInv'
<1> DEFINE done == requests[Coming]
<1>1. /\ handled < Len(answers) /\ Active /\ handled' = Coming
      /\ Answered = "success" /\ done.kind = "update"
      /\ UNCHANGED <<catalogueVars, rankings, previewed>>
  BY DEF HandleUpdated, HandleSuccess
<1>2. /\ done.index \in DOMAIN grid.rows /\ done.index \in 1 .. Len(grid.rows)
      /\ done.index \in Nat
      /\ grid.rows[done.index].key = done.identity.key
      /\ done.identity \in Identity
      /\ done.identity.key \in Row
  BY <1>1, MutatedRow, GridTypes DEF Identity
<1>3. Coming \in 0 .. MaxRequest
  BY <1>1, AnswerHandled
<1>4. PICK rows \in Seq(Identity) :
         /\ rows = [grid.rows EXCEPT ![done.index].revision = Coming]
         /\ grid' = [grid EXCEPT !.rows = rows]
         /\ DOMAIN rows = DOMAIN grid.rows
         /\ \A i \in DOMAIN grid.rows : rows[i].key = grid.rows[i].key
         /\ rows = <<>> => grid.rows = <<>>
  <2>1. PICK row \in Identity : /\ row = [grid.rows[done.index] EXCEPT !.revision = Coming]
                                /\ row.key = grid.rows[done.index].key
    BY <1>2, <1>3, GridTypes, Revised
  <2>2. /\ [grid.rows EXCEPT ![done.index] = row] \in Seq(Identity)
        /\ DOMAIN [grid.rows EXCEPT ![done.index] = row] = DOMAIN grid.rows
        /\ Len([grid.rows EXCEPT ![done.index] = row]) = Len(grid.rows)
    BY <1>2, GridTypes, ExceptSeq
  <2>3. \A i \in DOMAIN grid.rows :
           [grid.rows EXCEPT ![done.index] = row][i].key = grid.rows[i].key
    BY <1>2, <2>1
  <2>4. grid' = [grid EXCEPT !.rows = [grid.rows EXCEPT ![done.index].revision = Coming]]
    BY GridTypes DEF HandleUpdated
  <2>5. [grid.rows EXCEPT ![done.index].revision = Coming] = [grid.rows EXCEPT ![done.index] = row]
    BY <2>1
  <2>6. [grid.rows EXCEPT ![done.index] = row] = <<>> => grid.rows = <<>>
    BY <1>2, <2>2
  <2>7. QED
    BY <2>2, <2>3, <2>4, <2>5, <2>6
<1>5. /\ grid'.rows = rows /\ grid'.focus = grid.focus /\ grid'.session = grid.session
      /\ grid'.armed = grid.armed
      /\ grid' \in [rows : Seq(Identity), origin : Origin, from : 0 .. submitted,
                    focus : Nat \ {0}, session : Nat, armed : Nat]
  BY <1>4, GridTypes
<1>6. pendingFocus' \in Row \union {"none"}
  BY <1>2 DEF HandleUpdated, Refetch, RefetchRefused
<1>7. ASSUME Appended, submitted' \in Nat
      PROVE  GridInv'
  <2>1. grid' \in [rows : Seq(Identity), origin : Origin, from : 0 .. submitted',
                   focus : Nat \ {0}, session : Nat, armed : Nat]
    <3>1. 0 .. submitted \subseteq 0 .. submitted'
      BY <1>7, Counts DEF Appended
    <3>2. QED
      BY <1>5, <3>1
  <2>2. CursorInGrid' /\ DeleteConfirmsArmedRow'
    BY <1>1, <1>4, <1>5, Cursor DEF CursorInGrid, DeleteConfirmsArmedRow, Focused
  <2>3. QED
    BY <1>1, <1>6, <2>1, <2>2, GridTypes DEF GridInv
<1>8. CASE \E kind \in {"select", "sql"} : Refetch(kind, done.identity.key)
  <2>1. PICK kind \in {"select", "sql"} : Send(kind, FALSE, NoRow, 0) /\ ranking' = NoRequest
    BY <1>8 DEF Refetch, CancelPipeline
  <2>2. QED
    BY <1>1, <1>7, <2>1, RefetchKeeps
<1>9. CASE /\ Send("row", FALSE, [done.identity EXCEPT !.revision = Coming], done.index)
           /\ ranking' = NoRequest
  <2>1. PICK identity \in Identity : /\ identity = [done.identity EXCEPT !.revision = Coming]
                                     /\ identity.key = done.identity.key
    BY <1>2, <1>3, Revised
  <2>2. done.index \in DOMAIN grid'.rows /\ grid'.rows[done.index].key = identity.key
    BY <1>2, <1>4, <1>5, <2>1
  <2>3. Send("row", FALSE, identity, done.index)
    BY <1>9, <2>1
  <2>4. QED
    BY <1>1, <1>2, <1>7, <1>9, <2>2, <2>3, RefetchKeeps
<1>10. CASE /\ tracker' = NoRequest /\ UNCHANGED <<flightVars, requests>>
            /\ ranking' \in {NoRequest, ranking}
  BY <1>1, <1>7, <1>10, NoRefetchKeeps
<1>11. QED
  <2>1. CASE grid.origin = "select"
    <3>1. Refetch("select", done.identity.key) \/ RefetchRefused
      BY <2>1 DEF HandleUpdated
    <3>2. QED
      BY <1>8, <1>10, <3>1 DEF RefetchRefused, CancelPipeline
  <2>2. CASE grid.origin = "rerun"
    BY <1>8, <2>2 DEF HandleUpdated
  <2>3. CASE grid.origin = "row"
    BY <1>9, <2>3 DEF HandleUpdated, CancelPipeline
  <2>4. CASE grid.origin \notin {"select", "rerun", "row"}
    BY <1>10, <2>4 DEF HandleUpdated, NothingToSend
  <2>5. QED
    BY <2>1, <2>2, <2>3, <2>4

LEMMA DeletedKeeps ==
  ASSUME UiInv, HandleDeleted
  PROVE  UiInv'
<1> DEFINE done == requests[Coming]
<1>1. /\ handled < Len(answers) /\ Active /\ handled' = Coming
      /\ Answered = "success" /\ done.kind = "delete"
      /\ UNCHANGED <<catalogueVars, rankings, previewed>>
  BY DEF HandleDeleted, HandleSuccess
<1>2. done.index \in 1 .. Len(grid.rows)
  BY <1>1, MutatedRow
<1>3. PICK left \in Seq(Identity) : left = RemoveAt(grid.rows, done.index)
  BY <1>2, GridTypes, RowRemoved
<1>4. PICK focus \in Nat \ {0} :
         /\ left # <<>> => focus \in DOMAIN left
         /\ grid' = [grid EXCEPT !.rows = left, !.session = 0, !.armed = 0, !.focus = focus]
  <2> DEFINE last == IF left = <<>> THEN 1 ELSE Min({grid.focus, Len(left)})
  <2>1. grid' = [grid EXCEPT !.rows = left, !.session = 0, !.armed = 0, !.focus = last]
    BY <1>3 DEF HandleDeleted, Removed
  <2>2. /\ Len(left) \in Nat /\ DOMAIN left = 1 .. Len(left) /\ (left # <<>> => Len(left) > 0)
        /\ grid.focus \in Nat \ {0}
    BY LenProperties, EmptySeq, GridTypes
  <2>3. left # <<>> => /\ Min({grid.focus, Len(left)}) \in Nat \ {0}
                       /\ Min({grid.focus, Len(left)}) \in 1 .. Len(left)
    <3>1. /\ Min({grid.focus, Len(left)}) \in {grid.focus, Len(left)}
          /\ Min({grid.focus, Len(left)}) <= Len(left)
      BY <2>2, Smaller
    <3>2. QED
      BY <2>2, <3>1
  <2>4. last \in Nat \ {0} /\ (left # <<>> => last \in DOMAIN left)
    BY <2>2, <2>3
  <2>5. QED
    BY <2>1, <2>4
<1>5. /\ grid'.rows = left /\ grid'.focus = focus /\ grid'.session = 0 /\ grid'.armed = 0
      /\ grid' \in [rows : Seq(Identity), origin : Origin, from : 0 .. submitted,
                    focus : Nat \ {0}, session : Nat, armed : Nat]
  BY <1>4, GridTypes
<1>6. pendingFocus' \in Row \union {"none"}
  BY GridTypes DEF HandleDeleted, Refetch, RefetchRefused
<1>7. ASSUME Appended, submitted' \in Nat
      PROVE  GridInv'
  <2>1. grid' \in [rows : Seq(Identity), origin : Origin, from : 0 .. submitted',
                   focus : Nat \ {0}, session : Nat, armed : Nat]
    <3>1. 0 .. submitted \subseteq 0 .. submitted'
      BY <1>7, Counts DEF Appended
    <3>2. QED
      BY <1>5, <3>1
  <2>2. CursorInGrid' /\ DeleteConfirmsArmedRow'
    BY <1>4, <1>5 DEF CursorInGrid, DeleteConfirmsArmedRow
  <2>3. QED
    BY <1>1, <1>6, <2>1, <2>2, GridTypes DEF GridInv
<1>8. CASE \E kind \in {"select", "sql"} : Refetch(kind, "none")
  <2>1. PICK kind \in {"select", "sql"} : Send(kind, FALSE, NoRow, 0) /\ ranking' = NoRequest
    BY <1>8 DEF Refetch, CancelPipeline
  <2>2. QED
    BY <1>1, <1>7, <2>1, RefetchKeeps
<1>9. CASE /\ tracker' = NoRequest /\ UNCHANGED <<flightVars, requests>>
           /\ ranking' \in {NoRequest, ranking}
  BY <1>1, <1>7, <1>9, NoRefetchKeeps
<1>10. QED
  <2>1. CASE grid.origin = "select"
    <3>1. Refetch("select", "none") \/ RefetchRefused
      BY <2>1 DEF HandleDeleted
    <3>2. QED
      BY <1>8, <1>9, <3>1 DEF RefetchRefused, CancelPipeline
  <2>2. CASE grid.origin = "rerun"
    BY <1>8, <2>2 DEF HandleDeleted
  <2>3. CASE grid.origin = "row"
    BY <1>9, <2>3 DEF HandleDeleted, NothingToSend
  <2>4. CASE grid.origin \notin {"select", "rerun", "row"}
    BY <1>9, <2>4 DEF HandleDeleted, NothingToSend
  <2>5. QED
    BY <2>1, <2>2, <2>3, <2>4

-----------------------------------------------------------------------------
(* The semantic worker.                                                    *)

LEMMA PollSemanticKeeps ==
  ASSUME UiInv, PollSemantic
  PROVE  UiInv'
<1>1. /\ UNCHANGED <<flightVars, requests, handled, tracker, catalogueVars>>
      /\ rankings # <<>> /\ rankings' = Tail(rankings)
  BY DEF PollSemantic
<1>2. FlightOrder' /\ RequestsKept' /\ Appended /\ submitted' \in Nat /\ UNCHANGED submitted
  BY <1>1, Counts, NothingAppended DEF flightVars
<1>3. TrackerTellsTruth'
  BY <1>1 DEF UiInv, TrackerTellsTruth, flightVars
<1>4. RefreshInv'
  BY <1>1, <1>2, RefreshStays DEF catalogueVars
<1>5. Head(rankings) \in 1 .. submitted /\ rankings' \in Seq(1 .. submitted')
  BY <1>1, <1>2, HeadTailProperties DEF UiInv, RankingInv
<1>6. ranking' \in {NoRequest, ranking}
  BY DEF PollSemantic
<1>7. RankingInv'
  <2>1. ranking' \in 0 .. submitted'
    BY <1>2, <1>6, Counts DEF UiInv, RankingInv
  <2>2. QED
    BY <1>1, <1>2, <1>5, <1>6, <2>1 DEF UiInv, RankingInv
<1>8. CASE UNCHANGED gridVars
  <2>1. GridInv'
    BY <1>2, <1>8, GridStays
  <2>2. MutationsHitTheirRow'
    BY <1>1, <1>2, <1>8, MutationStays DEF gridVars
  <2>3. QED
    BY <1>2, <1>3, <1>4, <1>7, <2>1, <2>2 DEF UiInv
<1>9. CASE Head(rankings) = ranking /\ Show(ranking, "select")
  <2>1. ranking \in 1 .. submitted /\ ranking # NoRequest
    BY <1>5, <1>9, Counts
  <2>2. GridInv'
    BY <1>2, <1>9, <2>1, ShowKeeps DEF Origin
  <2>3. tracker # NoRequest => requests[tracker].kind = "refresh"
    <3>1. SUFFICES ASSUME tracker # NoRequest
                   PROVE  requests[tracker].kind = "refresh"
      OBVIOUS
    <3>2. /\ ranking <= handled
          /\ \A r \in ranking + 1 .. submitted : requests[r].kind = "refresh"
      BY <2>1 DEF UiInv, RankingInv
    <3>3. tracker = submitted /\ handled < submitted
      BY <3>1, Counts
    <3>4. QED
      BY <2>1, <3>2, <3>3, Counts
  <2>4. MutationsHitTheirRow'
    BY <1>1, <2>3 DEF MutationsHitTheirRow, Tracks
  <2>5. QED
    BY <1>2, <1>3, <1>4, <1>7, <2>2, <2>4 DEF UiInv
<1>10. QED
  BY <1>8, <1>9 DEF PollSemantic

-----------------------------------------------------------------------------
(* Every step keeps the invariant.                                         *)

LEMMA EngineKeeps ==
  ASSUME UiInv, Engine
  PROVE  UiInv'
<1>1. /\ FlightOrder' /\ RequestsKept' /\ TrackerTellsTruth' /\ Appended
      /\ UNCHANGED <<submitted, uiVars>>
  BY EngineAppends
<1>2. submitted' \in Nat /\ handled' \in Nat /\ handled <= handled'
  BY <1>1, Counts DEF uiVars
<1>3. RefreshInv' /\ RankingInv' /\ GridInv'
  BY <1>1, <1>2, RefreshStays, RankingStays, GridStays DEF uiVars, catalogueVars, searchVars
<1>4. MutationsHitTheirRow'
  BY <1>1, MutationStays DEF uiVars, gridVars
<1>5. QED
  BY <1>1, <1>3, <1>4 DEF UiInv

LEMMA UserKeeps ==
  ASSUME UiInv, User
  PROVE  UiInv'
<1>1. CASE RunQuery \/ SelectTop \/ TriggerSemanticSearch
  BY <1>1, QueryKeeps DEF RunQuery, SelectTop, TriggerSemanticSearch
<1>2. CASE RequestCancel \/ DisableSemanticRuntime
  BY <1>2, CancelKeeps
<1>3. CASE MoveFocus \/ BeginEdit \/ Disarm \/ EndEdit \/ ArmDelete
  BY <1>3, MoveKeeps
<1>4. CASE SubmitEdit \/ SubmitDelete
  BY <1>4, SubmitKeeps
<1>5. QED
  BY <1>1, <1>2, <1>3, <1>4 DEF User

LEMMA PollEngineKeeps ==
  ASSUME UiInv, PollEngine
  PROVE  UiInv'
  BY InactiveKeeps, CanceledKeeps, ErrorKeeps, RowsKeep, FetchedKeeps, CatalogueKeeps,
     HydratedKeeps, UpdatedKeeps, DeletedKeeps DEF PollEngine

LEMMA NextKeeps == UiInv /\ [Next]_vars => UiInv'
<1>1. SUFFICES ASSUME UiInv, [Next]_vars
               PROVE  UiInv'
  OBVIOUS
<1>2. CASE UNCHANGED vars
  <2>1. UNCHANGED <<flightVars, requests, handled, tracker, catalogueVars, searchVars>>
    BY <1>2 DEF vars, uiVars
  <2>2. UNCHANGED gridVars
    BY <1>2 DEF vars, uiVars
  <2>3. GridInv'
    BY <1>1, <2>1, <2>2, NothingAppended, Counts, GridStays DEF flightVars
  <2>4. QED
    BY <1>1, <2>1, <2>2, <2>3, GridOnlyKeeps DEF gridVars
<1>3. CASE Next
  BY <1>1, <1>3, UserKeeps, PollEngineKeeps, PollSemanticKeeps, PollCatalogRefreshKeeps,
     CoolDownKeeps, EngineKeeps DEF Next
<1>4. QED
  BY <1>1, <1>2, <1>3

LEMMA InitHolds == UiInit => UiInv
<1>1. SUFFICES ASSUME UiInit
               PROVE  UiInv
  OBVIOUS
<1>2. /\ submitted = 0 /\ serving = 0 /\ answers = <<>> /\ requests = <<>> /\ handled = 0
      /\ tracker = 0 /\ catalogue = 0 /\ ranking = 0 /\ rankings = <<>>
      /\ refresh = [pending |-> FALSE, cooling |-> FALSE, last |-> 0]
      /\ grid = [rows |-> <<>>, origin |-> "none", from |-> 0, focus |-> 1, session |-> 0,
                 armed |-> 0]
      /\ previewed = NoRow /\ pendingFocus = "none"
  BY <1>1 DEF UiInit, FlightInit, NoRequest
<1>3. FlightOrder
  BY <1>2, MaxRequestAssumption, EmptySeq DEF FlightOrder
<1>4. RequestsKept /\ TrackerTellsTruth
  BY <1>2, EmptySeq DEF RequestsKept, TrackerTellsTruth, NoRequest
<1>5. RefreshInv
  BY <1>2 DEF RefreshInv, RefreshNeverLost, NoRequest
<1>6. RankingInv
  BY <1>2, EmptySeq DEF RankingInv, NoRequest
<1>7. GridInv
  <2>1. <<>> \in Seq(Identity)
    BY EmptySeq
  <2>2. grid \in [rows : Seq(Identity), origin : Origin, from : 0 .. submitted,
                  focus : Nat \ {0}, session : Nat, armed : Nat]
    BY <1>2, <2>1 DEF Origin
  <2>3. CursorInGrid /\ DeleteConfirmsArmedRow
    BY <1>2 DEF CursorInGrid, DeleteConfirmsArmedRow
  <2>4. QED
    BY <1>2, <2>2, <2>3 DEF GridInv
<1>8. MutationsHitTheirRow
  BY <1>2 DEF MutationsHitTheirRow, Tracks, NoRequest
<1>9. QED
  BY <1>3, <1>4, <1>5, <1>6, <1>7, <1>8 DEF UiInv

-----------------------------------------------------------------------------
(* The theorems.                                                           *)

\* Every state of a session, whatever the user, the engine and the semantic
\* worker do, and in whatever order their answers are polled.
THEOREM SessionInvariance == Spec => []UiInv
  BY InitHolds, NextKeeps, PTL DEF Spec

\* The state of the application has its types: what it refers to are requests
\* that were sent.
THEOREM SessionTypeCorrect == Spec => []UiTypeOK
<1>1. UiInv => UiTypeOK
  BY Counts DEF UiInv, RequestsKept, RefreshInv, RankingInv, GridInv, UiTypeOK
<1>2. QED
  BY <1>1, SessionInvariance, PTL

\* take_if never misses the answer of the request that is tracked: the tracker
\* is empty exactly when nothing is outstanding.
THEOREM TrackerIsTrue == Spec => []TrackerTellsTruth
<1>1. UiInv => TrackerTellsTruth
  BY DEF UiInv
<1>2. QED
  BY <1>1, SessionInvariance, PTL

\* on_canceled, on_failure and handle_inactive_success together lose no change
\* of the catalogue.
THEOREM NoRefreshIsLost == Spec => []RefreshNeverLost
<1>1. UiInv => RefreshNeverLost
  BY DEF UiInv, RefreshInv
<1>2. QED
  BY <1>1, SessionInvariance, PTL

\* The index that PostResultsAction carries is that of the row it was made for
\* when its answer is handled: no ranking, move or refetch came between.
THEOREM MutationsFindTheirRow == Spec => []MutationsHitTheirRow
<1>1. UiInv => MutationsHitTheirRow
  BY DEF UiInv
<1>2. QED
  BY <1>1, SessionInvariance, PTL

\* The row that the second press of trigger_row_delete deletes has the key of the
\* row that the last first press previewed, and has the focus.
THEOREM ArmedRowIsPreviewed == Spec => []DeleteConfirmsArmedRow
<1>1. UiInv => DeleteConfirmsArmedRow
  BY DEF UiInv, GridInv
<1>2. QED
  BY <1>1, SessionInvariance, PTL

-----------------------------------------------------------------------------
(* What a step never does.                                                 *)

LEMMA SentKind ==
  ASSUME UiInv, NEW kind, NEW flagged, NEW identity, NEW index, Send(kind, flagged, identity, index)
  PROVE  requests'[submitted + 1].kind = kind
<1> DEFINE record == [kind |-> kind, flagged |-> flagged, identity |-> identity, index |-> index]
           S == RequestRecord \union {record}
<1>1. requests \in Seq(S) /\ record \in S /\ Len(requests) = submitted
  BY Counts, SeqMonotonic
<1>2. requests' = Append(requests, record)
  BY DEF Send
<1> HIDE DEF record, S
<1>3. requests'[submitted + 1] = record
  BY <1>1, <1>2, AppendProperties
<1>4. QED
  BY <1>3 DEF record

\* Whatever else is sent is not a catalogue refresh.
LEMMA OthersSendNoRefresh ==
  ASSUME UiInv, Next, ~PollCatalogRefresh, submitted' = submitted + 1
  PROVE  requests'[submitted + 1].kind # "refresh"
<1>1. submitted' # submitted
  BY Counts
<1>2. ASSUME NEW kind \in Kind \ {"refresh"}, NEW flagged, NEW identity, NEW index,
             Send(kind, flagged, identity, index)
      PROVE  requests'[submitted + 1].kind # "refresh"
  BY <1>2, SentKind
<1>3. CASE RunQuery \/ SelectTop \/ TriggerSemanticSearch
  BY <1>2, <1>3 DEF RunQuery, SelectTop, TriggerSemanticSearch, Query, UserSends, Kind
<1>4. CASE SubmitEdit \/ SubmitDelete
  BY <1>2, <1>4 DEF SubmitEdit, SubmitDelete, UserSends, Kind
<1>5. CASE HandleUpdated
  <2>1. \/ \E kind \in {"select", "sql"} : \E focus : Refetch(kind, focus)
        \/ \E identity, index : Send("row", FALSE, identity, index)
        \/ UNCHANGED flightVars
    BY <1>5 DEF HandleUpdated, RefetchRefused, NothingToSend
  <2>2. QED
    BY <1>1, <1>2, <2>1 DEF Refetch, Kind, flightVars
<1>6. CASE HandleDeleted
  <2>1. (\E kind \in {"select", "sql"} : \E focus : Refetch(kind, focus)) \/ UNCHANGED flightVars
    BY <1>6 DEF HandleDeleted, RefetchRefused, NothingToSend
  <2>2. QED
    BY <1>1, <1>2, <2>1 DEF Refetch, Kind, flightVars
<1>7. CASE Engine
  BY <1>1, <1>7, EngineAppends
<1>8. CASE \/ RequestCancel \/ DisableSemanticRuntime \/ MoveFocus \/ BeginEdit \/ Disarm
           \/ EndEdit \/ ArmDelete \/ CoolDown \/ PollSemantic
           \/ HandleInactive \/ HandleCanceled \/ HandleError \/ HandleRows \/ HandleFetched
           \/ HandleCatalogue \/ HandleHydrated
  <2>1. UNCHANGED flightVars
    BY <1>8 DEF RequestCancel, DisableSemanticRuntime, MoveFocus, BeginEdit, Disarm, EndEdit,
                ArmDelete, GridOnly, CoolDown, PollSemantic, HandleInactive, HandleCanceled,
                HandleError, HandleRows, HandleFetched, HandleCatalogue, HandleHydrated
  <2>2. QED
    BY <1>1, <2>1 DEF flightVars
<1>9. QED
  BY <1>3, <1>4, <1>5, <1>6, <1>7, <1>8 DEF Next, User, PollEngine

\* poll_catalog_refresh sends only when the tracker is empty, and an empty
\* tracker means that nothing is outstanding: the refresh cancels nothing.
THEOREM AutoRefreshIsHarmless == Spec => AutoRefreshInterruptsNothing
<1>1. ASSUME UiInv, [Next]_vars
      PROVE  [\A r \in Request :
                 r = submitted + 1 /\ submitted' = r /\ requests'[r].kind = "refresh" =>
                    Len(answers) = submitted]_vars
  <2>1. SUFFICES ASSUME Next, NEW r \in Request,
                        r = submitted + 1, submitted' = r, requests'[r].kind = "refresh"
                 PROVE  Len(answers) = submitted
    BY <1>1
  <2>2. PollCatalogRefresh
    BY <1>1, <2>1, OthersSendNoRefresh
  <2>3. tracker = 0
    BY <2>2 DEF PollCatalogRefresh, NoRequest
  <2>4. QED
    BY <1>1, <2>3, Counts
<1>2. QED
  BY <1>1, SessionInvariance, PTL DEF Spec, AutoRefreshInterruptsNothing

\* Only the rows of the tracked request and those of the ranking are shown.
LEMMA OthersShowNothing ==
  ASSUME UiInv, Next, ~HandleRows, ~PollSemantic
  PROVE  grid'.from = grid.from
<1>1. CASE UNCHANGED grid
  BY <1>1
<1>2. CASE MoveFocus \/ BeginEdit \/ Disarm \/ EndEdit \/ ArmDelete
  BY <1>2, GridTypes DEF MoveFocus, FocusOn, BeginEdit, Disarm, EndEdit, ArmDelete
<1>3. CASE SubmitEdit \/ SubmitDelete
  BY <1>3, GridTypes DEF SubmitEdit, SubmitDelete
<1>4. CASE HandleCanceled \/ HandleError
  BY <1>4, GridTypes DEF HandleCanceled, HandleError
<1>5. CASE HandleUpdated
  BY <1>5, GridTypes DEF HandleUpdated
<1>6. CASE HandleDeleted
  BY <1>6, GridTypes DEF HandleDeleted, Removed
<1>7. CASE \/ RunQuery \/ SelectTop \/ TriggerSemanticSearch \/ RequestCancel
           \/ DisableSemanticRuntime \/ PollCatalogRefresh \/ CoolDown \/ Engine
           \/ HandleInactive \/ HandleFetched \/ HandleCatalogue \/ HandleHydrated
  <2>1. UNCHANGED grid
    BY <1>7 DEF RunQuery, SelectTop, TriggerSemanticSearch, Query, RequestCancel,
                DisableSemanticRuntime, PollCatalogRefresh, CoolDown, Engine, HandleInactive,
                HandleFetched, HandleCatalogue, HandleHydrated, gridVars, uiVars
  <2>2. QED
    BY <2>1
<1>8. QED
  BY <1>2, <1>3, <1>4, <1>5, <1>6, <1>7 DEF Next, User, PollEngine

\* handle_engine_response and handle_semantic_response: what comes to be shown
\* belongs to the newest request of the user.
THEOREM ShownIsNewest == Spec => NewestIsShown
<1>1. ASSUME UiInv, [Next]_vars
      PROVE  [grid'.from # grid.from =>
                 \A r \in grid'.from + 1 .. submitted : requests[r].kind = "refresh"]_vars
  <2>1. SUFFICES ASSUME Next, grid'.from # grid.from, NEW r \in grid'.from + 1 .. submitted
                 PROVE  requests[r].kind = "refresh"
    BY <1>1
  <2>2. CASE HandleRows
    <3>1. Coming = submitted /\ Coming \in 0 .. submitted
      BY <1>1, <2>2, AnswerHandled, Counts DEF HandleRows, HandleSuccess
    <3>2. PICK origin \in Origin : Show(Coming, origin)
      BY <2>2 DEF HandleRows, Origin
    <3>3. UNCHANGED submitted
      BY <2>2 DEF HandleRows, flightVars
    <3>4. grid'.from = submitted
      BY <1>1, <3>1, <3>2, <3>3, ShowKeeps
    <3>5. QED
      BY <1>1, <2>1, <3>4, Counts
  <2>3. CASE PollSemantic
    <3>1. Head(rankings) = ranking /\ Show(ranking, "select") /\ rankings # <<>>
      BY <2>1, <2>3 DEF PollSemantic, gridVars
    <3>2. ranking \in 1 .. submitted
      BY <1>1, <3>1, HeadTailProperties DEF UiInv, RankingInv
    <3>3. UNCHANGED submitted
      BY <2>3 DEF PollSemantic, flightVars
    <3>4. grid'.from = ranking
      BY <1>1, <3>1, <3>2, <3>3, ShowKeeps, Counts DEF Origin
    <3>5. QED
      BY <1>1, <2>1, <3>2, <3>4 DEF UiInv, RankingInv, NoRequest
  <2>4. QED
    BY <1>1, <2>1, <2>2, <2>3, OthersShowNothing
<1>2. QED
  BY <1>1, SessionInvariance, PTL DEF Spec, NewestIsShown
=============================================================================
