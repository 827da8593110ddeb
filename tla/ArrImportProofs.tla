-------------------------- MODULE ArrImportProofs --------------------------
(***************************************************************************)
(* What holds of an import for every number of attempts, page size, length *)
(* of the queue, and number of faults and changes in the arr service.      *)
(***************************************************************************)
EXTENDS ArrImport, SequenceTheorems, TLAPS

\* The history remembers what the library has, and that it dropped the item.
Remembered ==
  /\ held \in AsGood => held \in past
  /\ ~ wanted => "gone" \in past

\* No transcode goes, and no import is skipped, without a reason, or a name
\* that finds no item.
LossExplained ==
  (output /\ verdict # "skipped") \/ past \cap {"ours", "better", "gone", "no name"} # {}

\* A scan that ended well took the file, and so did whatever made an attempt
\* report success, unless it was told nothing.
ImportsHappened ==
  /\ \A a \in Attempts : scan[a] = "successful" => "ours" \in past
  /\ verdict = "ok" => past \cap {"ours", "no id", "no result"} # {}

\* A pending download is on no page that was read already: what enters the
\* queue moves it further back.
PendingAhead ==
  Found /\ during \cap {"fault", "departure"} = {} =>
    /\ pc = "page" => \A i \in DOMAIN queue : queue[i] = "ours" => i > (page - 1) * PageSize
    /\ pc = "post" => "ours" \notin ToSet(queue) \/ attempt \in tracked

\* An attempt has one scan, posted by itself, and looks further only when
\* that imported nothing.
ScanOfAttempt ==
  /\ \A a \in Attempts : a > attempt => scan[a] = "none"
  /\ pc \in {"lookup", "page", "post"} => scan[attempt] = "none"
  /\ pc \in {"recheck", "reject", "size"} => scan[attempt] = "unsuccessful"

\* In an attempt nothing disturbed, a scan imports nothing only for want of a
\* file, or of a reason to take it, and that stays so.
QuietAttempt ==
  during = {} =>
    /\ pc = "wait" => scan[attempt] # "failed"
    /\ pc \in {"wait", "recheck", "reject"} /\ scan[attempt] = "unsuccessful" /\ Found
         => ~ output \/ held \in AsGood
    /\ pc \in {"reject", "size"} => Found
    /\ pc = "size" => ~ output

ArrInv == TypeOK /\ Remembered /\ ImportsHappened /\ PendingAhead /\ ScanOfAttempt /\ QuietAttempt

USE DEF vars, files, arr, paging, bounds, client, Attempts, AsGood, Doubts

Records == {"ours", "imported", "other"}
Labels == {"lookup", "page", "post", "wait", "recheck", "reject", "size", "cleanup", "retire", "end"}
Outcomes == {"none", "queued", "successful", "unsuccessful", "vague", "failed"}

-----------------------------------------------------------------------------
(* The queue and its pages.                                                *)

\* A record that enters the queue moves the ones behind it by one place.
LEMMA InsertAtMoves ==
  ASSUME NEW S, NEW q \in Seq(S), NEW i \in 1 .. Len(q) + 1, NEW e \in S
  PROVE  /\ InsertAt(q, i, e) \in Seq(S)
         /\ Len(InsertAt(q, i, e)) = Len(q) + 1
         /\ \A j \in 1 .. Len(q) + 1 :
              InsertAt(q, i, e)[j] = IF j < i THEN q[j] ELSE IF j = i THEN e ELSE q[j - 1]
<1> DEFINE a == SubSeq(q, 1, i - 1)
           b == <<e>>
           c == SubSeq(q, i, Len(q))
           n == Len(q)
<1>1. n \in Nat /\ i \in Int /\ i >= 1 /\ i <= n + 1 /\ \A k \in 1 .. n : q[k] \in S
  OBVIOUS
<1>2. a \in Seq(S) /\ Len(a) = i - 1 /\ \A k \in 1 .. i - 1 : a[k] = q[k]
  <2>1. 1 \in Int /\ i - 1 \in Int /\ \A k \in 1 .. i - 1 : q[k] \in S
    BY <1>1
  <2>2. /\ a \in Seq(S)
        /\ Len(a) = IF 1 <= i - 1 THEN i - 1 - 1 + 1 ELSE 0
        /\ \A k \in 1 .. i - 1 - 1 + 1 : a[k] = q[1 + k - 1]
    BY <2>1, SubSeqProperties
  <2> HIDE DEF a
  <2> QED
    BY <1>1, <2>2
<1>3. c \in Seq(S) /\ Len(c) = n - i + 1 /\ \A k \in 1 .. n - i + 1 : c[k] = q[i + k - 1]
  <2>1. i \in Int /\ Len(q) \in Int /\ \A k \in i .. Len(q) : q[k] \in S
    BY <1>1
  <2>2. /\ c \in Seq(S)
        /\ Len(c) = IF i <= Len(q) THEN Len(q) - i + 1 ELSE 0
        /\ \A k \in 1 .. Len(q) - i + 1 : c[k] = q[i + k - 1]
    BY <2>1, SubSeqProperties
  <2> HIDE DEF c
  <2> QED
    BY <1>1, <2>2
<1>4. b \in Seq(S) /\ Len(b) = 1 /\ b[1] = e
  OBVIOUS
<1>5. InsertAt(q, i, e) = (a \o b) \o c
  BY DEF InsertAt
<1> HIDE DEF a, b, c
<1>6. /\ a \o b \in Seq(S) /\ Len(a \o b) = Len(a) + Len(b)
      /\ \A k \in 1 .. Len(a) + Len(b) : (a \o b)[k] = IF k <= Len(a) THEN a[k] ELSE b[k - Len(a)]
  BY <1>2, <1>4, ConcatProperties
<1> DEFINE d == a \o b
<1>7. d \in Seq(S) /\ Len(d) = i /\ (\A k \in 1 .. i - 1 : d[k] = q[k]) /\ d[i] = e
  BY <1>1, <1>2, <1>4, <1>6
<1> HIDE DEF d
<1>8. /\ d \o c \in Seq(S) /\ Len(d \o c) = Len(d) + Len(c)
      /\ \A k \in 1 .. Len(d) + Len(c) : (d \o c)[k] = IF k <= Len(d) THEN d[k] ELSE c[k - Len(d)]
  BY <1>3, <1>7, ConcatProperties
<1> DEFINE r == d \o c
<1> HIDE DEF n, r
<1>9. r \in Seq(S) /\ Len(r) = n + 1
      /\ \A k \in 1 .. n + 1 : r[k] = IF k <= i THEN d[k] ELSE c[k - i]
  BY <1>1, <1>3, <1>7, <1>8 DEF r
<1>10. \A k \in 1 .. n + 1 : r[k] = IF k < i THEN q[k] ELSE IF k = i THEN e ELSE q[k - 1]
  <2> SUFFICES ASSUME NEW k \in 1 .. n + 1
               PROVE  r[k] = IF k < i THEN q[k] ELSE IF k = i THEN e ELSE q[k - 1]
    OBVIOUS
  <2>1. CASE k <= i
    BY <1>1, <1>7, <1>9, <2>1
  <2>2. CASE k > i
    <3>1. k - i \in 1 .. n - i + 1 /\ i + (k - i) - 1 = k - 1
      BY <1>1, <2>2
    <3>2. r[k] = c[k - i] /\ ~ (k < i) /\ k # i
      BY <1>1, <1>9, <2>2
    <3>3. c[k - i] = q[k - 1]
      BY <1>3, <3>1
    <3> QED
      BY <3>2, <3>3
  <2> QED
    BY <1>1, <2>1, <2>2
<1> QED
  BY <1>5, <1>9, <1>10 DEF r, d, n

\* A record that leaves makes the queue shorter.
LEMMA RemoveAtShortens ==
  ASSUME NEW S, NEW q \in Seq(S), NEW i \in 1 .. Len(q)
  PROVE  RemoveAt(q, i) \in Seq(S) /\ Len(RemoveAt(q, i)) = Len(q) - 1
<1> DEFINE a == SubSeq(q, 1, i - 1)
           c == SubSeq(q, i + 1, Len(q))
           n == Len(q)
<1>1. n \in Nat /\ i \in Int /\ i >= 1 /\ i <= n /\ \A k \in 1 .. n : q[k] \in S
  OBVIOUS
<1>2. a \in Seq(S) /\ Len(a) = i - 1
  <2>1. 1 \in Int /\ i - 1 \in Int /\ \A k \in 1 .. i - 1 : q[k] \in S
    BY <1>1
  <2>2. a \in Seq(S) /\ Len(a) = IF 1 <= i - 1 THEN i - 1 - 1 + 1 ELSE 0
    BY <2>1, SubSeqProperties
  <2> HIDE DEF a
  <2> QED
    BY <1>1, <2>2
<1>3. c \in Seq(S) /\ Len(c) = n - i
  <2>1. i + 1 \in Int /\ Len(q) \in Int /\ \A k \in i + 1 .. Len(q) : q[k] \in S
    BY <1>1
  <2>2. c \in Seq(S) /\ Len(c) = IF i + 1 <= Len(q) THEN Len(q) - (i + 1) + 1 ELSE 0
    BY <2>1, SubSeqProperties
  <2> HIDE DEF c
  <2> QED
    BY <1>1, <2>2
<1>4. RemoveAt(q, i) = a \o c
  BY DEF RemoveAt
<1> HIDE DEF a, c
<1>5. a \o c \in Seq(S) /\ Len(a \o c) = Len(a) + Len(c)
  BY <1>2, <1>3, ConcatProperties
<1> QED
  BY <1>1, <1>2, <1>3, <1>4, <1>5

\* A page holds at most PageSize records, and the ones it should.
LEMMA RowsShape ==
  ASSUME TypeOK
  PROVE  /\ Len(Rows) \in Nat /\ Len(Rows) <= PageSize
         /\ (page - 1) * PageSize \in Nat /\ page * PageSize = (page - 1) * PageSize + PageSize
         /\ (page - 1) * PageSize < Len(queue) => Rows # <<>>
         /\ "ours" \notin ToSet(Rows) =>
              \A i \in DOMAIN queue :
                queue[i] = "ours" /\ i > (page - 1) * PageSize => i > page * PageSize
<1> DEFINE n == Len(queue)
           f == (page - 1) * PageSize
           l == IF page * PageSize < n THEN page * PageSize ELSE n
<1>1. page \in Nat \ {0} /\ PageSize \in Nat \ {0} /\ queue \in Seq(Records)
  BY ArrAssumption DEF TypeOK, Records
<1>2. n \in Nat /\ DOMAIN queue = 1 .. n /\ \A i \in 1 .. n : queue[i] \in Records
  BY <1>1
<1>3. f \in Nat /\ page * PageSize = f + PageSize
  BY <1>1
<1>4. Rows = SubSeq(queue, f + 1, l)
  BY DEF Rows
<1> DEFINE m == page * PageSize
<1> HIDE DEF f, n, m
<1>5. m \in Nat /\ m = f + PageSize
  BY <1>1, <1>3 DEF m
<1>6. l \in Nat /\ l <= n /\ l <= f + PageSize /\ (l < n => l = m) /\ (f < n => f + 1 <= l)
  BY <1>1, <1>2, <1>3, <1>5 DEF m
<1> HIDE DEF l
<1>7. /\ Rows \in Seq(Records)
      /\ Len(Rows) = IF f + 1 <= l THEN l - (f + 1) + 1 ELSE 0
      /\ \A i \in 1 .. l - (f + 1) + 1 : Rows[i] = queue[f + 1 + i - 1]
  <2>1. f + 1 \in Int /\ l \in Int /\ \A i \in f + 1 .. l : queue[i] \in Records
    BY <1>2, <1>3, <1>6
  <2> QED
    BY <1>4, <2>1, SubSeqProperties
<1>8. Len(Rows) \in Nat /\ Len(Rows) <= PageSize
  BY <1>1, <1>3, <1>6, <1>7
<1>9. f < n => Rows # <<>>
  BY <1>2, <1>3, <1>6, <1>7
<1>10. ASSUME "ours" \notin ToSet(Rows), NEW i \in DOMAIN queue, queue[i] = "ours", i > f
       PROVE  i > m
  <2>1. i \in 1 .. n
    BY <1>2
  <2>2. CASE i <= l
    <3> DEFINE k == i - f
    <3>1. k \in 1 .. l - (f + 1) + 1 /\ f + 1 + k - 1 = i
      BY <1>3, <1>6, <1>10, <2>1, <2>2
    <3>2. k \in DOMAIN Rows
      BY <1>3, <1>6, <1>7, <3>1
    <3>3. Rows[k] = "ours"
      BY <1>7, <1>10, <3>1
    <3> QED
      BY <1>10, <3>2, <3>3 DEF ToSet
  <2>3. CASE i > l
    BY <1>2, <1>5, <1>6, <2>1, <2>3
  <2> QED
    BY <1>6, <2>1, <2>2, <2>3
<1> QED
  BY <1>3, <1>8, <1>9, <1>10 DEF f, n, m

-----------------------------------------------------------------------------
(* Types.                                                                  *)

\* The bounds are numbers, and the queue holds more than one entry.
LEMMA Parameters ==
  /\ MaxAttempts \in Nat \ {0} /\ PageSize \in Nat \ {0} /\ MaxQueue \in Nat /\ MaxQueue >= 2
  /\ MaxFaults \in Nat /\ MaxChanges \in Nat
  BY ArrAssumption

\* Before the first attempt nothing has been asked, seen or imported.
LEMMA InitArrInv == Init => ArrInv /\ LossExplained
<1> SUFFICES ASSUME Init PROVE ArrInv /\ LossExplained
  OBVIOUS
<1>1. queue \in Seq(Records) /\ Len(queue) <= MaxQueue
  <2>1. "ours" \in Records /\ "other" \in Records
    BY DEF Records
  <2>2. /\ <<>> \in Seq(Records) /\ <<"ours">> \in Seq(Records)
        /\ <<"other", "ours">> \in Seq(Records) /\ <<"ours", "other">> \in Seq(Records)
    BY <2>1
  <2>3. Len(<<>>) = 0 /\ Len(<<"ours">>) = 1 /\ Len(<<"other", "ours">>) = 2
        /\ Len(<<"ours", "other">>) = 2
    OBVIOUS
  <2>4. queue = <<>> \/ queue = <<"ours">> \/ queue = <<"other", "ours">> \/ queue = <<"ours", "other">>
    BY DEF Init
  <2> DEFINE n == Len(queue)
  <2>5. n = 0 \/ n = 1 \/ n = 2
    BY <2>3, <2>4
  <2>6. queue \in Seq(Records)
    BY <2>2, <2>4
  <2> HIDE DEF n
  <2>7. n <= MaxQueue
    BY <2>5, Parameters
  <2> QED
    BY <2>6, <2>7 DEF n
<1>2. /\ item \in Items /\ output \in BOOLEAN /\ source \in BOOLEAN /\ wanted \in BOOLEAN
      /\ held \in {"none", "worse", "ours", "better"}
      /\ scan \in [Attempts -> Outcomes] /\ tracked \subseteq Attempts /\ pc \in Labels
      /\ verdict \in {"none", "ok", "skipped", "failed"}
      /\ during \subseteq {"fault", "library", "arrival", "departure"}
      /\ past \subseteq {"ours", "better", "gone"} \cup Doubts
  BY DEF Init, Labels, Outcomes
<1>3. /\ attempt \in Attempts /\ page \in Nat \ {0} /\ fetched \in 0 .. ((page - 1) * PageSize)
      /\ faults \in 0 .. MaxFaults /\ changes \in 0 .. MaxChanges
  <2>1. page = 1 /\ (1 - 1) * PageSize = 0 /\ 1 \in Attempts
    BY Parameters DEF Init
  <2> QED
    BY <2>1, Parameters DEF Init
<1>4. TypeOK
  BY <1>1, <1>2, <1>3, Zenon DEF TypeOK, Records, Labels, Outcomes
<1>5. ImportsHappened /\ ScanOfAttempt
  BY <1>3 DEF Init, ImportsHappened, ScanOfAttempt
<1>6. PendingAhead /\ QuietAttempt /\ Remembered /\ LossExplained
  BY DEF Init, PendingAhead, QuietAttempt, Remembered, LossExplained
<1> QED
  BY <1>4, <1>5, <1>6 DEF ArrInv

\* An attempt that ends is the last, or there is one more.
LEMMA AttemptTypes ==
  ASSUME TypeOK
  PROVE  /\ attempt \in 1 .. MaxAttempts /\ attempt \in Nat
         /\ AttemptError => /\ attempt' \in Attempts /\ pc' \in {"lookup", "end"}
                            /\ verdict' \in {verdict, "failed"}
                            /\ \/ attempt' = attempt + 1 /\ pc' = "lookup" /\ verdict' = verdict
                               \/ attempt' = attempt /\ pc' = "end" /\ verdict' = "failed"
         /\ Fault => faults' \in 0 .. MaxFaults /\ changes' = changes
                     /\ during' = during \cup {"fault"}
<1>1. attempt \in 1 .. MaxAttempts /\ MaxAttempts \in Nat
  BY Parameters DEF TypeOK
<1>2. faults \in 0 .. MaxFaults /\ MaxFaults \in Nat
  BY Parameters DEF TypeOK
<1>3. AttemptError => \/ attempt' = attempt + 1 /\ attempt < MaxAttempts /\ pc' = "lookup" /\ verdict' = verdict
                      \/ attempt' = attempt /\ pc' = "end" /\ verdict' = "failed"
  BY DEF AttemptError
<1>4. Fault => faults' \in 0 .. MaxFaults /\ changes' = changes /\ during' = during \cup {"fault"}
  BY <1>2 DEF Fault
<1> QED
  BY <1>1, <1>3, <1>4

\* The steps of the client that neither read the queue nor touch a file.
Client == PostScan \/ WaitScan \/ CheckWanted \/ CheckRejected \/ CheckSize \/ AttemptLost

\* A step of the client changes its own variables and, by posting a scan, the service's
\* queue of commands; it ends the attempt only after the checks.
LEMMA ClientStep ==
  ASSUME TypeOK, Client
  PROVE  /\ UNCHANGED <<files, wanted, held, queue, tracked, paging>>
         /\ pc \in {"lookup", "page", "post", "wait", "recheck", "reject", "size"}
         /\ \/ AttemptError
            \/ UNCHANGED attempt /\ pc' \in {"wait", "recheck", "reject", "size"} /\ verdict' = verdict
            \/ UNCHANGED attempt /\ pc' = "cleanup" /\ verdict' \in {"ok", "skipped"}
         /\ NoFault \/ Fault
         /\ scan' \in {scan, [scan EXCEPT ![attempt] = "queued"]}
         /\ past' \in {past, past \cup {"no id"}, past \cup {"no result"}, past \cup {"no name"}}
<1>1. CASE PostScan
  BY <1>1 DEF PostScan, Return, Continue
<1>2. CASE WaitScan
  BY <1>2 DEF WaitScan, Return, Continue
<1>3. CASE CheckWanted
  BY <1>3 DEF CheckWanted, Return, Continue
<1>4. CASE CheckRejected
  BY <1>4 DEF CheckRejected, Return, Continue
<1>5. CASE CheckSize
  BY <1>5 DEF CheckSize, Return, Continue
<1>6. CASE AttemptLost
  BY <1>6 DEF AttemptLost
<1> QED
  BY <1>1, <1>2, <1>3, <1>4, <1>5, <1>6 DEF Client

\* The types of what the client sets.
ClientTyped ==
  /\ tracked \subseteq Attempts /\ pc \in Labels /\ attempt \in Attempts
  /\ verdict \in {"none", "ok", "skipped", "failed"}
  /\ faults \in 0 .. MaxFaults /\ changes \in 0 .. MaxChanges
  /\ during \subseteq {"fault", "library", "arrival", "departure"}

PagingTyped == page \in Nat \ {0} /\ fetched \in 0 .. ((page - 1) * PageSize)

\* The types of what the service and the two file removals set.
ServiceTyped ==
  /\ item \in Items
  /\ output \in BOOLEAN /\ source \in BOOLEAN /\ wanted \in BOOLEAN
  /\ held \in {"none", "worse", "ours", "better"}
  /\ scan \in [Attempts -> Outcomes]
  /\ past \subseteq {"ours", "better", "gone"} \cup Doubts

QueueTyped == queue \in Seq(Records) /\ Len(queue) <= MaxQueue

\* The type invariant, variable group by variable group.
LEMMA TypeParts == TypeOK <=> ClientTyped /\ PagingTyped /\ ServiceTyped /\ QueueTyped
  BY DEF TypeOK, ClientTyped, PagingTyped, ServiceTyped, QueueTyped, Records, Labels, Outcomes

\* The activity keeps the types.
LEMMA ClientTypes ==
  ASSUME TypeOK, Lookup \/ ReadPage \/ Client \/ Cleanup \/ RemoveSource
  PROVE  ClientTyped' /\ PagingTyped' /\ ServiceTyped' /\ QueueTyped'
<1> USE TypeParts
<1>1. CASE Lookup
  <2>1. page' = 1 /\ fetched' = 0 /\ (1 - 1) * PageSize = 0 /\ UNCHANGED <<files, arr, tracked, past>>
    BY <1>1, Parameters DEF Lookup
  <2>2. /\ attempt' = attempt /\ verdict' = verdict /\ pc' \in Labels
        /\ changes' = changes /\ during' \in {{}, {"fault"}}
        /\ faults' = faults \/ (faults < MaxFaults /\ faults' = faults + 1)
    BY <1>1 DEF Lookup, Continue, Labels
  <2>3. faults' \in 0 .. MaxFaults
    BY <2>2, Parameters DEF ClientTyped
  <2>4. ClientTyped'
    BY <2>1, <2>2, <2>3 DEF ClientTyped
  <2>5. PagingTyped'
    <3>1. page' \in Nat \ {0} /\ (page' - 1) * PageSize = 0 /\ fetched' \in 0 .. 0
      BY <2>1
    <3> QED
      BY <3>1, Zenon DEF PagingTyped
  <2> QED
    BY <2>1, <2>4, <2>5 DEF ServiceTyped, QueueTyped
<1>2. CASE ReadPage
  <2>1. /\ UNCHANGED <<files, arr, past, attempt, verdict>> /\ pc' \in Labels
        /\ tracked' \in {tracked, tracked \cup {attempt}} /\ (NoFault \/ Fault)
        /\ fetched' = fetched + Len(Rows) /\ page' = page + 1
    BY <1>2 DEF ReadPage, Continue, Labels
  <2>2. ClientTyped'
    BY <2>1, AttemptTypes DEF ClientTyped, NoFault
  <2>3. PagingTyped'
    <3> DEFINE r == Len(Rows)
               f == (page - 1) * PageSize
               g == page * PageSize
    <3>1. r \in Nat /\ r <= PageSize /\ f \in Nat /\ g = f + PageSize /\ fetched \in 0 .. f
          /\ page \in Nat \ {0}
      BY RowsShape DEF PagingTyped
    <3> HIDE DEF r, f, g
    <3>2. fetched + r \in 0 .. g
      BY <3>1, Parameters
    <3>3. page + 1 \in Nat \ {0} /\ (page + 1) - 1 = page
      BY <3>1
    <3> QED
      BY <2>1, <3>2, <3>3 DEF PagingTyped, r, g
  <2> QED
    BY <2>1, <2>2, <2>3 DEF ServiceTyped, QueueTyped
<1>3. CASE Client
  <2>1. ClientTyped'
    BY <1>3, ClientStep, AttemptTypes DEF ClientTyped, NoFault, Labels
  <2>2. PagingTyped' /\ QueueTyped'
    BY <1>3, ClientStep DEF PagingTyped, QueueTyped
  <2>3. ServiceTyped'
    BY <1>3, ClientStep DEF ServiceTyped, Outcomes
  <2> QED
    BY <2>1, <2>2, <2>3
<1>4. CASE Cleanup \/ RemoveSource
  <2>1. /\ pc' \in Labels /\ output' \in BOOLEAN /\ source' \in BOOLEAN
        /\ UNCHANGED <<item, arr, tracked, attempt, paging, verdict, bounds, during, past>>
    BY <1>4 DEF Cleanup, RemoveSource, Labels, ServiceTyped
  <2> QED
    BY <2>1 DEF ClientTyped, PagingTyped, ServiceTyped, QueueTyped
<1> QED
  BY <1>1, <1>2, <1>3, <1>4

\* What the service's steps do to the queue.
LEMMA UntrackedType ==
  ASSUME QueueTyped
  PROVE  \A q \in Untracked : q \in Seq(Records) /\ Len(q) <= MaxQueue
<1> SUFFICES ASSUME NEW q \in Untracked PROVE q \in Seq(Records) /\ Len(q) <= MaxQueue
  OBVIOUS
<1>1. queue \in Seq(Records) /\ Len(queue) <= MaxQueue /\ Len(queue) \in Nat
  BY DEF QueueTyped
<1>2. CASE q = queue
  BY <1>1, <1>2
<1>3. ASSUME NEW i \in DOMAIN queue, q = RemoveAt(queue, i) PROVE q \in Seq(Records) /\ Len(q) <= MaxQueue
  <2>1. i \in 1 .. Len(queue)
    BY <1>1
  <2>2. q \in Seq(Records) /\ Len(q) = Len(queue) - 1
    BY <1>1, <1>3, <2>1, RemoveAtShortens
  <2> QED
    BY <1>1, <2>2, Parameters
<1> QED
  BY <1>2, <1>3 DEF Untracked

\* The service keeps the types.
LEMMA ServiceTypes ==
  ASSUME TypeOK, (\E a \in Attempts : RunScan(a)) \/ AutoImport \/ LibraryChanges \/ QueueChanges
  PROVE  ClientTyped' /\ PagingTyped' /\ ServiceTyped' /\ QueueTyped'
<1> USE TypeParts
<1>1. ASSUME NEW a \in Attempts, RunScan(a)
      PROVE  ClientTyped' /\ PagingTyped' /\ ServiceTyped' /\ QueueTyped'
  <2>1. /\ UNCHANGED <<client, wanted>> /\ changes' = changes
        /\ faults' = faults \/ Fault
        /\ during' \in {during, during \cup {"departure"}, during \cup {"fault"}}
    BY <1>1 DEF RunScan, NoFault, Fault
  <2>2. ClientTyped' /\ PagingTyped'
    BY <2>1, AttemptTypes DEF ClientTyped, PagingTyped
  <2>3. /\ \E r \in Outcomes : scan' = [scan EXCEPT ![a] = r]
        /\ held' \in {held, "ours"} /\ output' \in {output, TRUE, FALSE}
        /\ past' \in {past, past \cup {"ours"}}
    BY <1>1 DEF RunScan, TakeFile, Outcomes
  <2>4. ServiceTyped'
    BY <2>1, <2>3 DEF ServiceTyped
  <2>5. queue' \in Untracked \/ queue' = queue
    BY <1>1 DEF RunScan
  <2>6. QueueTyped'
    BY <2>5, UntrackedType DEF QueueTyped
  <2> QED
    BY <2>2, <2>4, <2>6
<1>2. ASSUME NEW k \in {"library", "arrival", "departure"}, Change(k)
      PROVE  ClientTyped' /\ PagingTyped' /\ UNCHANGED <<item, source, scan>>
  <2>1. changes \in 0 .. MaxChanges /\ changes < MaxChanges /\ changes' = changes + 1
    BY <1>2 DEF Change, ClientTyped
  <2>2. changes' \in 0 .. MaxChanges
    BY <2>1, Parameters
  <2> QED
    BY <1>2, <2>2 DEF Change, ClientTyped, PagingTyped
<1>3. CASE AutoImport
  <2>1. ClientTyped' /\ PagingTyped' /\ UNCHANGED <<item, source, scan>>
    BY <1>2, <1>3 DEF AutoImport
  <2>2. ServiceTyped'
    BY <1>3, <2>1 DEF AutoImport, TakeFile, ServiceTyped
  <2>3. QueueTyped'
    <3>1. queue \in [1 .. Len(queue) -> Records] /\ Len(queue) \in Nat
      BY DEF QueueTyped
    <3>2. queue' = [i \in 1 .. Len(queue) |-> IF queue[i] = "ours" THEN "imported" ELSE queue[i]]
      BY <1>3, <3>1 DEF AutoImport
    <3>3. queue' \in [1 .. Len(queue) -> Records]
      BY <3>1, <3>2 DEF Records
    <3>4. queue' \in Seq(Records) /\ Len(queue') = Len(queue)
      BY <3>1, <3>3
    <3> QED
      BY <3>4 DEF QueueTyped
  <2> QED
    BY <2>1, <2>2, <2>3
<1>4. CASE LibraryChanges
  <2>1. ClientTyped' /\ PagingTyped' /\ UNCHANGED <<item, source, scan>>
    BY <1>2, <1>4 DEF LibraryChanges
  <2> QED
    BY <1>4, <2>1 DEF LibraryChanges, ServiceTyped, QueueTyped
<1>5. CASE QueueChanges
  <2>1. ClientTyped' /\ PagingTyped' /\ UNCHANGED <<item, source, scan>>
    BY <1>2, <1>5 DEF QueueChanges
  <2>2. ServiceTyped'
    BY <1>5, <2>1 DEF QueueChanges, ServiceTyped
  <2>3. queue \in Seq(Records) /\ Len(queue) <= MaxQueue /\ Len(queue) \in Nat
        /\ DOMAIN queue = 1 .. Len(queue)
    BY DEF QueueTyped
  <2>4. ASSUME NEW i \in 1 .. Len(queue) + 1, Len(queue) < MaxQueue, queue' = InsertAt(queue, i, "other")
        PROVE  QueueTyped'
    <3>1. queue' \in Seq(Records) /\ Len(queue') = Len(queue) + 1
      BY <2>3, <2>4, InsertAtMoves DEF Records
    <3> QED
      BY <2>3, <2>4, <3>1, Parameters DEF QueueTyped
  <2>5. ASSUME NEW i \in DOMAIN queue, queue' = RemoveAt(queue, i)
        PROVE  QueueTyped'
    <3>1. queue' \in Seq(Records) /\ Len(queue') = Len(queue) - 1
      BY <2>3, <2>5, RemoveAtShortens
    <3> QED
      BY <2>3, <3>1, Parameters DEF QueueTyped
  <2> QED
    BY <1>5, <2>1, <2>2, <2>4, <2>5 DEF QueueChanges
<1> QED
  BY <1>1, <1>3, <1>4, <1>5

\* Every step keeps the types.
LEMMA TypeStep ==
  ASSUME TypeOK, [Next]_vars
  PROVE  TypeOK'
<1>1. CASE UNCHANGED vars
  BY <1>1 DEF TypeOK
<1>2. CASE Lookup \/ ReadPage \/ Client \/ Cleanup \/ RemoveSource
  BY <1>2, ClientTypes, TypeParts DEF TypeOK, ClientTyped, PagingTyped, ServiceTyped, QueueTyped,
     Records, Labels, Outcomes
<1>3. CASE (\E a \in Attempts : RunScan(a)) \/ AutoImport \/ LibraryChanges \/ QueueChanges
  BY <1>3, ServiceTypes, TypeParts DEF TypeOK, ClientTyped, PagingTyped, ServiceTyped, QueueTyped,
     Records, Labels, Outcomes
<1> QED
  BY <1>1, <1>2, <1>3 DEF Next, Client

-----------------------------------------------------------------------------
(* What became of the files.                                               *)

\* The client touches nothing the history is about, but for the removals.
LEMMA ClientKeeps ==
  ASSUME TypeOK, Lookup \/ ReadPage \/ Client \/ Cleanup \/ RemoveSource
  PROVE  UNCHANGED <<item, wanted, held, queue>> /\ past \subseteq past'
<1>1. CASE Client
  BY <1>1, ClientStep
<1> QED
  BY <1>1 DEF Lookup, ReadPage, Cleanup, RemoveSource

\* What the service does to the library.
LEMMA ServiceKeeps ==
  ASSUME (\E a \in Attempts : RunScan(a)) \/ AutoImport \/ LibraryChanges \/ QueueChanges
  PROVE  /\ UNCHANGED client /\ past \subseteq past'
         /\ wanted' => wanted
         /\ \/ TakeFile /\ CanTake /\ wanted' = wanted
            \/ UNCHANGED <<held, output, past, wanted>>
            \/ LibraryChanges /\ output' = output
<1>1. CASE \E a \in Attempts : RunScan(a)
  <2>1. PICK a \in Attempts : RunScan(a)
    BY <1>1
  <2>2. UNCHANGED <<client, wanted>>
    BY <2>1 DEF RunScan
  <2>3. (TakeFile /\ CanTake) \/ UNCHANGED <<held, output, past>>
    BY <2>1 DEF RunScan
  <2> QED
    BY <2>2, <2>3 DEF TakeFile
<1>2. CASE AutoImport
  BY <1>2 DEF AutoImport, TakeFile, Change
<1>3. CASE LibraryChanges
  BY <1>3 DEF LibraryChanges, Change
<1>4. CASE QueueChanges
  BY <1>4 DEF QueueChanges, Change
<1> QED
  BY <1>1, <1>2, <1>3, <1>4

\* Every step keeps what the client remembers of the library true to what the library was.
LEMMA RememberedStep ==
  ASSUME ArrInv, [Next]_vars
  PROVE  Remembered'
<1> USE DEF ArrInv
<1>1. CASE UNCHANGED vars
  BY <1>1 DEF Remembered
<1>2. CASE Lookup \/ ReadPage \/ Client \/ Cleanup \/ RemoveSource
  BY <1>2, ClientKeeps DEF Remembered
<1>3. CASE (\E a \in Attempts : RunScan(a)) \/ AutoImport \/ LibraryChanges \/ QueueChanges
  <2>1. CASE TakeFile /\ CanTake /\ wanted' = wanted
    BY <2>1 DEF TakeFile, CanTake, Remembered
  <2>2. CASE UNCHANGED <<held, output, past, wanted>>
    BY <2>2 DEF Remembered
  <2>3. CASE LibraryChanges
    BY <2>3 DEF LibraryChanges, Remembered
  <2> QED
    BY <1>3, <2>1, <2>2, <2>3, ServiceKeeps
<1> QED
  BY <1>1, <1>2, <1>3 DEF Next, Client

\* An import is skipped only when the library no longer has the item, or has
\* a file as good, or the client finds no item by the name.
LEMMA SkipHasReason ==
  ASSUME ArrInv, Client, verdict' = "skipped", verdict # "skipped"
  PROVE  past' \cap {"ours", "better", "gone", "no name"} # {}
<1> USE DEF ArrInv
<1>1. CASE CheckWanted
  BY <1>1 DEF CheckWanted, Return, Continue, AttemptError, Found, Remembered
<1>2. CASE CheckRejected
  BY <1>2 DEF CheckRejected, Return, Continue, Remembered
<1>3. CASE PostScan \/ WaitScan \/ CheckSize \/ AttemptLost
  BY <1>3 DEF PostScan, WaitScan, CheckSize, AttemptLost, Return, Continue, AttemptError
<1> QED
  BY <1>1, <1>2, <1>3 DEF Client

\* Each step keeps a deleted output explained.
LEMMA LossExplainedStep ==
  ASSUME ArrInv, LossExplained, [Next]_vars
  PROVE  LossExplained'
<1> USE DEF ArrInv
<1>1. CASE UNCHANGED vars
  BY <1>1 DEF LossExplained
<1>2. CASE Client
  <2>1. output' = output /\ past \subseteq past'
    BY <1>2, ClientStep
  <2> QED
    BY <1>2, <2>1, SkipHasReason DEF LossExplained
<1>3. CASE Lookup \/ ReadPage
  BY <1>3 DEF Lookup, ReadPage, Continue, LossExplained
<1>4. CASE Cleanup \/ RemoveSource
  BY <1>4 DEF Cleanup, RemoveSource, LossExplained
<1>5. CASE (\E a \in Attempts : RunScan(a)) \/ AutoImport \/ LibraryChanges \/ QueueChanges
  <2>1. verdict' = verdict /\ past \subseteq past'
    BY <1>5, ServiceKeeps
  <2>2. CASE TakeFile
    BY <2>2 DEF TakeFile, LossExplained
  <2>3. CASE output' = output
    BY <2>1, <2>3 DEF LossExplained
  <2> QED
    BY <1>5, <2>2, <2>3, ServiceKeeps
<1> QED
  BY <1>1, <1>2, <1>3, <1>4, <1>5 DEF Next, Client

\* Every step keeps the record of what the service imported.
LEMMA ImportsStep ==
  ASSUME ArrInv, [Next]_vars
  PROVE  ImportsHappened'
<1> USE DEF ArrInv
<1>1. scan \in [Attempts -> Outcomes] /\ attempt \in Attempts
  BY TypeParts DEF ServiceTyped, ClientTyped
<1>2. CASE UNCHANGED vars
  BY <1>2 DEF ImportsHappened
<1>3. CASE Client
  <2>1. past \subseteq past' /\ scan' \in {scan, [scan EXCEPT ![attempt] = "queued"]}
    BY <1>3, ClientStep
  <2>2. \A a \in Attempts : scan'[a] = "successful" => "ours" \in past'
    BY <1>1, <2>1 DEF ImportsHappened
  <2>3. verdict' = "ok" => past' \cap {"ours", "no id", "no result"} # {}
    <3>1. CASE PostScan
      BY <3>1 DEF PostScan, Return, Continue, AttemptError, ImportsHappened
    <3>2. CASE WaitScan
      BY <1>1, <3>2 DEF WaitScan, Return, Continue, AttemptError, ImportsHappened
    <3>3. CASE CheckSize
      BY <3>3 DEF CheckSize, Return, Continue, AttemptError, ImportsHappened, Remembered
    <3>4. CASE CheckWanted \/ CheckRejected \/ AttemptLost
      BY <3>4 DEF CheckWanted, CheckRejected, AttemptLost, Return, Continue, AttemptError, ImportsHappened
    <3> QED
      BY <1>3, <3>1, <3>2, <3>3, <3>4 DEF Client
  <2> QED
    BY <2>2, <2>3 DEF ImportsHappened
<1>4. CASE Lookup \/ ReadPage
  BY <1>4 DEF Lookup, ReadPage, Continue, ImportsHappened
<1>5. CASE Cleanup \/ RemoveSource
  BY <1>5 DEF Cleanup, RemoveSource, ImportsHappened
<1>6. CASE \E a \in Attempts : RunScan(a)
  <2>1. PICK a \in Attempts : RunScan(a)
    BY <1>6
  <2>2. \/ scan' = [scan EXCEPT ![a] = "successful"] /\ past' = past \cup {"ours"}
        \/ /\ \E r \in {"unsuccessful", "vague", "failed"} : scan' = [scan EXCEPT ![a] = r]
           /\ past \subseteq past'
    BY <2>1 DEF RunScan, TakeFile
  <2>3. verdict' = verdict
    BY <2>1 DEF RunScan
  <2> QED
    BY <1>1, <2>2, <2>3 DEF ImportsHappened
<1>7. CASE AutoImport \/ LibraryChanges \/ QueueChanges
  <2>1. UNCHANGED <<scan, verdict>> /\ past \subseteq past'
    BY <1>7, ServiceKeeps DEF AutoImport, LibraryChanges, QueueChanges, Change
  <2> QED
    BY <2>1 DEF ImportsHappened
<1> QED
  BY <1>2, <1>3, <1>4, <1>5, <1>6, <1>7 DEF Next, Client

-----------------------------------------------------------------------------
(* The queue of the download.                                              *)

\* Every step keeps a pending download ahead of the pages read, or found.
LEMMA PendingStep ==
  ASSUME ArrInv, [Next]_vars
  PROVE  PendingAhead'
<1> USE DEF ArrInv
<1>1. queue \in Seq(Records) /\ Len(queue) \in Nat /\ DOMAIN queue = 1 .. Len(queue)
  BY TypeParts DEF QueueTyped
<1>2. CASE UNCHANGED vars
  BY <1>2 DEF PendingAhead, Found, Identified
<1>3. CASE Lookup
  <2>1. page' = 1 /\ (1 - 1) * PageSize = 0 /\ UNCHANGED <<item, wanted, queue>>
    BY <1>3, Parameters DEF Lookup
  <2>2. pc' = "page" \/ (pc' = "post" /\ (~ Found \/ during' = {"fault"}))
    BY <1>3 DEF Lookup, Continue
  <2>3. \A i \in DOMAIN queue : i > 0
    BY <1>1
  <2>4. \A i \in DOMAIN queue' : queue'[i] = "ours" => i > (page' - 1) * PageSize
    BY <2>1, <2>3
  <2> QED
    BY <2>1, <2>2, <2>4 DEF PendingAhead, Found, Identified
<1>4. CASE ReadPage
  <2>1. UNCHANGED <<item, wanted, queue, attempt>> /\ page' = page + 1 /\ during \subseteq during'
    BY <1>4 DEF ReadPage, Continue, NoFault, Fault
  <2>2. SUFFICES ASSUME Found, during' \cap {"fault", "departure"} = {}
                 PROVE  /\ pc' = "page" => \A i \in DOMAIN queue : queue[i] = "ours" => i > page * PageSize
                        /\ pc' = "post" => "ours" \notin ToSet(queue) \/ attempt \in tracked'
    <3>1. page \in Nat /\ (page + 1) - 1 = page
      BY TypeParts DEF PagingTyped
    <3>2. page' - 1 = page
      BY <2>1, <3>1
    <3> QED
      BY <2>1, <3>2, Zenon DEF PendingAhead, Found, Identified
  <2>3. \A i \in DOMAIN queue : queue[i] = "ours" => i > (page - 1) * PageSize
    BY <1>4, <2>1, <2>2 DEF PendingAhead, ReadPage
  <2>4. CASE "ours" \in ToSet(Rows)
    <3>1. pc' = "post" /\ attempt \in tracked'
      BY <1>4, <2>2, <2>4 DEF ReadPage, Continue, Fault
    <3> QED
      BY <3>1
  <2>5. CASE "ours" \notin ToSet(Rows)
    <3> DEFINE f == (page - 1) * PageSize
               g == page * PageSize
               n == Len(queue)
               r == Len(Rows)
    <3>1. \A i \in DOMAIN queue : queue[i] = "ours" => i > g
      BY <2>3, <2>5, RowsShape
    <3>2. CASE "ours" \in ToSet(queue)
      <4>1. PICK i \in 1 .. n : queue[i] = "ours"
        BY <1>1, <3>2 DEF ToSet
      <4>2. i > g /\ i <= n
        BY <1>1, <3>1, <4>1
      <4>3. f \in Nat /\ g = f + PageSize /\ r \in Nat /\ r <= PageSize /\ (f < n => Rows # <<>>)
        BY RowsShape
      <4>4. fetched \in 0 .. f
        BY <4>3, TypeParts DEF PagingTyped
      <4>5. fetched' = fetched + r
        BY <1>4 DEF ReadPage
      <4> HIDE DEF f, g, n, r
      <4>6. f < n /\ ~ (fetched' >= n)
        BY <1>1, <4>1, <4>2, <4>3, <4>4, <4>5, Parameters DEF n
      <4>7. pc' = "page"
        BY <1>4, <2>2, <2>5, <4>3, <4>6 DEF ReadPage, Continue, Fault, n
      <4> QED
        BY <3>1, <4>7 DEF g
    <3>3. CASE "ours" \notin ToSet(queue)
      BY <3>1, <3>3
    <3> QED
      BY <3>2, <3>3
  <2> QED
    BY <2>4, <2>5
<1>5. CASE Client \/ Cleanup \/ RemoveSource
  <2>1. pc' \notin {"page", "post"}
    BY <1>5, ClientStep, AttemptTypes DEF Cleanup, RemoveSource
  <2> QED
    BY <2>1 DEF PendingAhead
<1>6. CASE (\E a \in Attempts : RunScan(a)) \/ AutoImport \/ LibraryChanges \/ QueueChanges
  <2>1. UNCHANGED <<item, pc, attempt, page, tracked>> /\ (wanted' => wanted)
    BY <1>6, ServiceKeeps
  <2>2. during \subseteq during'
    BY <1>6 DEF RunScan, AutoImport, LibraryChanges, QueueChanges, Change, NoFault, Fault
  <2>3. ASSUME \A i \in DOMAIN queue' : queue'[i] = "ours" =>
                 \E j \in DOMAIN queue : queue[j] = "ours" /\ j <= i /\ i \in Nat /\ j \in Nat
        PROVE  PendingAhead'
    <3> SUFFICES ASSUME Found', during' \cap {"fault", "departure"} = {}
                 PROVE  /\ pc = "page" => \A i \in DOMAIN queue' : queue'[i] = "ours" => i > (page - 1) * PageSize
                        /\ pc = "post" => "ours" \notin ToSet(queue') \/ attempt \in tracked
      BY <2>1, Zenon DEF PendingAhead
    <3>1. /\ pc = "page" => \A i \in DOMAIN queue : queue[i] = "ours" => i > (page - 1) * PageSize
          /\ pc = "post" => "ours" \notin ToSet(queue) \/ attempt \in tracked
      <4>1. Found /\ during \cap {"fault", "departure"} = {}
        BY <2>1, <2>2 DEF Found, Identified
      <4> QED
        BY <4>1 DEF PendingAhead
    <3>2. "ours" \in ToSet(queue') => "ours" \in ToSet(queue)
      BY <2>3 DEF ToSet
    <3>3. (page - 1) * PageSize \in Nat
      BY RowsShape
    <3> DEFINE f == (page - 1) * PageSize
    <3> HIDE DEF f
    <3>4. ASSUME NEW i \in DOMAIN queue', queue'[i] = "ours", pc = "page" PROVE i > f
      <4>1. PICK j \in DOMAIN queue : queue[j] = "ours" /\ j <= i /\ i \in Nat /\ j \in Nat
        BY <2>3, <3>4
      <4>2. j > f /\ f \in Nat
        BY <3>1, <3>3, <3>4, <4>1 DEF f
      <4> QED
        BY <4>1, <4>2
    <3> QED
      BY <3>1, <3>2, <3>4 DEF f
  <2>4. CASE UNCHANGED queue
    BY <1>1, <2>3, <2>4
  <2>5. CASE during' \cap {"fault", "departure"} # {}
    BY <2>5 DEF PendingAhead
  <2>6. CASE AutoImport
    <3>1. \A i \in DOMAIN queue' : queue'[i] # "ours"
      BY <2>6 DEF AutoImport
    <3> QED
      BY <2>3, <3>1
  <2>7. CASE QueueChanges
    <3>1. CASE \E i \in 1 .. (Len(queue) + 1) : queue' = InsertAt(queue, i, "other")
      <4>1. PICK i \in 1 .. (Len(queue) + 1) : queue' = InsertAt(queue, i, "other")
        BY <3>1
      <4>2. "other" \in Records
        BY DEF Records
      <4> DEFINE n == Len(queue)
                 q == queue'
                 ins == InsertAt(queue, i, "other")
      <4>3. /\ q \in Seq(Records) /\ Len(q) = n + 1
            /\ \A k \in 1 .. n + 1 :
                 q[k] = IF k < i THEN queue[k] ELSE IF k = i THEN "other" ELSE queue[k - 1]
        <5>1. /\ ins \in Seq(Records) /\ Len(ins) = Len(queue) + 1
              /\ \A k \in 1 .. Len(queue) + 1 :
                   ins[k] = IF k < i THEN queue[k] ELSE IF k = i THEN "other" ELSE queue[k - 1]
          BY <1>1, <4>2, InsertAtMoves
        <5> HIDE DEF ins
        <5>2. q = ins
          BY <4>1 DEF ins
        <5> QED
          BY <5>1, <5>2
      <4>4. DOMAIN q = 1 .. n + 1
        BY <4>3
      <4>5. n \in Nat /\ i \in 1 .. n + 1
        BY <1>1
      <4> HIDE DEF n, q
      <4>6. ASSUME NEW k \in DOMAIN q, q[k] = "ours"
            PROVE  \E j \in 1 .. n : queue[j] = "ours" /\ j <= k /\ k \in Nat /\ j \in Nat
        <5>1. k \in 1 .. n + 1 /\ k \in Nat
          BY <4>4, <4>5, <4>6
        <5>2. CASE k < i
          <6>1. k \in 1 .. n /\ queue[k] = "ours" /\ k <= k
            BY <4>3, <4>5, <4>6, <5>1, <5>2
          <6> QED
            BY <5>1, <6>1
        <5>3. CASE k > i
          <6>1. k - 1 \in 1 .. n /\ k - 1 <= k /\ k - 1 \in Nat
            BY <4>5, <5>1, <5>3
          <6>2. queue[k - 1] = "ours"
            BY <4>3, <4>5, <4>6, <5>1, <5>3
          <6> QED
            BY <5>1, <6>1, <6>2
        <5>4. k # i
          BY <4>3, <4>5, <4>6, <5>1
        <5> QED
          BY <4>5, <5>1, <5>2, <5>3, <5>4
      <4> QED
        BY <1>1, <2>3, <4>6 DEF n, q
    <3>2. CASE during' \cap {"fault", "departure"} # {}
      BY <2>5, <3>2
    <3> QED
      BY <2>7, <3>1, <3>2 DEF QueueChanges, Change
  <2>8. CASE LibraryChanges
    BY <2>4, <2>8 DEF LibraryChanges
  <2>9. CASE \E a \in Attempts : RunScan(a)
    BY <2>4, <2>5, <2>9 DEF RunScan, Fault
  <2> QED
    BY <1>6, <2>6, <2>7, <2>8, <2>9
<1> QED
  BY <1>2, <1>3, <1>4, <1>5, <1>6 DEF Next, Client

-----------------------------------------------------------------------------
(* The scan of an attempt.                                                 *)

\* Every step keeps a scan with the attempt that posted it.
LEMMA ScanStep ==
  ASSUME ArrInv, [Next]_vars
  PROVE  ScanOfAttempt'
<1> USE DEF ArrInv
<1>1. scan \in [Attempts -> Outcomes] /\ attempt \in 1 .. MaxAttempts /\ MaxAttempts \in Nat
  BY TypeParts, Parameters DEF ServiceTyped, ClientTyped
<1>2. CASE UNCHANGED vars
  BY <1>2 DEF ScanOfAttempt
<1>3. CASE Client
  <2>1. scan' \in {scan, [scan EXCEPT ![attempt] = "queued"]}
    BY <1>3, ClientStep
  <2>2. \A a \in Attempts : a > attempt => scan'[a] = "none"
    BY <1>1, <2>1 DEF ScanOfAttempt
  <2>3. CASE AttemptError
    <3>1. \/ attempt' = attempt + 1 /\ pc' = "lookup"
          \/ attempt' = attempt /\ pc' = "end"
      BY <2>3, AttemptTypes
    <3>2. \A a \in Attempts : a > attempt' => a > attempt
      BY <1>1, <3>1
    <3>3. pc' = "lookup" => scan'[attempt'] = "none"
      <4>1. CASE attempt' = attempt + 1
        <5>1. attempt' \in Attempts
          BY <2>3, AttemptTypes
        <5> QED
          BY <1>1, <2>2, <4>1, <5>1
      <4> QED
        BY <3>1, <4>1
    <3> QED
      BY <2>2, <3>1, <3>2, <3>3 DEF ScanOfAttempt
  <2>4. CASE ~ AttemptError
    <3>1. UNCHANGED attempt /\ pc' \in {"wait", "recheck", "reject", "size", "cleanup"}
      BY <1>3, <2>4, ClientStep
    <3>2. pc' \in {"recheck", "reject", "size"} => scan'[attempt] = "unsuccessful"
      <4>1. CASE PostScan
        BY <2>4, <4>1 DEF PostScan, Continue, Return
      <4>2. CASE WaitScan
        BY <2>4, <4>2 DEF WaitScan, Continue, Return
      <4>3. CASE CheckWanted \/ CheckRejected \/ CheckSize \/ AttemptLost
        BY <2>4, <4>3 DEF CheckWanted, CheckRejected, CheckSize, AttemptLost, Continue, Return, ScanOfAttempt
      <4> QED
        BY <1>3, <4>1, <4>2, <4>3 DEF Client
    <3> QED
      BY <2>2, <3>1, <3>2 DEF ScanOfAttempt
  <2> QED
    BY <2>3, <2>4
<1>4. CASE Lookup \/ ReadPage
  BY <1>4 DEF Lookup, ReadPage, Continue, ScanOfAttempt
<1>5. CASE Cleanup \/ RemoveSource
  BY <1>5 DEF Cleanup, RemoveSource, ScanOfAttempt
<1>6. CASE \E a \in Attempts : RunScan(a)
  <2>1. PICK a \in Attempts : RunScan(a)
    BY <1>6
  <2>2. scan[a] = "queued" /\ UNCHANGED <<pc, attempt>> /\ \E r \in Outcomes : scan' = [scan EXCEPT ![a] = r]
    BY <2>1 DEF RunScan, Outcomes
  <2>3. \A b \in Attempts : scan[b] # "queued" => scan'[b] = scan[b]
    BY <1>1, <2>2
  <2>4. attempt \in Attempts
    BY <1>1
  <2> QED
    BY <2>2, <2>3, <2>4 DEF ScanOfAttempt
<1>7. CASE AutoImport \/ LibraryChanges \/ QueueChanges
  BY <1>7 DEF AutoImport, LibraryChanges, QueueChanges, Change, ScanOfAttempt
<1> QED
  BY <1>2, <1>3, <1>4, <1>5, <1>6, <1>7 DEF Next, Client

\* Every step keeps a quiet attempt quiet.
LEMMA QuietStep ==
  ASSUME ArrInv, [Next]_vars
  PROVE  QuietAttempt'
<1> USE DEF ArrInv
<1>1. scan \in [Attempts -> Outcomes] /\ attempt \in Attempts
  BY TypeParts DEF ServiceTyped, ClientTyped
<1>2. CASE UNCHANGED vars
  BY <1>2 DEF QuietAttempt, Found, Identified
<1>3. ASSUME Client, during' = {} PROVE QuietAttempt'
  <2>1. NoFault /\ during = {} /\ UNCHANGED <<files, wanted, held>>
    <3>1. ~ Fault
      BY <1>3 DEF Fault
    <3> QED
      BY <1>3, <3>1, ClientStep DEF NoFault
  <2>2. UNCHANGED <<Found, item>>
    BY <2>1 DEF Found, Identified
  <2>3. CASE AttemptError
    BY <2>3, AttemptTypes DEF QuietAttempt
  <2>4. CASE ~ AttemptError
    <3> USE <2>1, <2>2, <2>4
    <3>1. ~ Fault
      BY <1>3 DEF Fault
    <3>2. CASE PostScan
      BY <1>1, <3>1, <3>2 DEF PostScan, Continue, Return, QuietAttempt
    <3>3. CASE WaitScan
      <4>1. UNCHANGED <<scan, attempt>>
            /\ (pc' = "cleanup" \/ (pc = "wait" /\ pc' = "recheck" /\ scan[attempt] = "unsuccessful"))
        BY <3>1, <3>3 DEF WaitScan, Continue, Return
      <4> QED
        BY <4>1 DEF QuietAttempt
    <3>4. CASE CheckWanted
      <4>1. UNCHANGED <<scan, attempt>>
            /\ (pc' = "cleanup" \/ (pc = "recheck" /\ pc' = "reject" /\ Found))
        BY <3>1, <3>4 DEF CheckWanted, Continue, Return
      <4> QED
        BY <4>1 DEF QuietAttempt
    <3>5. CASE CheckRejected
      <4>1. Found /\ pc = "reject" /\ scan[attempt] = "unsuccessful"
        BY <3>5 DEF CheckRejected, QuietAttempt, ScanOfAttempt
      <4>2. Known
        BY <4>1 DEF Known, Found
      <4>3. UNCHANGED <<scan, attempt>>
            /\ (pc' = "cleanup" \/ (pc' = "size" /\ ~ (output /\ held \in AsGood)))
        BY <3>1, <3>5, <4>2 DEF CheckRejected, Continue, Return
      <4> QED
        BY <4>1, <4>3 DEF QuietAttempt
    <3>6. CASE CheckSize \/ AttemptLost
      BY <3>1, <3>6 DEF CheckSize, AttemptLost, Continue, Return, QuietAttempt
    <3> QED
      BY <1>3, <3>2, <3>3, <3>4, <3>5, <3>6 DEF Client
  <2> QED
    BY <2>3, <2>4
<1>4. CASE Lookup \/ ReadPage \/ Cleanup \/ RemoveSource
  BY <1>4 DEF Lookup, ReadPage, Cleanup, RemoveSource, Continue, QuietAttempt
<1>5. ASSUME NEW a \in Attempts, RunScan(a), during' = {} PROVE QuietAttempt'
  <2>1. UNCHANGED <<client, wanted, Found>> /\ scan[a] = "queued"
    BY <1>5 DEF RunScan, Found, Identified
  <2>2. ~ Fault
    BY <1>5 DEF Fault
  <2>3. CASE TakeFile /\ CanTake /\ scan' = [scan EXCEPT ![a] = "successful"]
    <3>1. during = {}
      BY <1>5, <2>2 DEF RunScan, NoFault
    <3>2. pc # "size"
      BY <2>3, <3>1 DEF CanTake, QuietAttempt
    <3>3. scan'[attempt] \in {scan[attempt], "successful"}
      BY <1>1, <2>3
    <3> QED
      BY <2>1, <2>3, <3>1, <3>2, <3>3 DEF QuietAttempt, TakeFile
  <2>4. CASE /\ ~ (CanTake /\ Known)
             /\ scan' = [scan EXCEPT ![a] = "unsuccessful"]
             /\ UNCHANGED <<held, output, during>>
    <3>1. Found => ~ output \/ held \in AsGood
      BY <2>4 DEF Known, CanTake, Found
    <3>2. scan'[attempt] \in {scan[attempt], "unsuccessful"}
      BY <1>1, <2>4
    <3> QED
      BY <1>5, <2>1, <2>4, <3>1, <3>2 DEF QuietAttempt
  <2> QED
    BY <1>5, <2>2, <2>3, <2>4 DEF RunScan, NoFault
<1>6. CASE AutoImport \/ LibraryChanges \/ QueueChanges
  BY <1>6 DEF AutoImport, LibraryChanges, QueueChanges, Change, QuietAttempt
<1>7. during' # {} => QuietAttempt'
  BY DEF QuietAttempt
<1> QED
  BY <1>2, <1>3, <1>4, <1>5, <1>6, <1>7 DEF Next, Client

-----------------------------------------------------------------------------
(* The theorems.                                                           *)

\* The inductive invariant.
THEOREM ArrInvariance == Spec => []ArrInv
<1>1. Init => ArrInv
  BY InitArrInv
<1>2. ArrInv /\ [Next]_vars => ArrInv'
  BY TypeStep, RememberedStep, ImportsStep, PendingStep, ScanStep, QuietStep DEF ArrInv
<1> QED
  BY <1>1, <1>2, PTL DEF Spec

\* The type invariant: the pages read hold no fewer places than were counted
\* (findTrackedDownloadID).
THEOREM ArrTypeCorrect == Spec => []TypeOK
  BY ArrInvariance, PTL DEF ArrInv

\* The name of the file has not led the client astray.
NameHeld == "no name" \notin past

\* A name that can be looked up never does.
LEMMA NameHeldStep ==
  ASSUME ArrInv, NameHeld, [Next]_vars, Identified
  PROVE  NameHeld'
<1>1. CASE CheckWanted
  BY <1>1 DEF NameHeld, CheckWanted, Found
<1>2. CASE PostScan \/ WaitScan \/ CheckRejected \/ CheckSize \/ AttemptLost
  <2>1. \A x \in past' : x \in past \/ x = "no id" \/ x = "no result"
    BY <1>2 DEF PostScan, WaitScan, CheckRejected, CheckSize, AttemptLost
  <2> QED
    BY <2>1 DEF NameHeld
<1>3. CASE UNCHANGED vars \/ Lookup \/ ReadPage \/ Cleanup \/ RemoveSource
  BY <1>3 DEF Lookup, ReadPage, Cleanup, RemoveSource, NameHeld
<1>4. CASE (\E a \in Attempts : RunScan(a)) \/ AutoImport \/ LibraryChanges \/ QueueChanges
  <2>1. \A x \in past' : x \in past \/ x = "ours" \/ x = "gone" \/ x = "better"
    BY <1>4 DEF RunScan, AutoImport, LibraryChanges, QueueChanges, TakeFile
  <2> QED
    BY <2>1 DEF NameHeld
<1> QED
  BY <1>1, <1>2, <1>3, <1>4 DEF Next

\* Where the item of every file can be named, source and transcode are not
\* both deleted without a reason (ImportByFilePath, Notify, Cleanup).
THEOREM NothingIsLost ==
  ASSUME \A i \in Items : "file" \in i.named \/ (i.service = "radarr" /\ "folder" \in i.named)
  PROVE  Spec => []NothingLost
<1>1. TypeOK => Identified
  BY TypeParts DEF ServiceTyped, Identified
<1>2. Init => LossExplained /\ NameHeld
  BY InitArrInv DEF Init, NameHeld
<1>3. ArrInv /\ LossExplained /\ NameHeld /\ [Next]_vars => LossExplained' /\ NameHeld'
  BY <1>1, LossExplainedStep, NameHeldStep DEF ArrInv
<1>4. LossExplained /\ NameHeld => NothingLost
  BY DEF LossExplained, NameHeld, NothingLost, Reasons
<1> QED
  BY <1>2, <1>3, <1>4, ArrInvariance, PTL DEF Spec

\* Notify reports an import only when there was one, or was told nothing: an
\* answer without a command id, or a completed scan without a result
\* (ImportByFilePath, Wait).
THEOREM ImportIsReal == Spec => []SuccessIsImport
<1>1. ArrInv => SuccessIsImport
  BY DEF ArrInv, ImportsHappened, SuccessIsImport
<1> QED
  BY <1>1, ArrInvariance, PTL

\* Whatever enters the queue while it is read page by page, for every page
\* size, a pending download is found (findTrackedDownloadID).
THEOREM PendingIsFound == Spec => []PendingDownloadFound
<1>1. ArrInv => PendingDownloadFound
  BY DEF ArrInv, PendingAhead, PendingDownloadFound
<1> QED
  BY <1>1, ArrInvariance, PTL

\* An undisturbed attempt that fails had nothing left to import
\* (ImportByFilePath).
THEOREM RetriesAreUseful == Spec => RetryIsUseful
<1> DEFINE Useful == AttemptFails /\ during' = {} => ~ output /\ held # "ours"
<1>1. ASSUME ArrInv, Next, AttemptFails, during' = {} PROVE ~ output /\ held # "ours"
  <2>1. ~ Fault
    BY <1>1 DEF Fault
  <2>2. Client
    BY <1>1 DEF Next, Client, AttemptFails, Lookup, ReadPage, Cleanup, RemoveSource, RunScan,
                AutoImport, LibraryChanges, QueueChanges, Change, Continue
  <2>3. NoFault /\ during = {}
    BY <1>1, <2>1, <2>2, ClientStep DEF NoFault, ArrInv
  <2>4. CASE PostScan
    BY <1>1, <2>1, <2>4 DEF PostScan, Continue, Return, AttemptFails
  <2>5. CASE WaitScan
    BY <1>1, <2>1, <2>3, <2>5 DEF WaitScan, Continue, Return, AttemptFails, ArrInv, QuietAttempt
  <2>6. CASE CheckWanted \/ CheckRejected
    BY <1>1, <2>1, <2>6 DEF CheckWanted, CheckRejected, Continue, Return, AttemptFails
  <2>7. CASE CheckSize
    BY <1>1, <2>1, <2>3, <2>7 DEF CheckSize, Continue, Return, AttemptFails, ArrInv, QuietAttempt
  <2>8. CASE AttemptLost
    BY <2>1, <2>8 DEF AttemptLost
  <2> QED
    BY <2>2, <2>4, <2>5, <2>6, <2>7, <2>8 DEF Client
<1>2. ArrInv /\ [Next]_vars => [Useful]_vars
  BY <1>1
<1> QED
  BY <1>2, ArrInvariance, PTL DEF Spec, RetryIsUseful

-----------------------------------------------------------------------------
(* The ledger.                                                             *)

\* The source is retired after an answer of Notify.
Answered == pc \in {"cleanup", "retire"} => verdict \in {"ok", "skipped"}

\* Only an answer of the client starts the cleanup.
LEMMA AnsweredStep ==
  ASSUME ArrInv, Answered, [Next]_vars
  PROVE  Answered'
<1>1. CASE UNCHANGED vars
  BY <1>1 DEF Answered
<1>2. CASE Client
  BY <1>2, ClientStep, AttemptTypes DEF ArrInv, Answered
<1>3. CASE Lookup \/ ReadPage \/ Cleanup \/ RemoveSource
  BY <1>3 DEF Lookup, ReadPage, Cleanup, RemoveSource, Continue, Answered
<1>4. CASE (\E a \in Attempts : RunScan(a)) \/ AutoImport \/ LibraryChanges \/ QueueChanges
  BY <1>4 DEF RunScan, AutoImport, LibraryChanges, QueueChanges, Change, Answered
<1> QED
  BY <1>1, <1>2, <1>3, <1>4 DEF Next, Client

\* The client takes the item for settled without knowing it.
Doubted == past \cap Doubts # {}

\* What a step of the files and of the history is in the ledger.
LEMMA LedgerEntry ==
  ASSUME output \in BOOLEAN, output' \in BOOLEAN, source' = source, Doubted' = Doubted,
         Reasons # {} => Reasons' # {},
         output' => output,
         output /\ ~ output' => Reasons' # {} \/ Doubted
  PROVE  [Ledger!Next]_(Ledger!vars)
<1> DEFINE O == IF output THEN {"output"} ELSE {}
           S == IF Reasons # {} THEN {"output"} ELSE {}
           P == IF past \cap Doubts # {} THEN {"output"} ELSE {}
           R == IF source THEN {} ELSE {"file"}
<1>1. R' = R /\ P' = P
  BY DEF Doubted
<1>2. CASE Reasons' = {} \/ Reasons # {}
  <2>1. S' = S
    BY <1>2
  <2>2. CASE output' = output
    BY <1>1, <2>1, <2>2 DEF Ledger!vars, Ledger!retired
  <2>3. CASE output /\ ~ output'
    <3>1. Reasons # {} \/ Doubted
      BY <1>2, <2>3
    <3>2. Ledger!Discard("output")
      BY <1>1, <2>1, <2>3, <3>1 DEF Ledger!Discard, Ledger!retired, Doubted
    <3> QED
      BY <3>2 DEF Ledger!Next
  <2> QED
    BY <2>2, <2>3
<1>3. CASE Reasons = {} /\ Reasons' # {}
  <2>1. S = {} /\ S' = {"output"}
    BY <1>3
  <2>2. CASE output' = output
    <3>1. Ledger!Settle("output")
      BY <1>1, <2>1, <2>2 DEF Ledger!Settle, Ledger!retired
    <3> QED
      BY <3>1 DEF Ledger!Next
  <2>3. CASE output /\ ~ output'
    <3>1. Ledger!Take("output")
      BY <1>1, <2>1, <2>3 DEF Ledger!Take, Ledger!retired
    <3> QED
      BY <3>1 DEF Ledger!Next
  <2> QED
    BY <2>2, <2>3
<1> QED
  BY <1>2, <1>3

\* What a step of the client is in the ledger: nothing, or the item is from
\* now on taken for settled.
LEMMA DoubtEntry ==
  ASSUME UNCHANGED <<output, source>>, NEW d \in SUBSET Doubts, past' = past \cup d
  PROVE  [Ledger!Next]_(Ledger!vars)
<1>1. Reasons' = Reasons
  BY DEF Reasons
<1>2. CASE Doubted' = Doubted
  BY <1>1, <1>2 DEF Ledger!vars, Ledger!retired, Doubted
<1>3. CASE Doubted' # Doubted
  <2>1. ~ Doubted /\ Doubted'
    BY <1>3 DEF Doubted
  <2>2. Ledger!Presume("output")
    BY <1>1, <2>1 DEF Ledger!Presume, Ledger!retired, Doubted
  <2> QED
    BY <2>2 DEF Ledger!Next
<1> QED
  BY <1>2, <1>3

\* Each step of an import is an entry in the ledger, however scans, retries
\* and the service's own imports interleave, and whatever the client is told
\* (ImportByFilePath, Wait, Notify, Cleanup).
THEOREM ImportKeepsLedger == Spec => KeepsLedger
<1>1. Init => LossExplained /\ Answered
  BY InitArrInv DEF Init, Answered
<1>2. ArrInv /\ LossExplained /\ Answered /\ [Next]_vars => LossExplained' /\ Answered'
  BY LossExplainedStep, AnsweredStep
<1>3. ASSUME ArrInv, ArrInv', LossExplained, Answered, [Next]_vars
      PROVE  [Ledger!Next]_(Ledger!vars)
  <2>1. output \in BOOLEAN /\ output' \in BOOLEAN /\ source \in BOOLEAN
    BY <1>3 DEF ArrInv, TypeOK
  <2>2. CASE RemoveSource
    <3>1. /\ source' = FALSE /\ UNCHANGED <<output, past>>
          /\ verdict \in {"ok", "skipped"}
      BY <1>3, <2>2 DEF RemoveSource, Answered
    <3>2. Reasons # {} \/ Doubted
      BY <1>3, <3>1 DEF ArrInv, ImportsHappened, LossExplained, Reasons, Doubted
    <3>3. CASE source
      <4>1. Ledger!Delete("file")
        BY <3>1, <3>2, <3>3 DEF Ledger!Delete, Ledger!Expendable, Ledger!retired, Reasons, Doubted
      <4> QED
        BY <4>1 DEF Ledger!Next
    <3>4. CASE ~ source
      BY <2>1, <3>1, <3>4 DEF Ledger!vars, Ledger!retired, Reasons
    <3> QED
      BY <2>1, <3>3, <3>4
  <2>3. CASE Client
    <3>1. UNCHANGED <<output, source>>
          /\ past' \in {past, past \cup {"no id"}, past \cup {"no result"}, past \cup {"no name"}}
      BY <1>3, <2>3, ClientStep DEF ArrInv
    <3>2. \E d \in SUBSET Doubts : past' = past \cup d
      <4>1. \A d \in {{}, {"no id"}, {"no result"}, {"no name"}} : d \in SUBSET Doubts
        OBVIOUS
      <4> QED
        BY <3>1, <4>1
    <3> QED
      BY <3>1, <3>2, DoubtEntry
  <2>4. CASE UNCHANGED vars \/ Lookup \/ ReadPage
    <3>1. UNCHANGED <<output, source, past>>
      BY <2>4 DEF Lookup, ReadPage
    <3> QED
      BY <2>1, <3>1, LedgerEntry DEF Reasons, Doubted
  <2>5. CASE Cleanup
    <3>1. UNCHANGED <<source, past>> /\ (output' => output)
          /\ (output /\ ~ output' => verdict = "skipped")
      BY <2>1, <2>5 DEF Cleanup
    <3>2. output /\ ~ output' => Reasons # {} \/ Doubted
      BY <1>3, <3>1 DEF LossExplained, Reasons, Doubted
    <3>3. Reasons' = Reasons /\ Doubted' = Doubted
      BY <3>1 DEF Reasons, Doubted
    <3> QED
      BY <2>1, <3>1, <3>2, <3>3, LedgerEntry
  <2>6. CASE (\E a \in Attempts : RunScan(a)) \/ AutoImport \/ LibraryChanges \/ QueueChanges
    <3>1. past \subseteq past' /\ source' = source /\ Doubted' = Doubted
      <4>1. past' \in {past, past \cup {"ours"}, past \cup {"gone"}, past \cup {"better"}}
        BY <2>6 DEF RunScan, AutoImport, LibraryChanges, QueueChanges, TakeFile
      <4>2. source' = source
        BY <2>6, ServiceKeeps
      <4> QED
        BY <4>1, <4>2 DEF Doubted
    <3>2. output' = output \/ (TakeFile /\ output)
      BY <2>6 DEF RunScan, AutoImport, LibraryChanges, QueueChanges, CanTake
    <3>3. TakeFile => Reasons' # {}
      BY DEF TakeFile, Reasons
    <3>4. Reasons # {} => Reasons' # {}
      BY <3>1 DEF Reasons
    <3> QED
      BY <2>1, <3>1, <3>2, <3>3, <3>4, LedgerEntry
  <2> QED
    BY <1>3, <2>2, <2>3, <2>4, <2>5, <2>6 DEF Next, Client
<1> QED
  BY <1>1, <1>2, <1>3, ArrInvariance, PTL DEF Spec, KeepsLedger
=============================================================================
