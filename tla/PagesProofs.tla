---------------------------- MODULE PagesProofs ----------------------------
(***************************************************************************)
(* Proofs about Pages, for any clients, tables, windows and bounds: what   *)
(* the answers of one page say about one another although the daemon       *)
(* writes, prunes and migrates between the SELECTs they come from.         *)
(***************************************************************************)
EXTENDS Pages, FiniteSetTheorems, WellFoundedInduction, TLAPS

----------------------------------------------------------------------------
(* Finite sets: the largest number of one, and the sum over one.           *)

Family(Wrong, S) == IsFiniteSet(S) /\ Wrong \subseteq SUBSET S /\ Wrong # {}

\* Among subsets of a finite set there is a smallest one.
LEMMA SmallestSubset ==
  ASSUME NEW S, NEW Wrong, Family(Wrong, S)
  PROVE  \E T \in Wrong : \A U \in Wrong : U \subseteq T => U = T
<1>1. Wrong \subseteq FiniteSubsetsOf(S) /\ Wrong # {}
  BY FS_FiniteSubsetsOfFinite DEF Family
<1>2. PICK T \in Wrong : \A U \in Wrong : <<U, T>> \notin StrictSubsetOrdering(S)
  BY <1>1, FS_StrictSubsetOrderingWellFounded, WFMin
<1>3. ASSUME NEW U \in Wrong, U \subseteq T PROVE U = T
  <2>1. U # T => <<U, T>> \in StrictSubsetOrdering(S)
    <3>1. U \in SUBSET S /\ T \in SUBSET S
      BY DEF Family
    <3>2. QED
      BY <1>3, <3>1 DEF StrictSubsetOrdering
  <2>2. QED
    BY <1>2, <2>1
<1>4. QED
  BY <1>3

\* MAX(...): the largest of finitely many numbers is one of them.
LEMMA MaxIs ==
  ASSUME NEW S, S \subseteq Int, IsFiniteSet(S), S # {}
  PROVE  Max(S) \in S /\ \A x \in S : x <= Max(S)
<1> DEFINE Largest(T) == {m \in T : \A x \in T : x <= m}
<1>1. PICK Wrong : Wrong = {T \in SUBSET S : T # {} /\ Largest(T) = {}}
  OBVIOUS
<1>2. Wrong = {}
  <2>1. SUFFICES ASSUME Wrong # {} PROVE FALSE
    OBVIOUS
  <2>2. PICK T \in Wrong : \A U \in Wrong : U \subseteq T => U = T
    <3>1. Family(Wrong, S)
      BY <1>1, <2>1 DEF Family
    <3>2. QED
      BY <3>1, SmallestSubset
  <2>3. PICK t : t \in T
    BY <1>1
  <2>4. PICK U : U = T \ {t}
    OBVIOUS
  <2>5. T \in SUBSET S /\ t \in Int /\ Largest(T) = {} /\ U \notin Wrong
    BY <1>1, <2>2, <2>3, <2>4
  <2>6. CASE U = {}
    <3>1. t \in Largest(T)
      BY <2>3, <2>4, <2>5, <2>6
    <3>2. QED
      BY <2>5, <3>1
  <2>7. CASE U # {}
    <3>1. PICK m : m \in Largest(U)
      BY <1>1, <2>4, <2>5, <2>7
    <3>2. (IF m <= t THEN t ELSE m) \in Largest(T)
      BY <2>3, <2>4, <2>5, <3>1
    <3>3. QED
      BY <2>5, <3>2
  <2>8. QED
    BY <2>6, <2>7
<1>3. \E m \in S : \A x \in S : x <= m
  BY <1>1, <1>2
<1>4. \E m \in S : \A x \in S : m >= x
  BY <1>3
<1>5. Max(S) \in S /\ \A x \in S : Max(S) >= x
  BY <1>4 DEF Max
<1>6. QED
  BY <1>5

\* What the folds of the library compute over the subsets of S.
Summing(iter, S, w) ==
  iter = [s \in SUBSET S |->
            IF s = {} THEN 0
            ELSE w[CHOOSE x \in s : TRUE] + iter[s \ {CHOOSE x \in s : TRUE}]]

\* b puts each of K in one of the groups S, and w counts the groups.
Counted(S, K, b, w) ==
  /\ IsFiniteSet(S) /\ IsFiniteSet(K) /\ b \in [K -> S]
  /\ \A x \in S : w[x] = Cardinality({k \in K : b[k] = x})

\* Counting by groups and adding up counts everything.
LEMMA SumByGroup ==
  ASSUME NEW S, NEW K, NEW b, NEW w, Counted(S, K, b, w)
  PROVE  /\ \E iter : Summing(iter, S, w)
         /\ \A iter : Summing(iter, S, w) => iter[S] = Cardinality(K)
<1> USE DEF Counted
<1> DEFINE Of(s) == {k \in K : b[k] \in s}
<1>1. ASSUME NEW s \in SUBSET S, s # {}, NEW x \in s
      PROVE  Cardinality(Of(s)) = w[x] + Cardinality(Of(s \ {x}))
  <2>1. PICK A : A = {k \in K : b[k] = x}
    OBVIOUS
  <2>2. PICK B : B = Of(s \ {x})
    OBVIOUS
  <2>3. Of(s) = A \cup B /\ A \cap B = {} /\ A \in SUBSET K /\ B \in SUBSET K
    BY <1>1, <2>1, <2>2
  <2>4. IsFiniteSet(A) /\ IsFiniteSet(B)
    BY <2>3, FS_Subset
  <2>5. Cardinality(A) \in Nat /\ Cardinality(B) \in Nat
    BY <2>4, FS_CardinalityType
  <2>6. Cardinality(A \cup B) = Cardinality(A) + Cardinality(B) - Cardinality(A \cap B)
    BY <2>4, FS_Union
  <2>7. Cardinality(A \cap B) = 0
    BY <2>3, FS_EmptySet
  <2>8. w[x] = Cardinality(A)
    BY <1>1, <2>1
  <2> HIDE DEF Of
  <2>9. Cardinality(Of(s)) = Cardinality(A) + Cardinality(B)
    BY <2>3, <2>5, <2>6, <2>7
  <2>10. QED
    BY <2>2, <2>8, <2>9, Zenon
<1>2. Cardinality(Of({})) = 0 /\ Of(S) = K
  BY FS_EmptySet
<1> HIDE DEF Of
<1>3. \E iter : Summing(iter, S, w)
  <2> DEFINE count == [s \in SUBSET S |-> Cardinality(Of(s))]
  <2>1. ASSUME NEW s \in SUBSET S
        PROVE  Cardinality(Of(s)) =
                 IF s = {} THEN 0
                 ELSE w[CHOOSE x \in s : TRUE] + count[s \ {CHOOSE x \in s : TRUE}]
    <3>1. CASE s = {}
      BY <1>2, <3>1
    <3>2. CASE s # {}
      <4>1. PICK x : x = CHOOSE y \in s : TRUE
        OBVIOUS
      <4>2. x \in s /\ s \ {x} \in SUBSET S
        BY <3>2, <4>1
      <4>3. Cardinality(Of(s)) = w[x] + Cardinality(Of(s \ {x}))
        BY <1>1, <3>2, <4>2
      <4>4. count[s \ {x}] = Cardinality(Of(s \ {x}))
        BY <4>2
      <4>5. QED
        BY <3>2, <4>1, <4>3, <4>4, Zenon
    <3>3. QED
      BY <3>1, <3>2
  <2>2. count = [s \in SUBSET S |->
                   IF s = {} THEN 0
                   ELSE w[CHOOSE x \in s : TRUE] + count[s \ {CHOOSE x \in s : TRUE}]]
    BY <2>1, Zenon
  <2>3. Summing(count, S, w)
    BY <2>2, Zenon DEF Summing
  <2>4. QED
    BY <2>3
<1>4. ASSUME NEW iter, Summing(iter, S, w)
      PROVE  iter[S] = Cardinality(K)
  <2>1. PICK Wrong : Wrong = {s \in SUBSET S : iter[s] # Cardinality(Of(s))}
    OBVIOUS
  <2>2. Wrong = {}
    <3>1. SUFFICES ASSUME Wrong # {} PROVE FALSE
      OBVIOUS
    <3>2. PICK T \in Wrong : \A U \in Wrong : U \subseteq T => U = T
      <4>1. Family(Wrong, S)
        BY <2>1, <3>1 DEF Family
      <4>2. QED
        BY <4>1, SmallestSubset
    <3>3. T \in SUBSET S /\ iter[T] # Cardinality(Of(T))
      BY <2>1
    <3>4. PICK x : x = CHOOSE y \in T : TRUE
      OBVIOUS
    <3>5. iter[T] = IF T = {} THEN 0 ELSE w[x] + iter[T \ {x}]
      BY <1>4, <3>3, <3>4, Zenon DEF Summing
    <3>6. T # {}
      BY <1>2, <3>3, <3>5
    <3>7. x \in T /\ T \ {x} \in SUBSET S /\ T \ {x} # T /\ T \ {x} \subseteq T
      BY <3>3, <3>4, <3>6
    <3>8. iter[T \ {x}] = Cardinality(Of(T \ {x}))
      BY <2>1, <3>2, <3>7
    <3>9. Cardinality(Of(T)) = w[x] + Cardinality(Of(T \ {x}))
      BY <1>1, <3>3, <3>6, <3>7
    <3>10. iter[T] = Cardinality(Of(T))
      BY <3>5, <3>6, <3>8, <3>9, Zenon
    <3>11. QED
      BY <3>3, <3>10
  <2>3. QED
    BY <1>2, <2>1, <2>2
<1>5. QED
  BY <1>3, <1>4

\* The same for SumFunction.
LEMMA SumFunctionByGroup ==
  ASSUME NEW S, IsFiniteSet(S), NEW K, IsFiniteSet(K), NEW b \in [K -> S]
  PROVE  SumFunction([x \in S |-> Cardinality({k \in K : b[k] = x})]) = Cardinality(K)
<1> DEFINE w == [x \in S |-> Cardinality({k \in K : b[k] = x})]
           iter == CHOOSE f : Summing(f, S, w)
<1>1. DOMAIN w = S /\ Counted(S, K, b, w)
  BY DEF Counted
<1> HIDE DEF w
<1>2. SumFunction(w) = iter[S]
  BY <1>1 DEF SumFunction, SumFunctionOnSet, FoldFunctionOnSet, MapThenFoldSet, Summing
<1>3. \E f : Summing(f, S, w)
  BY <1>1, SumByGroup
<1>4. Summing(iter, S, w)
  BY <1>3
<1> HIDE DEF iter
<1>5. iter[S] = Cardinality(K)
  BY <1>1, <1>4, SumByGroup
<1>6. QED
  BY <1>2, <1>5 DEF w

\* The same for the counts that records hold.
SummingCounts(iter, S, g) ==
  iter = [s \in SUBSET S |->
            IF s = {} THEN 0
            ELSE g[CHOOSE x \in s : TRUE].n + iter[s \ {CHOOSE x \in s : TRUE}]]

LEMMA CountsByGroup ==
  ASSUME NEW S, IsFiniteSet(S), NEW K, IsFiniteSet(K), NEW b \in [K -> S],
         NEW g, \A x \in S : g[x].n = Cardinality({k \in K : b[k] = x})
  PROVE  /\ \E iter : SummingCounts(iter, S, g)
         /\ \A iter : SummingCounts(iter, S, g) => iter[S] = Cardinality(K)
<1>1. PICK w : w = [x \in S |-> g[x].n]
  OBVIOUS
<1>2. Counted(S, K, b, w)
  BY <1>1 DEF Counted
<1>3. ASSUME NEW iter
      PROVE  Summing(iter, S, w) <=> SummingCounts(iter, S, g)
  <2>1. ASSUME NEW s \in SUBSET S
        PROVE  (IF s = {} THEN 0
                ELSE w[CHOOSE x \in s : TRUE] + iter[s \ {CHOOSE x \in s : TRUE}])
             = (IF s = {} THEN 0
                ELSE g[CHOOSE x \in s : TRUE].n + iter[s \ {CHOOSE x \in s : TRUE}])
    <3>1. CASE s = {}
      BY <3>1
    <3>2. CASE s # {}
      <4>1. PICK y : y = CHOOSE x \in s : TRUE
        OBVIOUS
      <4>2. y \in S
        BY <3>2, <4>1
      <4>3. w[y] = g[y].n
        BY <1>1, <4>2
      <4>4. QED
        BY <4>1, <4>3, Zenon
    <3>3. QED
      BY <3>1, <3>2
  <2>2. [s \in SUBSET S |->
           IF s = {} THEN 0
           ELSE w[CHOOSE x \in s : TRUE] + iter[s \ {CHOOSE x \in s : TRUE}]]
      = [s \in SUBSET S |->
           IF s = {} THEN 0
           ELSE g[CHOOSE x \in s : TRUE].n + iter[s \ {CHOOSE x \in s : TRUE}]]
    BY <2>1, Zenon
  <2>3. QED
    BY <2>2, Zenon DEF Summing, SummingCounts
<1>4. /\ \E iter : Summing(iter, S, w)
      /\ \A iter : Summing(iter, S, w) => iter[S] = Cardinality(K)
  BY <1>2, SumByGroup
<1>5. QED
  BY <1>3, <1>4

----------------------------------------------------------------------------
(* What is always so of the tables and of the request.                     *)

KickRow == [mac : Macs, ts : Nat, dry : BOOLEAN]
SampleRow == [mac : Macs, ts : Nat]
HealthRow == [source : Nat, ts : Nat]
StandingsRow == [ts : Nat, who : SUBSET Macs]

IsTable(t, row) ==
  /\ IsFiniteSet(DOMAIN t) /\ DOMAIN t \subseteq Nat
  /\ \A k \in DOMAIN t : t[k] \in row

TablesOK ==
  /\ IsTable(kicks, KickRow) /\ IsTable(samples, SampleRow)
  /\ IsTable(health, HealthRow) /\ IsTable(observations, StandingsRow)

\* A request under way is one of the four pages and has as many answers as steps.
RequestOK ==
  req = Idle \/
  /\ req.page \in DOMAIN Queries /\ req.step \in 1..(Len(Queries[req.page]) + 1)
  /\ req.now \in Nat /\ req.now <= now
  /\ req.mac \in (IF req.page = "device" THEN Macs ELSE {NoMac})
  /\ req = [page |-> req.page, step |-> req.step, now |-> req.now, mac |-> req.mac,
            got |-> req.got]
  /\ DOMAIN req.got = {Queries[req.page][i] : i \in 1..(req.step - 1)}

PollOK == poll = NoPoll \/ poll \in [stage : 1..(Sources + 1), who : SUBSET Macs]

\* Rows are written with the time of writing, and the clock does not go back.
RowsPast ==
  /\ \A k \in DOMAIN kicks : kicks[k].ts <= now
  /\ \A k \in DOMAIN health : health[k].ts <= now
  /\ \A k \in DOMAIN observations : observations[k].ts <= now

KicksInOrder == \A i, j \in DOMAIN kicks : i <= j => kicks[i].ts <= kicks[j].ts

TypeOK ==
  /\ now \in Nat /\ schema \in Schemas
  /\ TablesOK /\ RequestOK /\ PollOK
  /\ standing \in SUBSET Macs
  /\ lost \in {"none", "all", "rest"} /\ calm \in BOOLEAN

TablesInv == TypeOK /\ RowsPast /\ KicksInOrder

----------------------------------------------------------------------------
(* The invariants of the four pages.                                       *)

\* The overview: an answer that was counted is still no more than the same count would
\* be now.
OverviewInv ==
  req.page = "overview" =>
    /\ req.step > 1 => /\ Got("today") \in Nat
                       /\ Got("today") <= KicksSince(kicks, DayAgo(req.now))
    /\ req.step > 2 => Got("today") <= Got("week")
    /\ req.step > 4 => Got("today") <= SumFunction(Got("by_hour"))

\* The devices table: the last kick that was counted is in the table of kicks.
DevicesInv ==
  req.page = "devices" =>
    /\ req.step > 1 => \A m \in DOMAIN Got("kicks") :
                         \E k \in RealKicks(kicks, m) : kicks[k].ts = Got("kicks")[m].last
    /\ req.step > 3 =>
         \A m \in DOMAIN Got("why") :
           LET k == Got("why")[m] IN
           /\ k \in RealKicks(kicks, m)
           /\ kicks[k].ts >= At(Got("kicks"), m, [n |-> 0, last |-> Never]).last

\* A device: its timeline's kicks, and those of its samples no prune may have taken,
\* are in the tables until the header has counted them.
DeviceInv ==
  req.page = "device" =>
    /\ req.step > 1 => Got("timeline_kicks") \subseteq Matching(kicks, req.mac, Canon)
    /\ req.step > 2 => /\ Got("timeline_samples") \subseteq Nat
                       /\ \A ts \in Got("timeline_samples") : ts >= now - Week =>
                            \E k \in Matching(samples, req.mac, Canon) : samples[k].ts = ts
    /\ req.step > 3 => \A k \in Got("timeline_kicks") : ~kicks[k].dry => k \in Got("real")
    /\ req.step > 4 => \A k \in Got("timeline_kicks") : kicks[k].dry => k \in Got("dry")
    /\ req.step > 5 => \A ts \in Got("timeline_samples") : ts >= now - Week => Got("seen") >= ts

\* What the DNS page would show of the tables as they are.
Shown == NearThreshold(observations, MaxTs(observations), MaxTs(health))

\* Before the migration there are no DNS tables and no polls.
NothingBefore ==
  schema # "current" =>
    /\ DOMAIN health = {} /\ DOMAIN observations = {} /\ poll = NoPoll

\* While a poll is persisted, the standings there are older than its heartbeats.
PollNewer ==
  poll # NoPoll =>
    /\ \A k \in DOMAIN observations : observations[k].ts < now
    /\ poll.stage > 1 =>
         \E j \in DOMAIN health : \A k \in DOMAIN observations : observations[k].ts < health[j].ts

\* Up to its first heartbeat, the page shows what was written of the polls before.
StandingsShown == poll.stage \in {0, 1} => AsWritten(Shown)

DnsAnswers ==
  req.page = "dns" /\ calm =>
    /\ poll = NoPoll
    /\ req.step > 2 => Got("max_obs") = MaxTs(observations)
    /\ req.step > 3 => Got("max_beat") = MaxTs(health)
    /\ req.step > 4 => AsWritten(Got("near"))

DnsInv == NothingBefore /\ PollNewer /\ StandingsShown /\ DnsAnswers

----------------------------------------------------------------------------
(* What the statements make of a table.                                    *)

\* The table u is t and a row more, above the others.
OneMore(t, u, r) ==
  \E id \in Nat :
    /\ id \notin DOMAIN t /\ \A k \in DOMAIN t : k < id
    /\ DOMAIN u = DOMAIN t \cup {id} /\ u[id] = r
    /\ \A k \in DOMAIN t : u[k] = t[k]

\* INSERT adds a row and changes none.
LEMMA Inserted ==
  ASSUME NEW t, NEW row, IsTable(t, row), NEW r \in row
  PROVE  IsTable(Insert(t, r), row) /\ OneMore(t, Insert(t, r), r)
<1>1. PICK ids : ids = {0} \cup DOMAIN t
  OBVIOUS
<1>2. ids \subseteq Int /\ IsFiniteSet(ids) /\ ids # {}
  <2>1. IsFiniteSet({0} \cup DOMAIN t)
    BY FS_Singleton, FS_Union DEF IsTable
  <2>2. QED
    BY <1>1, <2>1 DEF IsTable
<1>3. Max(ids) \in ids /\ \A k \in ids : k <= Max(ids)
  BY <1>2, MaxIs
<1>4. PICK id : id = 1 + Max(ids)
  OBVIOUS
<1>5. id \in Nat /\ id \notin DOMAIN t /\ \A k \in DOMAIN t : k < id
  BY <1>1, <1>3, <1>4 DEF IsTable
<1>6. Insert(t, r) = Put(t, id, r)
  BY <1>1, <1>4 DEF Insert
<1>7. /\ DOMAIN Insert(t, r) = DOMAIN t \cup {id} /\ Insert(t, r)[id] = r
      /\ \A k \in DOMAIN t : Insert(t, r)[k] = t[k]
  BY <1>5, <1>6 DEF Put
<1>8. IsFiniteSet(DOMAIN t \cup {id})
  BY FS_AddElement DEF IsTable
<1>9. IsTable(Insert(t, r), row)
  BY <1>5, <1>7, <1>8 DEF IsTable
<1>10. QED
  BY <1>5, <1>7, <1>9 DEF OneMore

\* DELETE: the rows young enough stay as they are.
LEMMA Deleted ==
  ASSUME NEW t, NEW row, IsTable(t, row), NEW cutoff
  PROVE  /\ IsTable(DeleteBefore(t, cutoff), row)
         /\ DOMAIN DeleteBefore(t, cutoff) = {k \in DOMAIN t : t[k].ts >= cutoff}
         /\ \A k \in DOMAIN DeleteBefore(t, cutoff) : DeleteBefore(t, cutoff)[k] = t[k]
<1>1. /\ DOMAIN DeleteBefore(t, cutoff) = {k \in DOMAIN t : t[k].ts >= cutoff}
      /\ \A k \in DOMAIN DeleteBefore(t, cutoff) : DeleteBefore(t, cutoff)[k] = t[k]
  BY DEF DeleteBefore, Restrict
<1>2. DOMAIN DeleteBefore(t, cutoff) \in SUBSET DOMAIN t
  BY <1>1
<1>3. IsFiniteSet(DOMAIN DeleteBefore(t, cutoff))
  BY <1>2, FS_Subset DEF IsTable
<1>4. QED
  BY <1>1, <1>2, <1>3 DEF IsTable

LEMMA LeftAre ==
  ASSUME NEW t, NEW row, IsTable(t, row), NEW cutoff,
         NEW left, left = DeleteBefore(t, cutoff)
  PROVE  IsTable(left, row) /\ \A k \in DOMAIN left : k \in DOMAIN t /\ left[k] = t[k]
<1>1. /\ IsTable(DeleteBefore(t, cutoff), row)
      /\ DOMAIN DeleteBefore(t, cutoff) = {k \in DOMAIN t : t[k].ts >= cutoff}
      /\ \A k \in DOMAIN DeleteBefore(t, cutoff) : DeleteBefore(t, cutoff)[k] = t[k]
  BY Deleted
<1>2. QED
  BY <1>1

\* MAX(ts) over some rows of a table.
LEMMA NewestIs ==
  ASSUME NEW t, NEW rows, rows \subseteq DOMAIN t, IsFiniteSet(rows),
         \A k \in rows : t[k].ts \in Nat
  PROVE  /\ rows = {} => Newest(t, rows) = Never
         /\ rows # {} => \E k \in rows : Newest(t, rows) = t[k].ts
         /\ \A k \in rows : t[k].ts <= Newest(t, rows)
         /\ Newest(t, rows) \in Nat \cup {Never}
<1>1. CASE rows = {}
  BY <1>1 DEF Newest
<1>2. CASE rows # {}
  <2>1. PICK S : S = {t[k].ts : k \in rows}
    OBVIOUS
  <2>2. IsFiniteSet(S)
    <3> DEFINE f == [k \in rows |-> t[k].ts]
    <3>1. f \in Surjection(rows, S)
      BY <2>1 DEF Surjection
    <3>2. QED
      BY <3>1, FS_Surjection
  <2>3. S \subseteq Int /\ S # {}
    BY <1>2, <2>1
  <2>4. Max(S) \in S /\ \A x \in S : x <= Max(S)
    BY <2>2, <2>3, MaxIs
  <2>5. Newest(t, rows) = Max(S)
    BY <1>2, <2>1 DEF Newest
  <2>6. QED
    BY <1>2, <2>1, <2>4, <2>5
<1>3. QED
  BY <1>1, <1>2

----------------------------------------------------------------------------
(* What a step does to the tables.                                         *)

\* Kicks are never pruned, samples not before a week is over.
KicksKept == DOMAIN kicks \subseteq DOMAIN kicks' /\ \A k \in DOMAIN kicks : kicks'[k] = kicks[k]

SamplesKept ==
  \A k \in DOMAIN samples :
    samples[k].ts >= now - Week => k \in DOMAIN samples' /\ samples'[k] = samples[k]

\* A step of the clock or of the page leaves the tables alone.
LEMMA TablesAlone ==
  ASSUME TablesInv, UNCHANGED tables, now' \in Nat, now' >= now
  PROVE  TablesOK' /\ RowsPast' /\ KicksInOrder' /\ KicksKept /\ SamplesKept
<1>1. UNCHANGED <<kicks, samples, health, observations>>
  BY DEF tables
<1>2. TablesOK' /\ KicksInOrder' /\ KicksKept /\ SamplesKept
  BY <1>1 DEF TablesInv, TypeOK, TablesOK, KicksInOrder, KicksKept, SamplesKept
<1>3. \A t \in {kicks, health, observations} : \A k \in DOMAIN t : t[k].ts \in Nat
  BY DEF TablesInv, TypeOK, TablesOK, IsTable, KickRow, HealthRow, StandingsRow
<1>4. RowsPast'
  BY <1>1, <1>3 DEF TablesInv, TypeOK, RowsPast
<1>5. QED
  BY <1>2, <1>4

LEMMA TablesStep ==
  ASSUME TablesInv, [Next]_vars
  PROVE  /\ now' \in Nat /\ now' >= now
         /\ TablesOK' /\ RowsPast' /\ KicksInOrder' /\ KicksKept /\ SamplesKept
<1>1. now \in Nat
  BY DEF TablesInv, TypeOK
<1>2. now' \in Nat /\ now' >= now
  <2>1. CASE Tick
    BY <1>1, <2>1 DEF Tick
  <2>2. CASE UNCHANGED now
    BY <1>1, <2>2
  <2>3. QED
    BY <2>1, <2>2
       DEF Next, vars, Daemon, Migrate, InsertSample, Prune, InsertKick, PollDone,
           Heartbeat, Observations, PersistFails, Request, Select, Respond
<1>3. IsTable(kicks, KickRow) /\ IsTable(samples, SampleRow)
      /\ IsTable(health, HealthRow) /\ IsTable(observations, StandingsRow)
  BY DEF TablesInv, TypeOK, TablesOK
<1>4. ASSUME NEW m \in Macs, InsertSample(m)
      PROVE  TablesOK' /\ RowsPast' /\ KicksInOrder' /\ KicksKept /\ SamplesKept
  <2>1. [mac |-> m, ts |-> now] \in SampleRow
    BY <1>1 DEF SampleRow
  <2>2. IsTable(samples', SampleRow)
    BY <1>3, <1>4, <2>1, Inserted DEF InsertSample
  <2>3. OneMore(samples, samples', [mac |-> m, ts |-> now])
    BY <1>3, <1>4, <2>1, Inserted DEF InsertSample
  <2>4. QED
    BY <1>3, <1>4, <2>2, <2>3
       DEF TablesInv, InsertSample, TablesOK, RowsPast, KicksInOrder, KicksKept, SamplesKept, OneMore
<1>5. ASSUME Prune
      PROVE  TablesOK' /\ RowsPast' /\ KicksInOrder' /\ KicksKept /\ SamplesKept
  <2>1. IsTable(samples', SampleRow)
    BY <1>3, <1>5, Deleted DEF Prune, PruneSamples
  <2>2. SamplesKept
    BY <1>3, <1>5, Deleted DEF Prune, PruneSamples, SamplesKept
  <2>3. QED
    BY <1>3, <1>5, <2>1, <2>2
       DEF TablesInv, Prune, PruneSamples, TablesOK, RowsPast, KicksInOrder, KicksKept
<1>6. ASSUME NEW m \in Macs, NEW dry \in BOOLEAN, InsertKick(m, dry)
      PROVE  TablesOK' /\ RowsPast' /\ KicksInOrder' /\ KicksKept /\ SamplesKept
  <2> DEFINE row == [mac |-> m, ts |-> now, dry |-> dry]
  <2>1. row \in KickRow /\ row.ts = now
    BY <1>1 DEF KickRow
  <2>2. kicks' = Insert(kicks, row)
    BY <1>6 DEF InsertKick
  <2> HIDE DEF row
  <2>3. IsTable(kicks', KickRow)
    BY <1>3, <2>1, <2>2, Inserted
  <2>4. PICK id \in Nat : /\ id \notin DOMAIN kicks /\ \A k \in DOMAIN kicks : k < id
                          /\ DOMAIN kicks' = DOMAIN kicks \cup {id} /\ kicks'[id] = row
                          /\ \A k \in DOMAIN kicks : kicks'[k] = kicks[k]
    <3>1. OneMore(kicks, kicks', row)
      BY <1>3, <2>1, <2>2, Inserted
    <3>2. QED
      BY <3>1 DEF OneMore
  <2>5. KicksInOrder'
    <3>1. ASSUME NEW i \in DOMAIN kicks', NEW j \in DOMAIN kicks', i <= j
          PROVE  kicks'[i].ts <= kicks'[j].ts
      <4>1. DOMAIN kicks \subseteq Nat
        BY <1>3 DEF IsTable
      <4>2. CASE i = id
        <5>1. j = id
          BY <2>4, <3>1, <4>1, <4>2
        <5>2. QED
          BY <1>1, <2>1, <2>4, <4>2, <5>1
      <4>3. CASE i # id /\ j = id
        BY <2>1, <2>4, <3>1, <4>3 DEF TablesInv, RowsPast
      <4>4. CASE i # id /\ j # id
        BY <2>4, <3>1, <4>4 DEF TablesInv, KicksInOrder
      <4>5. QED
        BY <4>2, <4>3, <4>4
    <3>2. QED
      BY <3>1 DEF KicksInOrder
  <2>6. RowsPast'
    <3>1. \A k \in DOMAIN kicks' : kicks'[k].ts <= now
      BY <1>1, <2>1, <2>4 DEF TablesInv, RowsPast
    <3>2. QED
      BY <1>6, <3>1 DEF InsertKick, TablesInv, RowsPast
  <2>7. KicksKept
    BY <2>4 DEF KicksKept
  <2>8. QED
    BY <1>3, <1>6, <2>3, <2>5, <2>6, <2>7 DEF InsertKick, TablesOK, SamplesKept
<1>7. ASSUME Heartbeat
      PROVE  TablesOK' /\ RowsPast' /\ KicksInOrder' /\ KicksKept /\ SamplesKept
  <2> DEFINE row == [source |-> poll.stage, ts |-> now]
             left == DeleteBefore(health, now - Week)
  <2>1. row \in HealthRow /\ row.ts = now
    BY <1>1, <1>7, PagesAssumption DEF Heartbeat, HealthRow
  <2>2. IsTable(left, HealthRow) /\ \A k \in DOMAIN left : left[k].ts <= now
    <3>1. IsTable(left, HealthRow) /\ \A k \in DOMAIN left : k \in DOMAIN health /\ left[k] = health[k]
      BY <1>3, LeftAre
    <3>2. QED
      BY <3>1 DEF TablesInv, RowsPast
  <2>3. health' = Insert(left, row)
    BY <1>7 DEF Heartbeat
  <2> HIDE DEF left, row
  <2>4. IsTable(health', HealthRow)
    BY <2>1, <2>2, <2>3, Inserted
  <2>5. PICK id \in Nat : /\ DOMAIN health' = DOMAIN left \cup {id} /\ health'[id] = row
                          /\ \A k \in DOMAIN left : health'[k] = left[k]
    <3>1. OneMore(left, health', row)
      BY <2>1, <2>2, <2>3, Inserted
    <3>2. QED
      BY <3>1 DEF OneMore
  <2>6. \A k \in DOMAIN health' : health'[k].ts <= now
    BY <1>1, <2>1, <2>2, <2>5
  <2>7. QED
    BY <1>3, <1>7, <2>4, <2>6
       DEF Heartbeat, TablesInv, TablesOK, RowsPast, KicksInOrder, KicksKept, SamplesKept
<1>8. ASSUME Observations
      PROVE  TablesOK' /\ RowsPast' /\ KicksInOrder' /\ KicksKept /\ SamplesKept
  <2>1. CASE poll.who = {}
    BY <1>1, <1>2, <1>8, <2>1, TablesAlone DEF Observations, tables
  <2>2. CASE poll.who # {}
    <3> DEFINE row == [ts |-> now, who |-> poll.who]
               left == DeleteBefore(observations, now - Week)
    <3>1. row \in StandingsRow /\ row.ts = now
      BY <1>1, <2>2 DEF StandingsRow, TablesInv, TypeOK, PollOK, NoPoll
    <3>2. IsTable(left, StandingsRow) /\ \A k \in DOMAIN left : left[k].ts <= now
      <4>1. IsTable(left, StandingsRow)
            /\ \A k \in DOMAIN left : k \in DOMAIN observations /\ left[k] = observations[k]
        BY <1>3, LeftAre
      <4>2. QED
        BY <4>1 DEF TablesInv, RowsPast
    <3>3. observations' = Insert(left, row)
      BY <1>8, <2>2 DEF Observations
    <3> HIDE DEF left, row
    <3>4. IsTable(observations', StandingsRow)
      BY <3>1, <3>2, <3>3, Inserted
    <3>5. PICK id \in Nat : /\ DOMAIN observations' = DOMAIN left \cup {id}
                            /\ observations'[id] = row
                            /\ \A k \in DOMAIN left : observations'[k] = left[k]
      <4>1. OneMore(left, observations', row)
        BY <3>1, <3>2, <3>3, Inserted
      <4>2. QED
        BY <4>1 DEF OneMore
    <3>6. \A k \in DOMAIN observations' : observations'[k].ts <= now
      BY <1>1, <3>1, <3>2, <3>5
    <3>7. QED
      BY <1>3, <1>8, <3>4, <3>6
         DEF Observations, TablesInv, TablesOK, RowsPast, KicksInOrder, KicksKept, SamplesKept
  <2>3. QED
    BY <2>1, <2>2
<1>9. CASE UNCHANGED tables
  BY <1>2, <1>9, TablesAlone
<1>10. QED
  BY <1>2, <1>4, <1>5, <1>6, <1>7, <1>8, <1>9
     DEF Next, vars, Daemon, Tick, Migrate, PollDone, PersistFails, Request, Select, Respond

----------------------------------------------------------------------------
(* What a step does to the request.                                        *)

LEMMA QueriesAre ==
  /\ DOMAIN Queries = {"overview", "devices", "device", "dns"}
  /\ Queries["overview"] = <<"today", "week", "quarantined", "by_hour">>
  /\ Queries["devices"] = <<"kicks", "samples", "why">>
  /\ Queries["device"] = <<"timeline_kicks", "timeline_samples", "real", "dry", "seen">>
  /\ Queries["dns"] = <<"health", "max_obs", "max_beat", "near">>
BY DEF Queries

LEMMA QueriesLen ==
  /\ Len(Queries["overview"]) = 4 /\ Len(Queries["devices"]) = 3
  /\ Len(Queries["device"]) = 5 /\ Len(Queries["dns"]) = 4
  /\ \A page \in DOMAIN Queries : Len(Queries[page]) \in Nat
<1>1. /\ Len(<<"today", "week", "quarantined", "by_hour">>) = 4
      /\ Len(<<"kicks", "samples", "why">>) = 3
      /\ Len(<<"timeline_kicks", "timeline_samples", "real", "dry", "seen">>) = 5
      /\ Len(<<"health", "max_obs", "max_beat", "near">>) = 4
  OBVIOUS
<1>2. QED
  BY <1>1, QueriesAre

\* The one answer that a SELECT adds to the page.
Answering ==
  LET q == Queries[req.page][req.step] IN
  /\ req.page \in DOMAIN Queries /\ req.step \in 1..Len(Queries[req.page])
  /\ schema # "absent"
  /\ req' = [page |-> req.page, step |-> req.step + 1, now |-> req.now, mac |-> req.mac,
             got |-> Put(req.got, q, Answer(q))]

LEMMA SelectIs ==
  ASSUME TypeOK, Select
  PROVE  (req' = Idle \/ Answering) /\ UNCHANGED <<now, schema, tables, poll, observers>>
<1>1. req # Idle
  BY DEF Select, Reading, Idle
<1>2. /\ req.page \in DOMAIN Queries /\ req.step \in 1..(Len(Queries[req.page]) + 1)
      /\ req = [page |-> req.page, step |-> req.step, now |-> req.now, mac |-> req.mac,
                got |-> req.got]
  BY <1>1 DEF TypeOK, RequestOK
<1>3. req.step <= Len(Queries[req.page])
  BY DEF Select, Reading
<1>4. CASE schema = "absent"
  BY <1>4 DEF Select
<1>5. CASE schema # "absent"
  <2>1. PICK q : q = Queries[req.page][req.step]
    OBVIOUS
  <2>2. req' = [req EXCEPT !.step = @ + 1, !.got = Put(@, q, Answer(q))]
    BY <1>5, <2>1 DEF Select
  <2>3. PICK r : r = req
    OBVIOUS
  <2>4. PICK a : a = Answer(q)
    OBVIOUS
  <2>5. req' = [page |-> r.page, step |-> r.step + 1, now |-> r.now, mac |-> r.mac,
                got |-> Put(r.got, q, a)]
    BY <1>2, <2>2, <2>3, <2>4
  <2>6. req.step \in 1..Len(Queries[req.page])
    BY <1>2, <1>3, QueriesLen
  <2>7. QED
    BY <1>2, <1>5, <2>1, <2>3, <2>4, <2>5, <2>6 DEF Answering, Select
<1>6. QED
  BY <1>4, <1>5 DEF Select

\* A request goes on as it was, is over, begins, or has one answer more.
LEMMA RequestStep ==
  ASSUME TypeOK, [Next]_vars
  PROVE  \/ UNCHANGED req
         \/ req' = Idle
         \/ \E page \in DOMAIN Queries, m \in Macs \cup {NoMac} : Request(page, m)
         \/ Answering /\ UNCHANGED <<now, schema, tables, poll, observers>>
<1>1. CASE Select
  BY <1>1, SelectIs
<1>2. CASE Respond
  BY <1>2 DEF Respond
<1>3. CASE \E page \in DOMAIN Queries, m \in Macs \cup {NoMac} : Request(page, m)
  BY <1>3
<1>4. CASE UNCHANGED req
  BY <1>4
<1>5. QED
  BY <1>1, <1>2, <1>3, <1>4
     DEF Next, vars, Daemon, Tick, Migrate, InsertSample, Prune, InsertKick, PollDone,
         Heartbeat, Observations, PersistFails

LEMMA RequestType ==
  ASSUME TypeOK, [Next]_vars, now' \in Nat, now' >= now
  PROVE  RequestOK'
<1>1. now \in Nat
  BY DEF TypeOK
<1>2. CASE req' = Idle
  BY <1>2 DEF RequestOK
<1>3. CASE UNCHANGED req
  BY <1>1, <1>3 DEF TypeOK, RequestOK
<1>4. ASSUME NEW page \in DOMAIN Queries, NEW m \in Macs \cup {NoMac}, Request(page, m)
      PROVE  RequestOK'
  <2>1. req' = [page |-> page, step |-> 1, now |-> now, mac |-> m, got |-> << >>]
        /\ UNCHANGED now /\ m \in (IF page = "device" THEN Macs ELSE {NoMac})
    BY <1>4 DEF Request
  <2>2. req'.page = page /\ req'.step = 1 /\ req'.now = now /\ req'.mac = m /\ req'.got = << >>
    BY <2>1
  <2>3. 1 \in 1..(Len(Queries[page]) + 1)
    BY QueriesLen
  <2>4. DOMAIN req'.got = {Queries[page][i] : i \in 1..(1 - 1)}
    BY <2>2
  <2>5. QED
    BY <1>1, <2>1, <2>2, <2>3, <2>4 DEF RequestOK
<1>5. CASE Answering /\ UNCHANGED now
  <2>1. PICK q : q = Queries[req.page][req.step]
    OBVIOUS
  <2>2. PICK a : a = Answer(q)
    OBVIOUS
  <2>3. /\ req.page \in DOMAIN Queries /\ req.step \in 1..Len(Queries[req.page])
        /\ req' = [page |-> req.page, step |-> req.step + 1, now |-> req.now, mac |-> req.mac,
                   got |-> Put(req.got, q, a)]
    BY <1>5, <2>1, <2>2 DEF Answering
  <2>4. req # Idle
    BY <2>3, QueriesAre DEF Idle
  <2>5. /\ req.now \in Nat /\ req.now <= now
        /\ req.mac \in (IF req.page = "device" THEN Macs ELSE {NoMac})
        /\ DOMAIN req.got = {Queries[req.page][i] : i \in 1..(req.step - 1)}
    BY <2>4 DEF TypeOK, RequestOK
  <2>6. /\ req'.page = req.page /\ req'.step = req.step + 1 /\ req'.now = req.now
        /\ req'.mac = req.mac /\ req'.got = Put(req.got, q, a)
    BY <2>3
  <2>7. req'.step \in 1..(Len(Queries[req.page]) + 1)
    <3>1. PICK n \in Nat : n = Len(Queries[req.page])
      BY <2>3, QueriesLen
    <3>2. QED
      BY <2>3, <2>6, <3>1
  <2>8. DOMAIN req'.got = DOMAIN req.got \cup {q}
    BY <2>6 DEF Put
  <2>9. DOMAIN req'.got = {Queries[req.page][i] : i \in 1..(req'.step - 1)}
    <3>1. 1..(req'.step - 1) = (1..(req.step - 1)) \cup {req.step}
      <4>1. req.step \in Nat /\ req.step >= 1
        BY <2>3, QueriesLen
      <4>2. PICK n \in Nat : n = req.step /\ n >= 1
        BY <4>1
      <4>3. req'.step - 1 = n
        BY <2>6, <4>2
      <4>4. 1..n = (1..(n - 1)) \cup {n}
        BY <4>2
      <4>5. QED
        BY <4>2, <4>3, <4>4
    <3>2. {Queries[req.page][i] : i \in 1..(req'.step - 1)}
            = {Queries[req.page][i] : i \in 1..(req.step - 1)} \cup {q}
      BY <2>1, <3>1, Zenon
    <3>3. QED
      BY <2>5, <2>8, <3>2
  <2>10. req' = [page |-> req'.page, step |-> req'.step, now |-> req'.now, mac |-> req'.mac,
                 got |-> req'.got]
    BY <2>3, <2>6
  <2>11. QED
    BY <1>5, <2>3, <2>5, <2>6, <2>7, <2>9, <2>10, Zenon DEF RequestOK
<1>6. QED
  BY <1>2, <1>3, <1>4, <1>5, RequestStep

\* The types hold in every state.
LEMMA TablesStart == Init => TablesInv
<1> SUFFICES ASSUME Init PROVE TablesInv
  OBVIOUS
<1>1. DOMAIN << >> = {} /\ IsFiniteSet({})
  BY FS_EmptySet
<1>2. TablesOK
  BY <1>1 DEF Init, TablesOK, IsTable
<1>3. QED
  BY <1>1, <1>2
     DEF Init, TablesInv, TypeOK, RequestOK, PollOK, Schemas, RowsPast, KicksInOrder

LEMMA TablesNext ==
  ASSUME TablesInv, [Next]_vars
  PROVE  TablesInv'
<1>1. now' \in Nat /\ now' >= now /\ TablesOK' /\ RowsPast' /\ KicksInOrder'
  BY TablesStep
<1>2. RequestOK'
  BY <1>1, RequestType DEF TablesInv
<1>3. schema' \in Schemas
  BY DEF TablesInv, TypeOK, Schemas, Next, vars, Daemon, Tick, Migrate, InsertSample, Prune,
         InsertKick, PollDone, Heartbeat, Observations, PersistFails, Request, Select, Respond
<1>4. PollOK'
  <2>1. ASSUME NEW C \in SUBSET Macs, PollDone(C) PROVE PollOK'
    BY <2>1, PagesAssumption DEF PollDone, PollOK
  <2>2. CASE Heartbeat
    BY <2>2, PagesAssumption DEF Heartbeat, TablesInv, TypeOK, PollOK, NoPoll
  <2>3. CASE Observations \/ PersistFails
    BY <2>3 DEF Observations, PersistFails, PollOK
  <2>4. CASE UNCHANGED poll
    BY <2>4 DEF TablesInv, TypeOK, PollOK
  <2>5. QED
    BY <2>1, <2>2, <2>3, <2>4
       DEF Next, vars, Daemon, Tick, Migrate, InsertSample, Prune, InsertKick, Request,
           Select, Respond
<1>5. standing' \in SUBSET Macs /\ lost' \in {"none", "all", "rest"}
  <2>1. /\ standing \in SUBSET Macs /\ poll.who \in SUBSET Macs
        /\ lost \in {"none", "all", "rest"}
    BY DEF TablesInv, TypeOK, PollOK, NoPoll
  <2>2. CASE Observations \/ PersistFails
    BY <2>1, <2>2 DEF Observations, PersistFails
  <2>3. CASE UNCHANGED <<standing, lost>>
    BY <2>1, <2>3
  <2>4. QED
    BY <2>2, <2>3
       DEF Next, vars, observers, Daemon, Tick, Migrate, InsertSample, Prune, InsertKick,
           PollDone, Heartbeat, Request, Select, Respond
<1>6. calm' \in BOOLEAN
  BY DEF TablesInv, TypeOK, Next, vars, observers, Daemon, Tick, Migrate, InsertSample, Prune,
         InsertKick, PollDone, Heartbeat, Observations, PersistFails, Request, Select, Respond
<1>7. QED
  BY <1>1, <1>2, <1>3, <1>4, <1>5, <1>6 DEF TablesInv, TypeOK

THEOREM TablesCorrect == Spec => []TablesInv
<1>1. TablesInv /\ [Next]_vars => TablesInv'
  BY TablesNext
<1>2. QED
  BY <1>1, TablesStart, PTL DEF Spec

----------------------------------------------------------------------------
(* What a page has been answered.                                          *)

\* An answer is read as long as the request lives.
LEMMA GotAfter ==
  ASSUME TypeOK, Answering, NEW q, q = Queries[req.page][req.step]
  PROVE  /\ req'.page = req.page /\ req'.step = req.step + 1
         /\ req'.now = req.now /\ req'.mac = req.mac
         /\ req.step \in 1..Len(Queries[req.page]) /\ req.now \in Nat /\ req.now <= now
         /\ req'.got[q] = Answer(q)
         /\ \A i \in 1..(req.step - 1) :
              LET x == Queries[req.page][i]
              IN  x # q => req'.got[x] = req.got[x]
<1>1. PICK a : a = Answer(q)
  OBVIOUS
<1>2. /\ req.page \in DOMAIN Queries /\ req.step \in 1..Len(Queries[req.page])
      /\ req' = [page |-> req.page, step |-> req.step + 1, now |-> req.now, mac |-> req.mac,
                 got |-> Put(req.got, q, a)]
  BY <1>1 DEF Answering
<1>3. req # Idle
  BY <1>2, QueriesAre DEF Idle
<1>4. req.now \in Nat /\ req.now <= now
      /\ DOMAIN req.got = {Queries[req.page][i] : i \in 1..(req.step - 1)}
  BY <1>3 DEF TypeOK, RequestOK
<1>5. /\ req'.page = req.page /\ req'.step = req.step + 1
      /\ req'.now = req.now /\ req'.mac = req.mac /\ req'.got = Put(req.got, q, a)
  BY <1>2
<1>6. req'.got[q] = a /\ \A x \in DOMAIN req.got : x # q => req'.got[x] = req.got[x]
  BY <1>5 DEF Put
<1>7. QED
  BY <1>1, <1>2, <1>4, <1>5, <1>6

LEMMA AnswersAre ==
  /\ Answer("today") = KicksSince(kicks, DayAgo(req.now))
  /\ Answer("week") = KicksSince(kicks, req.now - Week)
  /\ Answer("by_hour") = KicksByHour(kicks, req.now)
  /\ Answer("kicks") = KickCounts(kicks)
  /\ Answer("why") = IF schema = "old" THEN << >> ELSE NewestReal(kicks)
  /\ Answer("timeline_kicks") = Timeline(kicks, Matching(kicks, req.mac, Canon), Limit)
  /\ Answer("timeline_samples") =
       {samples[k].ts : k \in Timeline(samples, Matching(samples, req.mac, Canon), Limit)}
  /\ Answer("real") = {k \in Matching(kicks, req.mac, Canon) : ~kicks[k].dry}
  /\ Answer("dry") = {k \in Matching(kicks, req.mac, Canon) : kicks[k].dry}
  /\ Answer("seen") = Newest(samples, Matching(samples, req.mac, Canon))
  /\ Answer("max_obs") = IF schema = "old" THEN Never ELSE MaxTs(observations)
  /\ Answer("max_beat") = IF schema = "old" THEN Never ELSE MaxTs(health)
  /\ Answer("near") = NearThreshold(observations, Got("max_obs"), Got("max_beat"))
BY DEF Answer

----------------------------------------------------------------------------
(* The overview.                                                           *)

\* Counting rows gives a number.
LEMMA CountType ==
  ASSUME NEW t, NEW row, IsTable(t, row), NEW rows \in SUBSET DOMAIN t
  PROVE  IsFiniteSet(rows) /\ Cardinality(rows) \in Nat
BY FS_Subset, FS_CardinalityType DEF IsTable

\* views.py kicks_by_hour: every kick of the day has its bucket.
LEMMA BucketIs ==
  ASSUME NEW ts \in Int, NEW at \in Int, ts > DayAgo(at)
  PROVE  Bucket(ts, at) \in 0..(Hours - 1)
<1>1. PICK d : d = ts - DayAgo(at)
  OBVIOUS
<1>2. PICK span : span = Hours * Hour
  OBVIOUS
<1>3. d \in Nat
  <2>1. span \in Int
    BY <1>2, WindowAssumption
  <2>2. DayAgo(at) = at - span
    BY <1>2 DEF DayAgo
  <2>3. QED
    BY <1>1, <2>1, <2>2
<1>4. PICK h : h = d \div Hour
  OBVIOUS
<1>5. h \in Nat
  BY <1>3, <1>4, WindowAssumption
<1>6. Hours - 1 \in Nat
  BY WindowAssumption
<1>7. PICK S : S = {h, Hours - 1}
  OBVIOUS
<1>8. \E x \in S : \A y \in S : x <= y
  BY <1>5, <1>6, <1>7
<1>9. Min(S) \in S /\ \A y \in S : Min(S) <= y
  BY <1>8 DEF Min
<1>10. Bucket(ts, at) = Min(S)
  BY <1>1, <1>4, <1>7 DEF Bucket
<1>11. QED
  BY <1>5, <1>6, <1>7, <1>9, <1>10

\* The buckets hold as many kicks as there were in the day.
LEMMA BucketsAddUp ==
  ASSUME TablesOK, NEW at \in Nat
  PROVE  SumFunction(KicksByHour(kicks, at)) = KicksSince(kicks, DayAgo(at))
<1>1. PICK K : K = {k \in DOMAIN kicks : ~kicks[k].dry /\ kicks[k].ts > DayAgo(at)}
  OBVIOUS
<1>2. IsFiniteSet(K)
  <2>1. K \in SUBSET DOMAIN kicks
    BY <1>1
  <2>2. QED
    BY <2>1, CountType DEF TablesOK
<1>3. PICK S : S = 0..(Hours - 1)
  OBVIOUS
<1>4. IsFiniteSet(S)
  BY <1>3, FS_Interval, WindowAssumption
<1>5. PICK b : b = [k \in K |-> Bucket(kicks[k].ts, at)]
  OBVIOUS
<1>6. b \in [K -> S]
  <2>1. ASSUME NEW k \in K PROVE Bucket(kicks[k].ts, at) \in S
    <3>1. kicks[k].ts \in Nat /\ kicks[k].ts > DayAgo(at)
      BY <1>1 DEF TablesOK, IsTable, KickRow
    <3>2. QED
      BY <1>3, <3>1, BucketIs
  <2>2. QED
    BY <1>5, <2>1
<1>7. SumFunction([h \in S |-> Cardinality({k \in K : b[k] = h})]) = Cardinality(K)
  BY <1>2, <1>4, <1>6, SumFunctionByGroup
<1>8. ASSUME NEW h \in S
      PROVE  {k \in K : b[k] = h} =
               {k \in DOMAIN kicks : /\ ~kicks[k].dry /\ kicks[k].ts > DayAgo(at)
                                     /\ Bucket(kicks[k].ts, at) = h}
  BY <1>1, <1>5
<1>9. KicksByHour(kicks, at) = [h \in S |-> Cardinality({k \in K : b[k] = h})]
  BY <1>3, <1>8 DEF KicksByHour
<1>10. KicksSince(kicks, DayAgo(at)) = Cardinality(K)
  BY <1>1 DEF KicksSince
<1>11. QED
  BY <1>7, <1>9, <1>10

\* A count of kicks does not go down, and not up when it starts later.
LEMMA KicksSinceType ==
  ASSUME TablesOK, NEW since
  PROVE  KicksSince(kicks, since) \in Nat
<1>1. {k \in DOMAIN kicks : ~kicks[k].dry /\ kicks[k].ts > since} \in SUBSET DOMAIN kicks
  OBVIOUS
<1>2. QED
  BY <1>1, CountType DEF KicksSince, TablesOK

LEMMA KicksSinceGrows ==
  ASSUME TablesOK, TablesOK', KicksKept, NEW since
  PROVE  /\ KicksSince(kicks, since) \in Nat /\ KicksSince(kicks', since) \in Nat
         /\ KicksSince(kicks, since) <= KicksSince(kicks', since)
<1> DEFINE before == {k \in DOMAIN kicks : ~kicks[k].dry /\ kicks[k].ts > since}
           after == {k \in DOMAIN kicks' : ~kicks'[k].dry /\ kicks'[k].ts > since}
<1>1. before \in SUBSET after /\ after \in SUBSET DOMAIN kicks'
  BY DEF KicksKept
<1>2. IsFiniteSet(after)
  BY <1>1, FS_Subset DEF TablesOK, IsTable
<1>3. Cardinality(before) <= Cardinality(after)
  BY <1>1, <1>2, FS_Subset
<1>4. Cardinality(after) \in Nat
  BY <1>2, FS_CardinalityType
<1>5. QED
  BY <1>3, <1>4, KicksSinceType DEF KicksSince

LEMMA KicksSinceLater ==
  ASSUME TablesOK, NEW from \in Int, NEW since \in Int, from <= since
  PROVE  KicksSince(kicks, since) <= KicksSince(kicks, from)
<1> DEFINE late == {k \in DOMAIN kicks : ~kicks[k].dry /\ kicks[k].ts > since}
           all == {k \in DOMAIN kicks : ~kicks[k].dry /\ kicks[k].ts > from}
<1>1. \A k \in DOMAIN kicks : kicks[k].ts \in Nat
  BY DEF TablesOK, IsTable, KickRow
<1>2. late \in SUBSET all /\ all \in SUBSET DOMAIN kicks
  BY <1>1
<1>3. IsFiniteSet(all)
  BY <1>2, FS_Subset DEF TablesOK, IsTable
<1>4. QED
  BY <1>2, <1>3, FS_Subset DEF KicksSince

\* The day is within the week.
LEMMA DayInWeek ==
  ASSUME NEW at \in Nat
  PROVE  DayAgo(at) \in Int /\ at - Week \in Int /\ at - Week <= DayAgo(at)
<1>1. PICK span : span = Hours * Hour
  OBVIOUS
<1>2. span \in Int /\ span <= Week /\ Week \in Nat
  BY <1>1, WindowAssumption
<1>3. DayAgo(at) = at - span
  BY <1>1 DEF DayAgo
<1>4. QED
  BY <1>2, <1>3

LEMMA OverviewNext ==
  ASSUME TablesInv, OverviewInv, [Next]_vars
  PROVE  OverviewInv'
<1>1. TablesOK /\ TablesOK' /\ KicksKept
  BY TablesStep DEF TablesInv, TypeOK
<1>2. CASE UNCHANGED req
  <2>1. CASE req.page = "overview" /\ req.step > 1
    <3>1. PICK since : since = DayAgo(req.now)
      OBVIOUS
    <3>2. /\ KicksSince(kicks, since) \in Nat /\ KicksSince(kicks', since) \in Nat
          /\ KicksSince(kicks, since) <= KicksSince(kicks', since)
      BY <1>1, KicksSinceGrows
    <3>3. Got("today") \in Nat /\ Got("today") <= KicksSince(kicks, since)
      BY <2>1, <3>1 DEF OverviewInv
    <3>4. Got("today") <= KicksSince(kicks', since)
      BY <3>2, <3>3
    <3>5. DayAgo(req.now)' = since
      BY <1>2, <3>1 DEF DayAgo
    <3>6. QED
      BY <1>2, <2>1, <3>3, <3>4, <3>5 DEF OverviewInv, Got
  <2>2. CASE ~(req.page = "overview" /\ req.step > 1)
    BY <1>2, <2>2 DEF OverviewInv, TablesInv, TypeOK, RequestOK, Idle
  <2>3. QED
    BY <2>1, <2>2
<1>3. CASE req' = Idle
  BY <1>3 DEF OverviewInv, Idle
<1>4. ASSUME NEW page \in DOMAIN Queries, NEW m \in Macs \cup {NoMac}, Request(page, m)
      PROVE  OverviewInv'
  BY <1>4 DEF Request, OverviewInv
<1>5. CASE Answering /\ UNCHANGED <<now, schema, tables, poll, observers>>
  <2>1. PICK q : q = Queries[req.page][req.step]
    OBVIOUS
  <2>2. TypeOK
    BY DEF TablesInv
  <2>3. SUFFICES ASSUME req.page = "overview" PROVE OverviewInv'
    BY <1>5, <2>1, <2>2, GotAfter DEF OverviewInv
  <2>4. req.step \in 1..4 /\ req.now \in Nat /\ req'.step = req.step + 1 /\ req'.now = req.now
    BY <1>5, <2>1, <2>2, <2>3, GotAfter, QueriesLen
  <2>5. /\ req'.got[q] = Answer(q)
        /\ \A i \in 1..(req.step - 1) :
             LET x == <<"today", "week", "quarantined", "by_hour">>[i]
             IN  x # q => req'.got[x] = req.got[x]
    <3>1. Queries["overview"] = <<"today", "week", "quarantined", "by_hour">>
      BY QueriesAre
    <3>2. /\ req'.got[q] = Answer(q)
          /\ \A i \in 1..(req.step - 1) :
               LET x == Queries["overview"][i] IN  x # q => req'.got[x] = req.got[x]
      BY <1>5, <2>1, <2>2, <2>3, GotAfter
    <3>3. QED
      BY <3>1, <3>2
  <2>6. q = <<"today", "week", "quarantined", "by_hour">>[req.step]
    BY <2>1, <2>3, QueriesAre
  <2>7. UNCHANGED kicks
    BY <1>5 DEF tables
  <2>8. PICK today : today = KicksSince(kicks, DayAgo(req.now))
    OBVIOUS
  <2>9. today \in Nat
    BY <1>1, <2>8, KicksSinceType
  <2>10. KicksSince(kicks, DayAgo(req.now))' = today
    BY <2>4, <2>7, <2>8 DEF KicksSince, DayAgo
  <2>11. CASE req.step = 1
    <3>1. req'.got["today"] = today
      BY <2>5, <2>6, <2>8, <2>11, AnswersAre
    <3>2. QED
      BY <2>4, <2>9, <2>10, <2>11, <3>1 DEF OverviewInv, Got
  <2>12. CASE req.step = 2
    <3>1. req'.got["week"] = KicksSince(kicks, req.now - Week)
      BY <2>5, <2>6, <2>12, AnswersAre
    <3>2. req'.got["today"] = req.got["today"]
      BY <2>5, <2>6, <2>12
    <3>3. KicksSince(kicks, req.now - Week) \in Nat /\ today <= KicksSince(kicks, req.now - Week)
      BY <1>1, <2>4, <2>8, DayInWeek, KicksSinceLater, KicksSinceType
    <3>4. req.got["today"] \in Nat /\ req.got["today"] <= today
      BY <2>3, <2>8, <2>12 DEF OverviewInv, Got
    <3>5. req.got["today"] <= KicksSince(kicks, req.now - Week)
      BY <2>9, <3>3, <3>4
    <3>6. QED
      BY <2>4, <2>10, <2>12, <3>1, <3>2, <3>4, <3>5 DEF OverviewInv, Got
  <2>13. CASE req.step \in {3, 4}
    <3>1. req'.got["today"] = req.got["today"] /\ req'.got["week"] = req.got["week"]
      <4>1. q \in {"quarantined", "by_hour"}
        BY <2>6, <2>13
      <4>2. 1 \in 1..(req.step - 1) /\ 2 \in 1..(req.step - 1)
        BY <2>13
      <4>3. QED
        BY <2>5, <4>1, <4>2
    <3>2. /\ req.got["today"] \in Nat /\ req.got["today"] <= today
          /\ req.got["today"] <= req.got["week"]
      BY <2>3, <2>8, <2>13 DEF OverviewInv, Got
    <3>3. req.step = 4 => req'.got["by_hour"] = KicksByHour(kicks, req.now)
      BY <2>5, <2>6, AnswersAre
    <3>4. req.step = 4 => SumFunction(req'.got["by_hour"]) = today
      BY <1>1, <2>4, <2>8, <3>3, BucketsAddUp
    <3>5. QED
      BY <2>4, <2>10, <2>13, <3>1, <3>2, <3>4 DEF OverviewInv, Got
  <2>14. QED
    BY <2>4, <2>11, <2>12, <2>13
<1>6. QED
  BY <1>2, <1>3, <1>4, <1>5, RequestStep DEF TablesInv

\* TilesAddUp, for any tables, windows and numbers of buckets: what was counted first is
\* still in the tables when the rest is counted.
THEOREM TilesCorrect == Spec => []TilesAddUp
<1>1. Init => OverviewInv
  BY DEF Init, Idle, OverviewInv
<1>2. TablesInv /\ OverviewInv /\ [Next]_vars => OverviewInv'
  BY OverviewNext
<1>3. OverviewInv => TilesAddUp
  BY QueriesAre DEF OverviewInv, TilesAddUp, Finished
<1>4. QED
  BY <1>1, <1>2, <1>3, TablesCorrect, PTL DEF Spec

----------------------------------------------------------------------------
(* The devices table.                                                      *)

\* A client's real kicks, and the last of them.
LEMMA RealKicksAre ==
  ASSUME TablesInv, NEW m
  PROVE  /\ IsFiniteSet(RealKicks(kicks, m)) /\ RealKicks(kicks, m) \subseteq DOMAIN kicks
         /\ RealKicks(kicks, m) \subseteq Nat
         /\ \A k \in RealKicks(kicks, m) : kicks[k].ts \in Nat /\ kicks[k].mac = m /\ ~kicks[k].dry
<1>1. IsTable(kicks, KickRow)
  BY DEF TablesInv, TypeOK, TablesOK
<1>2. RealKicks(kicks, m) \in SUBSET DOMAIN kicks
  BY DEF RealKicks
<1>3. IsFiniteSet(RealKicks(kicks, m))
  BY <1>1, <1>2, CountType
<1>4. QED
  BY <1>1, <1>2, <1>3 DEF IsTable, KickRow, RealKicks

\* The last kick counted is one of the client's real kicks.
LEMMA LastCounted ==
  ASSUME TablesInv, NEW m \in DOMAIN KickCounts(kicks)
  PROVE  /\ RealKicks(kicks, m) # {}
         /\ \E k \in RealKicks(kicks, m) : kicks[k].ts = KickCounts(kicks)[m].last
<1>1. RealKicks(kicks, m) # {}
  BY DEF KickCounts, RealKicks
<1>2. \E k \in RealKicks(kicks, m) : Newest(kicks, RealKicks(kicks, m)) = kicks[k].ts
  BY <1>1, RealKicksAre, NewestIs
<1>3. KickCounts(kicks)[m].last = Newest(kicks, RealKicks(kicks, m))
  BY DEF KickCounts
<1>4. QED
  BY <1>1, <1>2, <1>3

\* The row whose rationale is shown is the newest real one.
LEMMA ReasonIs ==
  ASSUME TablesInv, NEW m \in DOMAIN NewestReal(kicks)
  PROVE  /\ NewestReal(kicks)[m] \in RealKicks(kicks, m)
         /\ \A k \in RealKicks(kicks, m) : kicks[k].ts <= kicks[NewestReal(kicks)[m]].ts
<1>1. m \in DOMAIN KickCounts(kicks) /\ NewestReal(kicks)[m] = Max(RealKicks(kicks, m))
  BY DEF NewestReal
<1>2. /\ RealKicks(kicks, m) # {} /\ IsFiniteSet(RealKicks(kicks, m))
      /\ RealKicks(kicks, m) \subseteq Int /\ RealKicks(kicks, m) \subseteq DOMAIN kicks
  BY <1>1, LastCounted, RealKicksAre
<1>3. PICK R : R = RealKicks(kicks, m)
  OBVIOUS
<1>4. Max(R) \in R /\ \A k \in R : k <= Max(R)
  BY <1>2, <1>3, MaxIs
<1>5. \A k \in R : kicks[k].ts <= kicks[Max(R)].ts
  BY <1>2, <1>3, <1>4 DEF TablesInv, KicksInOrder
<1>6. QED
  BY <1>1, <1>3, <1>4, <1>5

LEMMA DevicesNext ==
  ASSUME TablesInv, DevicesInv, [Next]_vars
  PROVE  DevicesInv'
<1>1. KicksKept
  BY TablesStep
<1>2. CASE UNCHANGED req
  <2>1. \A m : \A k \in RealKicks(kicks, m) : k \in RealKicks(kicks', m) /\ kicks'[k] = kicks[k]
    BY <1>1 DEF KicksKept, RealKicks
  <2>2. QED
    BY <1>2, <2>1 DEF DevicesInv, Got
<1>3. CASE req' = Idle
  BY <1>3 DEF DevicesInv, Idle
<1>4. ASSUME NEW page \in DOMAIN Queries, NEW m \in Macs \cup {NoMac}, Request(page, m)
      PROVE  DevicesInv'
  BY <1>4 DEF Request, DevicesInv
<1>5. CASE Answering /\ UNCHANGED <<now, schema, tables, poll, observers>>
  <2>1. PICK q : q = Queries[req.page][req.step]
    OBVIOUS
  <2>2. TypeOK
    BY DEF TablesInv
  <2>3. SUFFICES ASSUME req.page = "devices" PROVE DevicesInv'
    BY <1>5, <2>1, <2>2, GotAfter DEF DevicesInv
  <2>4. req.step \in 1..3 /\ req'.step = req.step + 1
    BY <1>5, <2>1, <2>2, <2>3, GotAfter, QueriesLen
  <2>5. /\ req'.got[q] = Answer(q)
        /\ \A i \in 1..(req.step - 1) :
             LET x == <<"kicks", "samples", "why">>[i]
             IN  x # q => req'.got[x] = req.got[x]
    <3>1. Queries["devices"] = <<"kicks", "samples", "why">>
      BY QueriesAre
    <3>2. /\ req'.got[q] = Answer(q)
          /\ \A i \in 1..(req.step - 1) :
               LET x == Queries["devices"][i] IN  x # q => req'.got[x] = req.got[x]
      BY <1>5, <2>1, <2>2, <2>3, GotAfter
    <3>3. QED
      BY <3>1, <3>2
  <2>6. q = <<"kicks", "samples", "why">>[req.step]
    BY <2>1, <2>3, QueriesAre
  <2>7. UNCHANGED kicks
    BY <1>5 DEF tables
  <2>8. CASE req.step = 1
    <3>1. req'.got["kicks"] = KickCounts(kicks)
      BY <2>5, <2>6, <2>8, AnswersAre
    <3>2. \A m \in DOMAIN KickCounts(kicks) :
            \E k \in RealKicks(kicks, m) : kicks[k].ts = KickCounts(kicks)[m].last
      BY LastCounted
    <3>3. QED
      BY <2>4, <2>7, <2>8, <3>1, <3>2 DEF DevicesInv, Got
  <2>9. CASE req.step \in {2, 3}
    <3>1. req'.got["kicks"] = req.got["kicks"]
      <4>1. q \in {"samples", "why"} /\ 1 \in 1..(req.step - 1)
        BY <2>6, <2>9
      <4>2. QED
        BY <2>5, <4>1
    <3>2. \A m \in DOMAIN req.got["kicks"] :
            \E k \in RealKicks(kicks, m) : kicks[k].ts = req.got["kicks"][m].last
      BY <2>3, <2>9 DEF DevicesInv, Got
    <3>3. CASE req.step = 2
      BY <2>4, <2>7, <3>1, <3>2, <3>3 DEF DevicesInv, Got
    <3>4. CASE req.step = 3
      <4>1. PICK why : why = req'.got["why"]
        OBVIOUS
      <4>2. why = IF schema = "old" THEN << >> ELSE NewestReal(kicks)
        BY <2>5, <2>6, <3>4, <4>1, AnswersAre
      <4>3. ASSUME NEW m \in DOMAIN why
            PROVE  /\ why[m] \in RealKicks(kicks, m)
                   /\ kicks[why[m]].ts >= At(req.got["kicks"], m, [n |-> 0, last |-> Never]).last
        <5>1. why = NewestReal(kicks)
          BY <4>2
        <5>2. /\ why[m] \in RealKicks(kicks, m)
              /\ \A k \in RealKicks(kicks, m) : kicks[k].ts <= kicks[why[m]].ts
          BY <5>1, ReasonIs
        <5>3. \A k \in RealKicks(kicks, m) : kicks[k].ts \in Nat
          BY RealKicksAre
        <5>4. CASE m \in DOMAIN req.got["kicks"]
          BY <3>2, <5>2, <5>3, <5>4 DEF At
        <5>5. CASE m \notin DOMAIN req.got["kicks"]
          <6>1. At(req.got["kicks"], m, [n |-> 0, last |-> Never]).last = Never
            BY <5>5 DEF At
          <6>2. QED
            BY <5>2, <5>3, <6>1 DEF Never
        <5>6. QED
          BY <5>2, <5>4, <5>5
      <4>4. QED
        BY <2>4, <2>7, <3>1, <3>2, <3>4, <4>1, <4>3 DEF DevicesInv, Got
    <3>5. QED
      BY <2>9, <3>3, <3>4
  <2>10. QED
    BY <2>4, <2>8, <2>9
<1>6. QED
  BY <1>2, <1>3, <1>4, <1>5, RequestStep DEF TablesInv

\* ReasonIsLastKicks, for any tables: kicks are never deleted and their ids are in the
\* order of time, so the reason read later is of the kick counted or of a later one.
THEOREM ReasonCorrect == Spec => []ReasonIsLastKicks
<1>1. Init => DevicesInv
  BY DEF Init, Idle, DevicesInv
<1>2. TablesInv /\ DevicesInv /\ [Next]_vars => DevicesInv'
  BY DevicesNext
<1>3. DevicesInv => ReasonIsLastKicks
  BY QueriesAre DEF DevicesInv, ReasonIsLastKicks, Finished, RealKicks
<1>4. QED
  BY <1>1, <1>2, <1>3, TablesCorrect, PTL DEF Spec

----------------------------------------------------------------------------
(* One device.                                                             *)

LEMMA MatchingAre ==
  ASSUME TablesOK, NEW m
  PROVE  /\ Matching(samples, m, Canon) \subseteq DOMAIN samples
         /\ IsFiniteSet(Matching(samples, m, Canon))
         /\ \A k \in DOMAIN samples : samples[k].ts \in Nat
<1>1. Matching(samples, m, Canon) \in SUBSET DOMAIN samples
  BY DEF Matching
<1>2. QED
  BY <1>1, CountType DEF TablesOK, IsTable, SampleRow

\* Another step of the daemon takes from the tables no kick, and no sample of the week.
LEMMA DeviceKept ==
  ASSUME TablesInv, DeviceInv, KicksKept, SamplesKept, UNCHANGED req,
         now' \in Nat, now' >= now
  PROVE  DeviceInv'
<1>1. SUFFICES ASSUME req.page = "device" PROVE DeviceInv'
  BY DEF DeviceInv
<1>2. PICK m : m = req.mac
  OBVIOUS
<1>3. PICK tk : tk = req.got["timeline_kicks"]
  OBVIOUS
<1>4. PICK tl : tl = req.got["timeline_samples"]
  OBVIOUS
<1>5. now \in Nat /\ Week \in Nat
  BY WindowAssumption DEF TablesInv, TypeOK
<1>6. \A k \in Matching(kicks, m, Canon) :
        k \in DOMAIN kicks /\ k \in Matching(kicks', m, Canon) /\ kicks'[k] = kicks[k]
  BY DEF KicksKept, Matching
<1>7. \A k \in Matching(samples, m, Canon) : samples[k].ts >= now - Week =>
        k \in Matching(samples', m, Canon) /\ samples'[k] = samples[k]
  BY DEF SamplesKept, Matching
<1>8. ASSUME req.step > 1
      PROVE  /\ tk \subseteq Matching(kicks', m, Canon)
             /\ \A k \in tk : kicks'[k] = kicks[k]
  <2>1. tk \subseteq Matching(kicks, m, Canon)
    BY <1>1, <1>2, <1>3, <1>8 DEF DeviceInv, Got
  <2>2. QED
    BY <1>6, <2>1
<1>9. ASSUME req.step > 2
      PROVE  /\ tl \subseteq Nat
             /\ \A ts \in tl : ts >= now' - Week => ts >= now - Week
             /\ \A ts \in tl : ts >= now' - Week =>
                  \E k \in Matching(samples', m, Canon) : samples'[k].ts = ts
  <2>1. /\ tl \subseteq Nat
        /\ \A ts \in tl : ts >= now - Week =>
             \E k \in Matching(samples, m, Canon) : samples[k].ts = ts
    BY <1>1, <1>2, <1>4, <1>9 DEF DeviceInv, Got
  <2>2. \A ts \in tl : ts >= now' - Week => ts >= now - Week
    <3>1. PICK a \in Nat : a = now
      BY <1>5
    <3>2. PICK b \in Nat : b = now' /\ b >= a
      BY <3>1
    <3>3. PICK w \in Nat : w = Week
      BY <1>5
    <3>4. ASSUME NEW ts \in Nat, ts >= b - w
          PROVE  ts >= a - w
      <4>1. a \in Int /\ b \in Int /\ w \in Int /\ ts \in Int /\ b >= a
        BY <3>1, <3>2, <3>3
      <4>2. QED
        BY <3>4, <4>1
    <3>5. QED
      BY <2>1, <3>1, <3>2, <3>3, <3>4
  <2>3. QED
    BY <1>7, <2>1, <2>2
<1>10. req.step > 2 => req.step > 1
  BY <1>1 DEF TablesInv, TypeOK, RequestOK, Idle
<1>11. req.step > 3 => req.step > 1 /\ req.step > 2
  BY <1>1, QueriesLen DEF TablesInv, TypeOK, RequestOK, Idle
<1>12. req.step > 4 => req.step > 1 /\ req.step > 2
  BY <1>1, QueriesLen DEF TablesInv, TypeOK, RequestOK, Idle
<1>13. req.step > 5 => req.step > 1 /\ req.step > 2
  BY <1>1, QueriesLen DEF TablesInv, TypeOK, RequestOK, Idle
<1>14. QED
  BY <1>1, <1>2, <1>3, <1>4, <1>8, <1>9, <1>10, <1>11, <1>12, <1>13 DEF DeviceInv, Got

LEMMA DeviceNext ==
  ASSUME TablesInv, DeviceInv, [Next]_vars
  PROVE  DeviceInv'
<1>1. KicksKept /\ SamplesKept /\ now' \in Nat /\ now' >= now
  BY TablesStep
<1>2. CASE UNCHANGED req
  BY <1>1, <1>2, DeviceKept
<1>3. CASE req' = Idle
  BY <1>3 DEF DeviceInv, Idle
<1>4. ASSUME NEW page \in DOMAIN Queries, NEW m \in Macs \cup {NoMac}, Request(page, m)
      PROVE  DeviceInv'
  BY <1>4 DEF Request, DeviceInv
<1>5. CASE Answering /\ UNCHANGED <<now, schema, tables, poll, observers>>
  <2> DEFINE queries == <<"timeline_kicks", "timeline_samples", "real", "dry", "seen">>
             same == Matching(kicks, req.mac, Canon)
             seen == Matching(samples, req.mac, Canon)
  <2>1. PICK q : q = Queries[req.page][req.step]
    OBVIOUS
  <2>2. TypeOK /\ TablesOK
    BY DEF TablesInv, TypeOK
  <2>3. SUFFICES ASSUME req.page = "device" PROVE DeviceInv'
    BY <1>5, <2>1, <2>2, GotAfter DEF DeviceInv
  <2>4. req.step \in 1..5 /\ req'.step = req.step + 1 /\ req'.mac = req.mac
        /\ req'.page = "device"
    BY <1>5, <2>1, <2>2, <2>3, GotAfter, QueriesLen
  <2>5. /\ req'.got[q] = Answer(q)
        /\ \A i \in 1..(req.step - 1) :
             LET x == queries[i] IN  x # q => req'.got[x] = req.got[x]
    <3>1. Queries["device"] = queries
      BY QueriesAre
    <3>2. /\ req'.got[q] = Answer(q)
          /\ \A i \in 1..(req.step - 1) :
               LET x == Queries["device"][i] IN  x # q => req'.got[x] = req.got[x]
      BY <1>5, <2>1, <2>2, <2>3, GotAfter
    <3>3. QED
      BY <3>1, <3>2
  <2>6. q = queries[req.step]
    BY <2>1, <2>3, QueriesAre
  <2>7. UNCHANGED <<kicks, samples, now>>
    BY <1>5 DEF tables
  <2>8. UNCHANGED <<Matching(kicks, req.mac, Canon), Matching(samples, req.mac, Canon)>>
    BY <2>4, <2>7 DEF Matching
  <2>9. \A i \in 1..5 : req.step = i + 1 \/ req.step > i + 1 =>
          /\ i >= 1 => req'.got["timeline_kicks"] = req.got["timeline_kicks"]
          /\ i >= 2 => req'.got["timeline_samples"] = req.got["timeline_samples"]
          /\ i >= 3 => req'.got["real"] = req.got["real"]
          /\ i >= 4 => req'.got["dry"] = req.got["dry"]
    <3>1. \A j \in 1..(req.step - 1) : j \in 1..5 /\ queries[j] # q
      BY <2>4, <2>6
    <3>2. \A j \in 1..(req.step - 1) : req'.got[queries[j]] = req.got[queries[j]]
      BY <2>5, <3>1, Zenon
    <3>3. QED
      BY <2>4, <3>2
  <2>10. CASE req.step = 1
    <3>1. req'.got["timeline_kicks"] = Timeline(kicks, same, Limit)
      BY <2>5, <2>6, <2>10, AnswersAre
    <3>2. req'.got["timeline_kicks"] \subseteq same
      BY <3>1 DEF Timeline
    <3>3. QED
      BY <2>4, <2>8, <2>10, <3>2 DEF DeviceInv, Got
  <2>11. CASE req.step = 2
    <3>1. req'.got["timeline_samples"] = {samples[k].ts : k \in Timeline(samples, seen, Limit)}
      BY <2>5, <2>6, <2>11, AnswersAre
    <3>2. Timeline(samples, seen, Limit) \subseteq seen
      BY DEF Timeline
    <3>3. /\ req'.got["timeline_samples"] \subseteq Nat
          /\ \A ts \in req'.got["timeline_samples"] : \E k \in seen : samples[k].ts = ts
      <4>1. \A k \in seen : samples[k].ts \in Nat
        BY <2>2, MatchingAre
      <4>2. QED
        BY <3>1, <3>2, <4>1
    <3>4. req'.got["timeline_kicks"] \subseteq same
      BY <2>3, <2>9, <2>11 DEF DeviceInv, Got
    <3> HIDE DEF same, seen
    <3>5. UNCHANGED <<same, seen>>
      BY <2>8 DEF same, seen
    <3>6. QED
      BY <2>4, <2>7, <2>11, <3>3, <3>4, <3>5 DEF DeviceInv, Got, same, seen
  <2>12. CASE req.step \in {3, 4, 5}
    <3>1. /\ req'.got["timeline_kicks"] = req.got["timeline_kicks"]
          /\ req'.got["timeline_samples"] = req.got["timeline_samples"]
      BY <2>9, <2>12
    <3>2. /\ req.got["timeline_kicks"] \subseteq same
          /\ req.got["timeline_samples"] \subseteq Nat
          /\ \A ts \in req.got["timeline_samples"] : ts >= now - Week =>
               \E k \in seen : samples[k].ts = ts
      BY <2>3, <2>12 DEF DeviceInv, Got
    <3>3. \A k \in req.got["timeline_kicks"] : ~kicks[k].dry => k \in req'.got["real"]
      <4>1. CASE req.step = 3
        <5>1. req'.got["real"] = {k \in same : ~kicks[k].dry}
          BY <2>5, <2>6, <4>1, AnswersAre
        <5>2. QED
          BY <3>2, <5>1
      <4>2. CASE req.step \in {4, 5}
        BY <2>3, <2>9, <4>2 DEF DeviceInv, Got
      <4>3. QED
        BY <2>12, <4>1, <4>2
    <3>4. req.step > 3 => \A k \in req.got["timeline_kicks"] : kicks[k].dry => k \in req'.got["dry"]
      <4>1. CASE req.step = 4
        <5>1. req'.got["dry"] = {k \in same : kicks[k].dry}
          BY <2>5, <2>6, <4>1, AnswersAre
        <5>2. QED
          BY <3>2, <5>1
      <4>2. CASE req.step = 5
        BY <2>3, <2>9, <4>2 DEF DeviceInv, Got
      <4>3. QED
        BY <2>12, <4>1, <4>2
    <3>5. req.step > 4 => \A ts \in req.got["timeline_samples"] :
                            ts >= now - Week => req'.got["seen"] >= ts
      <4>1. SUFFICES ASSUME req.step = 5, NEW ts \in req.got["timeline_samples"], ts >= now - Week
                     PROVE  req'.got["seen"] >= ts
        BY <2>12
      <4>2. req'.got["seen"] = Newest(samples, seen)
        BY <2>5, <2>6, <4>1, AnswersAre
      <4>3. PICK k \in seen : samples[k].ts = ts
        BY <3>2, <4>1
      <4>4. samples[k].ts <= Newest(samples, seen) /\ samples[k].ts \in Nat
            /\ Newest(samples, seen) \in Nat \cup {Never}
        BY <2>2, MatchingAre, NewestIs
      <4>5. QED
        BY <4>2, <4>3, <4>4 DEF Never
    <3> HIDE DEF same, seen
    <3>6. UNCHANGED <<same, seen>>
      BY <2>8 DEF same, seen
    <3>7. QED
      BY <2>4, <2>7, <2>12, <3>1, <3>2, <3>3, <3>4, <3>5, <3>6 DEF DeviceInv, Got, same, seen
  <2>13. QED
    BY <2>4, <2>10, <2>11, <2>12
<1>6. QED
  BY <1>2, <1>3, <1>4, <1>5, RequestStep DEF TablesInv

\* HeaderCoversTimeline, for any tables, spellings and limits: what the timeline shows
\* is still in the tables when the header is read, but for samples too old to stay.
THEOREM HeaderCorrect == Spec => []HeaderCoversTimeline
<1>1. Init => DeviceInv
  BY DEF Init, Idle, DeviceInv
<1>2. TablesInv /\ DeviceInv /\ [Next]_vars => DeviceInv'
  BY DeviceNext
<1>3. DeviceInv => HeaderCoversTimeline
  BY QueriesAre DEF DeviceInv, HeaderCoversTimeline, Finished
<1>4. QED
  BY <1>1, <1>2, <1>3, TablesCorrect, PTL DEF Spec

----------------------------------------------------------------------------
(* The DNS page.                                                           *)

Stamped(t) == IsFiniteSet(DOMAIN t) /\ \A k \in DOMAIN t : t[k].ts \in Nat

LEMMA MaxTsIs ==
  ASSUME NEW t, Stamped(t)
  PROVE  /\ DOMAIN t = {} => MaxTs(t) = Never
         /\ DOMAIN t # {} => \E k \in DOMAIN t : MaxTs(t) = t[k].ts
         /\ \A k \in DOMAIN t : t[k].ts <= MaxTs(t)
         /\ MaxTs(t) \in Nat \cup {Never}
BY NewestIs DEF MaxTs, Stamped

LEMMA DnsStamped ==
  ASSUME TablesOK
  PROVE  Stamped(health) /\ Stamped(observations)
BY DEF TablesOK, IsTable, HealthRow, StandingsRow, Stamped

\* Standings older than a heartbeat are not shown, and neither are none.
LEMMA NoneShown ==
  ASSUME NEW o, NEW h, Stamped(o), Stamped(h),
         \/ DOMAIN o = {}
         \/ \E j \in DOMAIN h : \A k \in DOMAIN o : o[k].ts < h[j].ts
  PROVE  NearThreshold(o, MaxTs(o), MaxTs(h)) = {}
<1>1. CASE DOMAIN o = {}
  <2>1. MaxTs(o) = Never
    BY <1>1, MaxTsIs
  <2>2. QED
    BY <2>1 DEF NearThreshold
<1>2. CASE DOMAIN o # {}
  <2>1. PICK j \in DOMAIN h : \A k \in DOMAIN o : o[k].ts < h[j].ts
    BY <1>2
  <2>2. PICK k \in DOMAIN o : MaxTs(o) = o[k].ts
    BY <1>2, MaxTsIs
  <2>3. h[j].ts <= MaxTs(h) /\ MaxTs(h) \in Nat \cup {Never} /\ h[j].ts \in Nat /\ o[k].ts \in Nat
    BY MaxTsIs DEF Stamped
  <2>4. MaxTs(h) # Never /\ MaxTs(o) < MaxTs(h)
    BY <2>1, <2>2, <2>3 DEF Never
  <2>5. QED
    BY <2>4 DEF NearThreshold
<1>3. QED
  BY <1>1, <1>2

\* Standings younger than all others, and as young as any heartbeat, are shown alone.
LEMMA NewShown ==
  ASSUME NEW o, NEW u, NEW h, Stamped(o), Stamped(u), Stamped(h), NEW n \in Nat, NEW C,
         OneMore(o, u, [ts |-> n, who |-> C]),
         \A k \in DOMAIN o : o[k].ts < n, \A k \in DOMAIN h : h[k].ts <= n
  PROVE  NearThreshold(u, MaxTs(u), MaxTs(h)) = C
<1>1. PICK id \in Nat : /\ id \notin DOMAIN o /\ DOMAIN u = DOMAIN o \cup {id}
                        /\ u[id] = [ts |-> n, who |-> C]
                        /\ \A k \in DOMAIN o : u[k] = o[k]
  BY DEF OneMore
<1>2. u[id].ts = n /\ u[id].who = C
  BY <1>1
<1>3. \A k \in DOMAIN u : k # id => u[k].ts < n /\ u[k].ts \in Nat
  BY <1>1 DEF Stamped
<1>4. MaxTs(u) = n
  <2>1. PICK k \in DOMAIN u : MaxTs(u) = u[k].ts
    BY <1>1, MaxTsIs
  <2>2. n <= MaxTs(u)
    BY <1>1, <1>2, MaxTsIs
  <2>3. QED
    BY <1>2, <1>3, <2>1, <2>2
<1>5. ~(MaxTs(h) # Never /\ n < MaxTs(h))
  <2>1. CASE DOMAIN h = {}
    BY <2>1, MaxTsIs
  <2>2. CASE DOMAIN h # {}
    <3>1. PICK k \in DOMAIN h : MaxTs(h) = h[k].ts
      BY <2>2, MaxTsIs
    <3>2. h[k].ts <= n /\ h[k].ts \in Nat
      BY DEF Stamped
    <3>3. QED
      BY <3>1, <3>2
  <2>3. QED
    BY <2>1, <2>2
<1>6. {i \in DOMAIN u : u[i].ts = n} = {id}
  BY <1>1, <1>2, <1>3
<1>7. n # Never
  BY DEF Never
<1>8. NearThreshold(u, n, MaxTs(h)) = UNION {u[k].who : k \in {id}}
  BY <1>5, <1>6, <1>7 DEF NearThreshold
<1>9. UNION {u[k].who : k \in {id}} = C
  BY <1>2
<1>10. QED
  BY <1>4, <1>8, <1>9

\* What the standings of DnsInv are about.
Standings == NothingBefore /\ PollNewer /\ StandingsShown

LEMMA HeartbeatStandings ==
  ASSUME TablesInv, Standings, Heartbeat
  PROVE  Standings'
<1> DEFINE row == [source |-> poll.stage, ts |-> now]
           left == DeleteBefore(health, now - Week)
<1>1. now \in Nat /\ IsTable(health, HealthRow)
  BY DEF TablesInv, TypeOK, TablesOK
<1>2. row \in HealthRow /\ row.ts = now
  BY <1>1, PagesAssumption DEF Heartbeat, HealthRow
<1>3. IsTable(left, HealthRow)
  BY <1>1, Deleted
<1>4. health' = Insert(left, row)
  BY DEF Heartbeat
<1> HIDE DEF row, left
<1>5. \E id \in DOMAIN health' : health'[id].ts = now
  <2>1. OneMore(left, health', row)
    BY <1>2, <1>3, <1>4, Inserted
  <2>2. QED
    BY <1>2, <2>1 DEF OneMore
<1>6. poll # NoPoll
  BY PagesAssumption DEF Heartbeat, NoPoll
<1>7. schema = "current"
  BY <1>6 DEF Standings, NothingBefore
<1>8. schema' = "current" /\ UNCHANGED <<observations, now>>
  BY <1>7 DEF Heartbeat
<1>9. \A k \in DOMAIN observations : observations[k].ts < now
  BY <1>6 DEF Standings, PollNewer
<1>10. poll'.stage > 1 /\ poll'.stage \notin {0, 1}
  <2>1. poll.stage \in Nat /\ poll.stage >= 1
    BY PagesAssumption DEF Heartbeat
  <2>2. poll'.stage = poll.stage + 1
    BY <1>6 DEF Heartbeat, TablesInv, TypeOK, PollOK
  <2>3. QED
    BY <2>1, <2>2
<1>11. PollNewer'
  BY <1>5, <1>8, <1>9 DEF PollNewer
<1>12. QED
  BY <1>8, <1>10, <1>11 DEF Standings, NothingBefore, StandingsShown

LEMMA ObservationsStandings ==
  ASSUME TablesInv, Standings, Observations
  PROVE  Standings'
<1>1. now \in Nat /\ TablesOK /\ IsTable(observations, StandingsRow)
  BY DEF TablesInv, TypeOK, TablesOK
<1>2. poll # NoPoll /\ poll.stage > 1
  BY PagesAssumption DEF Observations, NoPoll
<1>3. schema = "current"
  BY <1>2 DEF Standings, NothingBefore
<1>4. /\ schema' = "current" /\ poll' = NoPoll /\ UNCHANGED health
      /\ standing' = poll.who /\ lost' = "none"
  BY <1>3 DEF Observations
<1>5. \A k \in DOMAIN observations : observations[k].ts < now
  BY <1>2 DEF Standings, PollNewer
<1>6. CASE poll.who = {}
  <2>1. UNCHANGED observations
    BY <1>6 DEF Observations
  <2>2. \E j \in DOMAIN health : \A k \in DOMAIN observations : observations[k].ts < health[j].ts
    BY <1>2 DEF Standings, PollNewer
  <2>3. Shown = {}
    BY <1>1, <2>2, DnsStamped, NoneShown DEF Shown
  <2>4. Shown' = standing'
    BY <1>4, <1>6, <2>1, <2>3 DEF Shown
  <2>5. QED
    BY <1>4, <2>4 DEF Standings, NothingBefore, PollNewer, StandingsShown, AsWritten
<1>7. CASE poll.who # {}
  <2> DEFINE row == [ts |-> now, who |-> poll.who]
             left == DeleteBefore(observations, now - Week)
  <2>1. row \in StandingsRow
    BY <1>1, <1>2 DEF StandingsRow, TablesInv, TypeOK, PollOK
  <2>2. IsTable(left, StandingsRow)
        /\ \A k \in DOMAIN left : k \in DOMAIN observations /\ left[k] = observations[k]
    BY <1>1, LeftAre
  <2>3. observations' = Insert(left, row)
    BY <1>7 DEF Observations
  <2> HIDE DEF left
  <2>4. OneMore(left, observations', row) /\ IsTable(observations', StandingsRow)
    BY <2>1, <2>2, <2>3, Inserted
  <2>5. Stamped(left) /\ Stamped(observations')
    BY <2>2, <2>4 DEF IsTable, StandingsRow, Stamped
  <2>6. \A k \in DOMAIN left : left[k].ts < now
    BY <1>5, <2>2
  <2>7. Stamped(health) /\ \A k \in DOMAIN health : health[k].ts <= now
    BY <1>1, DnsStamped DEF TablesInv, RowsPast
  <2>8. NearThreshold(observations', MaxTs(observations'), MaxTs(health)) = poll.who
    BY <1>1, <2>4, <2>5, <2>6, <2>7, NewShown
  <2>9. Shown' = standing'
    BY <1>4, <2>8 DEF Shown
  <2>10. QED
    BY <1>4, <2>9 DEF Standings, NothingBefore, PollNewer, StandingsShown, AsWritten
<1>8. QED
  BY <1>6, <1>7

\* Between two steps, the page would show what was written of the last poll.
LEMMA StandingsNext ==
  ASSUME TablesInv, Standings, [Next]_vars
  PROVE  Standings'
<1>1. now \in Nat /\ TablesOK
  BY DEF TablesInv, TypeOK
<1>2. CASE UNCHANGED <<schema, health, observations, poll, standing, lost>>
           /\ now' \in Nat /\ now' >= now
  <2>1. \A k \in DOMAIN observations : observations[k].ts \in Nat
    BY <1>1, DnsStamped DEF Stamped
  <2>2. PollNewer'
    BY <1>1, <1>2, <2>1 DEF Standings, PollNewer
  <2>3. QED
    BY <1>2, <2>2 DEF Standings, NothingBefore, StandingsShown, Shown, AsWritten
<1>3. CASE Migrate
  BY <1>3
     DEF Migrate, tables, observers, Standings, NothingBefore, PollNewer, StandingsShown, Shown,
         AsWritten
<1>4. ASSUME NEW C \in SUBSET Macs, PollDone(C)
      PROVE  Standings'
  <2>1. /\ poll' = [stage |-> 1, who |-> C] /\ schema' = "current"
        /\ UNCHANGED <<now, health, observations, standing, lost>>
        /\ \A k \in DOMAIN observations : observations[k].ts < now
    BY <1>4 DEF PollDone, tables
  <2>2. PollNewer'
    BY <2>1 DEF PollNewer
  <2>3. AsWritten(Shown)
    BY <1>4 DEF PollDone, NoPoll, Standings, StandingsShown
  <2>4. AsWritten(Shown)'
    BY <2>1, <2>3 DEF Shown, AsWritten
  <2>5. QED
    BY <2>1, <2>2, <2>4 DEF Standings, NothingBefore, StandingsShown
<1>5. CASE Heartbeat
  BY <1>5, HeartbeatStandings
<1>6. CASE Observations
  BY <1>6, ObservationsStandings
<1>7. CASE PersistFails
  <2>1. schema = "current" /\ schema' = "current" /\ poll' = NoPoll
        /\ UNCHANGED <<health, observations, standing>>
        /\ lost' = IF poll.stage = 1 THEN "all" ELSE "rest"
    BY <1>7 DEF PersistFails, tables, Standings, NothingBefore
  <2>2. poll.stage \in 1..(Sources + 1)
    BY <1>7 DEF PersistFails, TablesInv, TypeOK, PollOK
  <2>3. CASE poll.stage = 1
    <3>1. AsWritten(Shown) /\ Shown' = Shown
      BY <2>1, <2>3 DEF Standings, StandingsShown, Shown
    <3>2. lost \in {"none", "all", "rest"}
      BY DEF TablesInv, TypeOK
    <3>3. Shown \in {{}, standing}
      BY <3>1, <3>2 DEF AsWritten
    <3>4. AsWritten(Shown)'
      BY <2>1, <2>3, <3>1, <3>3 DEF AsWritten
    <3>5. QED
      BY <2>1, <3>4 DEF Standings, NothingBefore, PollNewer, StandingsShown
  <2>4. CASE poll.stage # 1
    <3>1. poll.stage > 1
      BY <2>2, <2>4, PagesAssumption
    <3>2. \E j \in DOMAIN health : \A k \in DOMAIN observations : observations[k].ts < health[j].ts
      BY <1>7, <3>1 DEF PersistFails, Standings, PollNewer
    <3>3. Shown = {}
      BY <1>1, <3>2, DnsStamped, NoneShown DEF Shown
    <3>4. AsWritten(Shown)'
      BY <2>1, <2>4, <3>3 DEF Shown, AsWritten
    <3>5. QED
      BY <2>1, <3>4 DEF Standings, NothingBefore, PollNewer, StandingsShown
  <2>5. QED
    BY <2>3, <2>4
<1>8. QED
  <2>1. now' \in Nat /\ now' >= now
    BY TablesStep
  <2>2. QED
    BY <1>2, <1>3, <1>4, <1>5, <1>6, <1>7, <2>1
       DEF Next, vars, tables, observers, Daemon, Tick, InsertSample, Prune, InsertKick, Request, Select, Respond

\* With no poll in between, the two MAX(ts) and the standings are of one poll.
LEMMA DnsAnswersNext ==
  ASSUME TablesInv, Standings, DnsAnswers, [Next]_vars
  PROVE  DnsAnswers'
<1>1. CASE UNCHANGED <<req, calm>> /\ poll = NoPoll
           /\ UNCHANGED <<health, observations, poll, standing, lost>>
  BY <1>1 DEF DnsAnswers, Got, AsWritten
<1>2. CASE UNCHANGED <<req, calm>> /\ poll # NoPoll
  BY <1>2 DEF DnsAnswers
<1>3. ASSUME NEW C \in SUBSET Macs, PollDone(C)
      PROVE  DnsAnswers'
  BY <1>3 DEF PollDone, DnsAnswers
<1>4. CASE req' = Idle
  BY <1>4 DEF DnsAnswers, Idle
<1>5. ASSUME NEW page \in DOMAIN Queries, NEW m \in Macs \cup {NoMac}, Request(page, m)
      PROVE  DnsAnswers'
  <2>1. /\ req'.page = page /\ req'.step = 1 /\ calm' = (page = "dns" => poll = NoPoll)
        /\ UNCHANGED poll
    BY <1>5 DEF Request
  <2>2. req'.page = "dns" /\ calm' => poll' = NoPoll
    BY <2>1, Zenon
  <2>3. ~(req'.step > 2) /\ ~(req'.step > 3) /\ ~(req'.step > 4)
    BY <2>1
  <2>4. QED
    BY <2>2, <2>3 DEF DnsAnswers
<1>6. CASE Answering /\ UNCHANGED <<now, schema, tables, poll, observers>>
  <2>1. PICK q : q = Queries[req.page][req.step]
    OBVIOUS
  <2>2. TypeOK /\ TablesOK
    BY DEF TablesInv, TypeOK
  <2>3. SUFFICES ASSUME req.page = "dns", calm PROVE DnsAnswers'
    BY <1>6, <2>1, <2>2, GotAfter DEF DnsAnswers, observers
  <2>4. req.step \in 1..4 /\ req'.step = req.step + 1
    BY <1>6, <2>1, <2>2, <2>3, GotAfter, QueriesLen
  <2>5. /\ req'.got[q] = Answer(q)
        /\ \A i \in 1..(req.step - 1) :
             LET x == <<"health", "max_obs", "max_beat", "near">>[i]
             IN  x # q => req'.got[x] = req.got[x]
    <3>1. Queries["dns"] = <<"health", "max_obs", "max_beat", "near">>
      BY QueriesAre
    <3>2. /\ req'.got[q] = Answer(q)
          /\ \A i \in 1..(req.step - 1) :
               LET x == Queries["dns"][i] IN  x # q => req'.got[x] = req.got[x]
      BY <1>6, <2>1, <2>2, <2>3, GotAfter
    <3>3. QED
      BY <3>1, <3>2
  <2>6. q = <<"health", "max_obs", "max_beat", "near">>[req.step]
    BY <2>1, <2>3, QueriesAre
  <2>7. UNCHANGED <<health, observations, poll, standing, lost, calm>> /\ poll' = NoPoll
    BY <1>6, <2>3 DEF tables, observers, DnsAnswers
  <2>8. UNCHANGED <<MaxTs(health), MaxTs(observations)>>
    BY <2>7 DEF MaxTs
  <2>9. schema = "old" => MaxTs(observations) = Never /\ MaxTs(health) = Never
    BY <2>2, DnsStamped, MaxTsIs DEF Standings, NothingBefore
  <2>10. CASE req.step = 1
    BY <2>4, <2>7, <2>10 DEF DnsAnswers
  <2>11. CASE req.step = 2
    <3>1. req'.got["max_obs"] = MaxTs(observations)
      BY <2>5, <2>6, <2>9, <2>11, AnswersAre
    <3>2. QED
      BY <2>4, <2>7, <2>8, <2>11, <3>1 DEF DnsAnswers, Got
  <2>12. CASE req.step = 3
    <3>1. req'.got["max_beat"] = MaxTs(health)
      BY <2>5, <2>6, <2>9, <2>12, AnswersAre
    <3>2. req'.got["max_obs"] = req.got["max_obs"]
      BY <2>5, <2>6, <2>12
    <3>3. QED
      BY <2>3, <2>4, <2>7, <2>8, <2>12, <3>1, <3>2 DEF DnsAnswers, Got
  <2>13. CASE req.step = 4
    <3>1. req.got["max_obs"] = MaxTs(observations) /\ req.got["max_beat"] = MaxTs(health)
      BY <2>3, <2>13 DEF DnsAnswers, Got
    <3>2. req'.got["near"] = Shown
      BY <2>5, <2>6, <2>13, <3>1, AnswersAre DEF Shown, Got
    <3>3. AsWritten(Shown)
      BY <2>7 DEF NoPoll, Standings, StandingsShown
    <3>4. req'.got["max_obs"] = req.got["max_obs"] /\ req'.got["max_beat"] = req.got["max_beat"]
      <4>1. q = "near" /\ 2 \in 1..(req.step - 1) /\ 3 \in 1..(req.step - 1)
        BY <2>6, <2>13
      <4>2. QED
        BY <2>5, <4>1
    <3>5. QED
      BY <2>4, <2>7, <2>8, <3>1, <3>2, <3>3, <3>4 DEF DnsAnswers, Got, AsWritten
  <2>14. QED
    BY <2>4, <2>10, <2>11, <2>12, <2>13
<1>7. QED
  <2>1. CASE \/ Heartbeat \/ Observations \/ PersistFails
    <3>1. poll # NoPoll
      BY <2>1, PagesAssumption DEF Heartbeat, Observations, PersistFails, NoPoll
    <3>2. QED
      BY <1>2, <2>1, <3>1 DEF Heartbeat, Observations, PersistFails, observers
  <2>2. CASE Select
    BY <1>4, <1>6, <2>2, SelectIs DEF TablesInv
  <2>3. QED
    BY <1>1, <1>2, <1>3, <1>4, <1>5, <2>1, <2>2
       DEF Next, vars, tables, observers, Daemon, Tick, Migrate, InsertSample, Prune, InsertKick, Respond

\* StandingsCurrent, for any standings, instances and weeks: two statements away from
\* the heartbeats, the page still shows the standings of the poll they were of.
THEOREM StandingsCorrect == Spec => []StandingsCurrent
<1>1. Init => DnsInv
  <2> SUFFICES ASSUME Init PROVE DnsInv
    OBVIOUS
  <2>1. DOMAIN << >> = {}
    OBVIOUS
  <2>2. /\ DOMAIN health = {} /\ DOMAIN observations = {} /\ poll = NoPoll
        /\ standing = {} /\ lost = "none" /\ req = Idle
    BY <2>1 DEF Init
  <2>3. Stamped(health) /\ Stamped(observations)
    BY <2>2, FS_EmptySet DEF Stamped
  <2>4. Shown = {}
    BY <2>2, <2>3, NoneShown DEF Shown
  <2>5. QED
    BY <2>2, <2>4
       DEF DnsInv, NothingBefore, PollNewer, StandingsShown, DnsAnswers, Idle, AsWritten
<1>2. TablesInv /\ DnsInv /\ [Next]_vars => DnsInv'
  BY StandingsNext, DnsAnswersNext DEF DnsInv, Standings
<1>3. DnsInv => StandingsCurrent
  BY QueriesAre DEF DnsInv, DnsAnswers, StandingsCurrent, Finished
<1>4. QED
  BY <1>1, <1>2, <1>3, TablesCorrect, PTL DEF Spec

----------------------------------------------------------------------------
(* What the pages say of one state of the tables.                          *)

\* A number that no other of a set exceeds is its largest.
LEMMA MaxAlone ==
  ASSUME NEW S, S \subseteq Int, NEW x \in S, \A y \in S : y <= x
  PROVE  Max(S) = x
<1>1. Max(S) \in S /\ \A y \in S : Max(S) >= y
  <2>1. \A y \in S : x >= y
    OBVIOUS
  <2>2. QED
    BY <2>1 DEF Max
<1>2. PICK m : m = Max(S)
  OBVIOUS
<1>3. m \in S /\ m \in Int /\ x \in Int /\ m >= x /\ m <= x
  BY <1>1, <1>2
<1>4. QED
  BY <1>2, <1>3

\* A row of the devices table is made of the client's real kicks.
RowIs(rows, m) ==
  /\ rows[m].n = Cardinality(RealKicks(kicks, m))
  /\ rows[m].last = Newest(kicks, RealKicks(kicks, m))
  /\ rows[m].state = State(kicks, m, now)

LEMMA MacsAreFew ==
  ASSUME NEW t, NEW row, IsTable(t, row)
  PROVE  IsFiniteSet(MacsOf(t))
<1> DEFINE f == [k \in DOMAIN t |-> t[k].mac]
<1>1. f \in Surjection(DOMAIN t, MacsOf(t))
  BY DEF Surjection, MacsOf
<1>2. QED
  BY <1>1, FS_Surjection DEF IsTable

LEMMA RowsAre ==
  ASSUME TablesInv, NEW rows, rows = ListDevices(kicks, samples, Allowlist, now)
  PROVE  /\ IsFiniteSet(DOMAIN rows)
         /\ \A k \in DOMAIN kicks : ~kicks[k].dry => kicks[k].mac \in DOMAIN rows
         /\ \A m \in DOMAIN rows : RowIs(rows, m)
<1>1. PICK counts : counts = KickCounts(kicks)
  OBVIOUS
<1>2. PICK seen : seen = LastSamples(samples)
  OBVIOUS
<1>3. /\ DOMAIN counts = {kicks[k].mac : k \in {i \in DOMAIN kicks : ~kicks[i].dry}}
      /\ DOMAIN seen = MacsOf(samples)
  BY <1>1, <1>2 DEF KickCounts, LastSamples
<1>4. DOMAIN rows = DOMAIN counts \cup DOMAIN seen
  BY <1>1, <1>2 DEF ListDevices, DeviceRows
<1>5. IsFiniteSet(DOMAIN rows)
  <2>1. DOMAIN counts \in SUBSET MacsOf(kicks)
    BY <1>3 DEF MacsOf
  <2>2. IsFiniteSet(MacsOf(kicks)) /\ IsFiniteSet(MacsOf(samples))
    BY MacsAreFew DEF TablesInv, TypeOK, TablesOK
  <2>3. IsFiniteSet(DOMAIN counts)
    BY <2>1, <2>2, FS_Subset
  <2>4. IsFiniteSet(DOMAIN counts \cup MacsOf(samples))
    BY <2>2, <2>3, FS_Union
  <2>5. QED
    BY <1>3, <1>4, <2>4
<1>6. \A k \in DOMAIN kicks : ~kicks[k].dry => kicks[k].mac \in DOMAIN rows
  BY <1>3, <1>4
<1>7. ASSUME NEW m \in DOMAIN rows
      PROVE  RowIs(rows, m)
  <2> DEFINE c == At(counts, m, [n |-> 0, last |-> Never])
  <2>1. c.n = Cardinality(RealKicks(kicks, m)) /\ c.last = Newest(kicks, RealKicks(kicks, m))
    <3>1. CASE m \in DOMAIN counts
      <4>1. counts[m] = [n |-> Cardinality(RealKicks(kicks, m)),
                         last |-> Newest(kicks, RealKicks(kicks, m))]
        BY <1>1, <1>3, <3>1 DEF KickCounts
      <4>2. QED
        BY <3>1, <4>1 DEF At
    <3>2. CASE m \notin DOMAIN counts
      <4>1. RealKicks(kicks, m) = {}
        BY <1>3, <3>2 DEF RealKicks
      <4>2. QED
        BY <3>2, <4>1, FS_EmptySet DEF At, Newest
    <3>3. QED
      BY <3>1, <3>2
  <2> HIDE DEF c
  <2>2. rows[m].n = c.n /\ rows[m].last = c.last /\ rows[m].state = DeriveState(c.n, c.last, now)
    BY <1>1, <1>2, <1>4 DEF ListDevices, DeviceRows, c
  <2>3. QED
    BY <2>1, <2>2 DEF RowIs, State
<1>8. QED
  BY <1>5, <1>6, <1>7

\* The quarantine tile counts the clients the state filter shows.
LEMMA QuarantineAgrees ==
  ASSUME TablesInv, NEW rows, rows = ListDevices(kicks, samples, Allowlist, now)
  PROVE  Quarantined(kicks, now) = Cardinality(InState(rows, "QUARANTINE"))
<1>1. ASSUME NEW m, State(kicks, m, now) = "QUARANTINE"
      PROVE  RealKicks(kicks, m) # {}
  <2>1. PICK n : n = Cardinality(RealKicks(kicks, m))
    OBVIOUS
  <2>2. n >= QuarantineAt
    BY <1>1, <2>1 DEF State, DeriveState
  <2>3. n # 0
    BY <2>2, LabelAssumption
  <2>4. QED
    BY <2>1, <2>3, FS_EmptySet
<1>2. {m \in MacsOf(kicks) : RealKicks(kicks, m) # {} /\ State(kicks, m, now) = "QUARANTINE"}
        = {m \in DOMAIN rows : State(kicks, m, now) = "QUARANTINE"}
  <2>1. \A m \in MacsOf(kicks) : RealKicks(kicks, m) # {} => m \in DOMAIN rows
    BY RowsAre DEF RealKicks
  <2>2. \A m : RealKicks(kicks, m) # {} => m \in MacsOf(kicks)
    BY DEF RealKicks, MacsOf
  <2>3. QED
    BY <1>1, <2>1, <2>2
<1>3. InState(rows, "QUARANTINE") = {m \in DOMAIN rows : State(kicks, m, now) = "QUARANTINE"}
  BY RowsAre DEF InState, RowIs
<1>4. QED
  BY <1>2, <1>3 DEF Quarantined

\* There were kicks today just when some client of the table was kicked today.
LEMMA TodayAgrees ==
  ASSUME TablesInv, NEW rows, rows = ListDevices(kicks, samples, Allowlist, now), NEW since \in Int
  PROVE  (KicksSince(kicks, since) = 0) <=> (KickedWithin(rows, since) = {})
<1>1. PICK late : late = {k \in DOMAIN kicks : ~kicks[k].dry /\ kicks[k].ts > since}
  OBVIOUS
<1>2. (KicksSince(kicks, since) = 0) <=> (late = {})
  <2>1. late \in SUBSET DOMAIN kicks
    BY <1>1
  <2>2. IsFiniteSet(late)
    BY <2>1, CountType DEF TablesInv, TypeOK, TablesOK
  <2>3. QED
    BY <1>1, <2>2, FS_EmptySet DEF KicksSince
<1>3. ASSUME NEW k \in late
      PROVE  kicks[k].mac \in KickedWithin(rows, since)
  <2>1. PICK m : m = kicks[k].mac
    OBVIOUS
  <2>2. PICK real : real = RealKicks(kicks, m)
    OBVIOUS
  <2>3. k \in real /\ m \in DOMAIN rows /\ kicks[k].ts > since
    BY <1>1, <2>1, <2>2, RowsAre DEF RealKicks
  <2>4. /\ real \subseteq DOMAIN kicks /\ IsFiniteSet(real)
        /\ \A i \in real : kicks[i].ts \in Nat
    BY <2>2, RealKicksAre
  <2>5. kicks[k].ts <= Newest(kicks, real) /\ Newest(kicks, real) \in Nat \cup {Never}
    BY <2>3, <2>4, NewestIs
  <2>6. rows[m].last = Newest(kicks, real)
    BY <2>2, <2>3, RowsAre DEF RowIs
  <2>7. rows[m].last # Never /\ rows[m].last > since
    BY <2>3, <2>4, <2>5, <2>6 DEF Never
  <2>8. QED
    BY <2>1, <2>3, <2>7 DEF KickedWithin
<1>4. ASSUME NEW m \in KickedWithin(rows, since)
      PROVE  late # {}
  <2>1. PICK real : real = RealKicks(kicks, m)
    OBVIOUS
  <2>2. m \in DOMAIN rows /\ rows[m].last # Never /\ rows[m].last > since
    BY DEF KickedWithin
  <2>3. rows[m].last = Newest(kicks, real)
    BY <2>1, <2>2, RowsAre DEF RowIs
  <2>4. real \subseteq DOMAIN kicks /\ IsFiniteSet(real) /\ \A i \in real : kicks[i].ts \in Nat
    BY <2>1, RealKicksAre
  <2>5. real # {}
    BY <2>2, <2>3, <2>4, NewestIs
  <2>6. PICK k \in real : Newest(kicks, real) = kicks[k].ts
    BY <2>4, <2>5, NewestIs
  <2>7. k \in late
    BY <1>1, <2>1, <2>2, <2>3, <2>6 DEF RealKicks
  <2>8. QED
    BY <2>7
<1>5. QED
  BY <1>2, <1>3, <1>4

\* The header of a device is the rows of all its spellings together.
HeaderSays(rows, m) ==
  LET same == {s \in DOMAIN rows : Canon[s] = Canon[m]}
      real == {k \in Matching(kicks, m, Canon) : ~kicks[k].dry}
  IN /\ Cardinality(real) = MapThenSumSet(LAMBDA s : rows[s].n, same)
     /\ Newest(kicks, real) = Max({rows[s].last : s \in same})

LEMMA HeaderAgrees ==
  ASSUME TablesInv, NEW rows, rows = ListDevices(kicks, samples, Allowlist, now),
         NEW m \in DOMAIN rows
  PROVE  HeaderSays(rows, m)
<1> DEFINE same == {s \in DOMAIN rows : Canon[s] = Canon[m]}
           real == {k \in Matching(kicks, m, Canon) : ~kicks[k].dry}
<1>1. /\ IsFiniteSet(DOMAIN rows) /\ same \in SUBSET DOMAIN rows /\ m \in same
      /\ IsFiniteSet(same)
  <2>1. same \in SUBSET DOMAIN rows /\ m \in same
    OBVIOUS
  <2>2. QED
    BY <2>1, RowsAre, FS_Subset
<1>2. real \in SUBSET DOMAIN kicks /\ IsFiniteSet(real) /\ \A k \in real : kicks[k].ts \in Nat
  <2>1. real \in SUBSET DOMAIN kicks
    BY DEF Matching
  <2>2. QED
    BY <2>1, CountType DEF TablesInv, TypeOK, TablesOK, IsTable, KickRow
<1>3. \A k \in real : kicks[k].mac \in same
  BY RowsAre DEF Matching
<1>4. \A s \in same : RealKicks(kicks, s) = {k \in real : kicks[k].mac = s}
  BY DEF RealKicks, Matching
<1> HIDE DEF same, real
<1>5. \A s \in same : /\ rows[s].n = Cardinality(RealKicks(kicks, s))
                      /\ rows[s].last = Newest(kicks, RealKicks(kicks, s))
  BY <1>1, RowsAre DEF RowIs
<1>6. Cardinality(real) = MapThenSumSet(LAMBDA s : rows[s].n, same)
  <2>1. PICK b : b = [k \in real |-> kicks[k].mac]
    OBVIOUS
  <2>2. b \in [real -> same]
    BY <1>3, <2>1
  <2>3. ASSUME NEW s \in same
        PROVE  rows[s].n = Cardinality({k \in real : b[k] = s})
    <3>1. {k \in real : b[k] = s} = RealKicks(kicks, s)
      BY <1>4, <2>1
    <3>2. QED
      BY <1>5, <3>1
  <2> DEFINE iter == CHOOSE f : SummingCounts(f, same, rows)
  <2>4. MapThenSumSet(LAMBDA s : rows[s].n, same) = iter[same]
    BY DEF MapThenSumSet, MapThenFoldSet, SummingCounts
  <2>5. /\ \E f : SummingCounts(f, same, rows)
        /\ \A f : SummingCounts(f, same, rows) => f[same] = Cardinality(real)
    <3>1. \A s \in same : rows[s].n = Cardinality({k \in real : b[k] = s})
      BY <2>3
    <3> HIDE DEF iter
    <3>2. QED
      BY <1>1, <1>2, <2>2, <3>1, CountsByGroup
  <2>6. iter[same] = Cardinality(real)
    BY <2>5
  <2>7. QED
    BY <2>4, <2>6
<1>7. Newest(kicks, real) = Max({rows[s].last : s \in same})
  <2>1. PICK S : S = {rows[s].last : s \in same}
    OBVIOUS
  <2>2. /\ real = {} => Newest(kicks, real) = Never
        /\ real # {} => \E k \in real : Newest(kicks, real) = kicks[k].ts
        /\ \A k \in real : kicks[k].ts <= Newest(kicks, real)
        /\ Newest(kicks, real) \in Nat \cup {Never}
    BY <1>2, NewestIs
  <2>3. ASSUME NEW s \in same
        PROVE  /\ rows[s].last \in Nat \cup {Never}
               /\ rows[s].last <= Newest(kicks, real)
               /\ \A k \in real : kicks[k].mac = s => kicks[k].ts <= rows[s].last
    <3>1. PICK own : own = RealKicks(kicks, s)
      OBVIOUS
    <3>2. own \subseteq DOMAIN kicks /\ IsFiniteSet(own) /\ \A k \in own : kicks[k].ts \in Nat
      BY <3>1, RealKicksAre
    <3>3. own = {k \in real : kicks[k].mac = s} /\ rows[s].last = Newest(kicks, own)
      BY <1>4, <1>5, <3>1
    <3>4. /\ own = {} => Newest(kicks, own) = Never
          /\ own # {} => \E k \in own : Newest(kicks, own) = kicks[k].ts
          /\ \A k \in own : kicks[k].ts <= Newest(kicks, own)
          /\ Newest(kicks, own) \in Nat \cup {Never}
      BY <3>2, NewestIs
    <3>5. Newest(kicks, own) <= Newest(kicks, real)
      <4>1. CASE own = {}
        BY <2>2, <3>4, <4>1 DEF Never
      <4>2. CASE own # {}
        BY <2>2, <3>3, <3>4, <4>2
      <4>3. QED
        BY <4>1, <4>2
    <3>6. QED
      BY <3>3, <3>4, <3>5
  <2>4. S \subseteq Int /\ \A y \in S : y <= Newest(kicks, real)
    <3>1. \A s \in same : rows[s].last \in Int /\ rows[s].last <= Newest(kicks, real)
      BY <2>3 DEF Never
    <3>2. QED
      BY <2>1, <3>1
  <2>5. Newest(kicks, real) \in S
    <3>1. PICK s \in same : Newest(kicks, real) <= rows[s].last
      <4>1. CASE real = {}
        <5>1. Newest(kicks, real) = Never /\ rows[m].last \in Nat \cup {Never}
          BY <1>1, <2>2, <2>3, <4>1
        <5>2. Newest(kicks, real) <= rows[m].last
          BY <5>1 DEF Never
        <5>3. QED
          BY <1>1, <5>2
      <4>2. CASE real # {}
        <5>1. PICK k \in real : Newest(kicks, real) = kicks[k].ts
          BY <2>2, <4>2
        <5>2. PICK s : s = kicks[k].mac
          OBVIOUS
        <5>3. s \in same /\ kicks[k].ts <= rows[s].last
          BY <1>3, <2>3, <5>2
        <5>4. QED
          BY <5>1, <5>3
      <4>3. QED
        BY <4>1, <4>2
    <3>2. rows[s].last \in Int /\ rows[s].last <= Newest(kicks, real)
          /\ Newest(kicks, real) \in Int
      BY <2>2, <2>3 DEF Never
    <3>3. Newest(kicks, real) = rows[s].last
      BY <3>1, <3>2
    <3>4. QED
      BY <2>1, <3>3
  <2>6. QED
    BY <2>1, <2>4, <2>5, MaxAlone
<1>8. QED
  BY <1>6, <1>7, Zenon DEF HeaderSays, same, real

\* PagesAgree, for any tables, spellings, allowlist and labels: the overview, the
\* devices table with its filters and a device's header count the same kicks.
THEOREM AgreeCorrect == Spec => []PagesAgree
<1>1. TablesInv => PagesAgree
  <2>1. SUFFICES ASSUME TablesInv PROVE PagesAgree
    OBVIOUS
  <2>2. DayAgo(now) \in Int
    BY <2>1, DayInWeek DEF TablesInv, TypeOK
  <2> DEFINE rows == ListDevices(kicks, samples, Allowlist, now)
  <2>3. Quarantined(kicks, now) = Cardinality(InState(rows, "QUARANTINE"))
    BY <2>1, QuarantineAgrees
  <2>4. (KicksSince(kicks, DayAgo(now)) = 0) <=> (KickedWithin(rows, DayAgo(now)) = {})
    BY <2>1, <2>2, TodayAgrees
  <2>5. \A m \in DOMAIN rows : HeaderSays(rows, m)
    BY <2>1, HeaderAgrees
  <2>6. QED
    BY <2>3, <2>4, <2>5, Zenon DEF PagesAgree, HeaderSays
<1>2. QED
  BY <1>1, TablesCorrect, PTL
=============================================================================
