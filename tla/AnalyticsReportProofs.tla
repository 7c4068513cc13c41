----------------------- MODULE AnalyticsReportProofs -----------------------
(***************************************************************************)
(* Proofs that the sweeps take nothing from under a report: it misses no   *)
(* event it owes, its later statements see what the earlier ones saw, and  *)
(* so its figures bound each other.                                        *)
(***************************************************************************)
EXTENDS ReportFigures, FiniteSetTheorems, TLAPS

\* The sweeps keep what is within the window.
KeptInv == {e \in log : e.at >= now - ANALYTICS_RETENTION_DAYS} \subseteq Events

\* A report ends within its latency.
TimeInv == Running => started <= now /\ now <= started + MaxLatency

IdleInv == ~Running => seen = <<>>

IInv ==
    /\ TypeOK
    /\ KeptInv
    /\ TimeInv
    /\ IdleInv
    /\ NothingMissing
    /\ SeenGrows

LEMMA WindowsAreNat == \A t \in Table : Window[t] \in Nat
  BY RetentionAssumption

LEMMA InitIInv == Init => IInv
<1> SUFFICES ASSUME Init PROVE IInv
  OBVIOUS
<1> USE RetentionAssumption DEF Init, RetentionInit
<1>1. TypeOK
  <2>1. /\ DOMAIN rows = Table /\ \A t \in Table : rows[t] = {}
        /\ log = {} /\ next_id \in [Table -> Nat]
    OBVIOUS
  <2>2. sweep \in [Sweeper -> Table \cup {"down", "asleep"}]
    BY DEF FirstTable, Table
  <2>3. now \in 0..MaxTime /\ started \in 0..MaxTime + 1
    BY DEF NotRunning
  <2>4. RetentionTypeOK
    BY <2>1, <2>2, <2>3 DEF RetentionTypeOK, Table
  <2>5. seen \in Seq(SUBSET log) /\ Len(seen) <= Len(Statements)
    BY DEF Statements
  <2> QED
    BY <2>1, <2>3, <2>4, <2>5 DEF TypeOK
<1>2. KeptInv /\ TimeInv /\ IdleInv /\ NothingMissing /\ SeenGrows
  BY DEF KeptInv, TimeInv, IdleInv, NothingMissing, SeenGrows, Running, NotRunning
<1> QED
  BY <1>1, <1>2 DEF IInv

\* An insert into any table leaves the tables typed and the events kept.
LEMMA InsertKeeps ==
  ASSUME IInv, NEW t \in Table, NEW late \in 0..MaxLatency, NEW c \in Content[t],
         Insert(t, late, c)
  PROVE  RetentionTypeOK' /\ KeptInv' /\ log \subseteq log'
<1> DEFINE row == [id |-> next_id[t], at |-> now - late + Lead[t], content |-> c]
<1> USE RetentionAssumption DEF IInv, TypeOK, RetentionTypeOK
<1>1. row \in Row(t)
  BY DEF Row, Table, Lead
<1>2. rows' = [rows EXCEPT ![t] = @ \cup {row}]
  BY DEF Insert
<1>3. log' = IF t = "analytics_events" THEN log \cup {row} ELSE log
  BY DEF Insert
<1> HIDE DEF row
<1>4. now' = now /\ sweep' = sweep /\ next_id' \in [Table -> Nat]
  BY DEF Insert
<1>5. \A u \in Table : rows'[u] = IF u = t THEN rows[u] \cup {row} ELSE rows[u]
  BY <1>2
<1>6. DOMAIN rows' = Table /\ \A u \in Table : rows'[u] \subseteq Row(u)
  BY <1>1, <1>2, <1>5
<1>7. rows'["analytics_events"] \subseteq log' /\ log' \subseteq Row("analytics_events")
  BY <1>1, <1>3, <1>5 DEF Table
<1>8. RetentionTypeOK'
  BY <1>4, <1>6, <1>7
<1>9. KeptInv'
  BY <1>3, <1>4, <1>5 DEF KeptInv, Events, Table
<1> QED
  BY <1>3, <1>8, <1>9

\* A sweep takes only what is past the window.
LEMMA SweepKeeps ==
  ASSUME IInv, NEW w \in Sweeper, NEW late \in 0..MaxLatency, SweepTable(w, late)
  PROVE  RetentionTypeOK' /\ KeptInv' /\ log' = log
<1> USE RetentionAssumption DEF IInv, TypeOK, RetentionTypeOK, SweepTable
<1> DEFINE t == sweep[w]
           kept == {r \in rows[t] : r.at >= now - late - Window[t]}
<1>1. t \in Table /\ rows' = [rows EXCEPT ![t] = kept]
  OBVIOUS
<1>2. \A u \in Table : rows'[u] = IF u = t THEN kept ELSE rows[u]
  BY <1>1
<1>3. \A u \in Table : rows'[u] \subseteq rows[u]
  BY <1>2
<1>4. sweep' \in [Sweeper -> Table \cup {"down", "asleep"}]
  BY DEF AfterTable, Table
<1>5. RetentionTypeOK'
  BY <1>1, <1>3, <1>4 DEF Table
<1>6. ASSUME NEW e \in log, e.at >= now - ANALYTICS_RETENTION_DAYS
      PROVE  e \in rows'["analytics_events"]
  <2>1. e \in rows["analytics_events"] /\ e.at \in Int
    BY <1>6 DEF KeptInv, Events, Row
  <2>2. Window["analytics_events"] = ANALYTICS_RETENTION_DAYS
    BY DEF Window
  <2>3. Window["analytics_events"] \in Nat
    BY DEF Table
  <2>4. e.at >= now - late - Window["analytics_events"]
    BY <1>6, <2>1, <2>2, <2>3
  <2> QED
    BY <1>2, <2>1, <2>4 DEF Table
<1>7. KeptInv'
  BY <1>6 DEF KeptInv, Events
<1> QED
  BY <1>5, <1>7

\* Every step of the sweeps and the writers leaves the report as it was.
LEMMA RetentionKeeps ==
  ASSUME IInv, RetentionStep
  PROVE  RetentionTypeOK' /\ KeptInv' /\ log \subseteq log' /\ now' = now
<1> USE RetentionAssumption
<1>1. ASSUME NEW t \in Table, NEW late \in 0..MaxLatency, NEW c \in Content[t],
             Insert(t, late, c)
      PROVE  RetentionTypeOK' /\ KeptInv' /\ log \subseteq log' /\ now' = now
  BY <1>1, InsertKeeps DEF Insert
<1>2. ASSUME NEW late \in 0..MaxLatency, Renew(late)
      PROVE  RetentionTypeOK' /\ KeptInv' /\ log \subseteq log' /\ now' = now
  <2> USE DEF IInv, TypeOK, RetentionTypeOK
  <2>1. PICK s \in rows["admin_sessions"] :
          rows' = [rows EXCEPT !["admin_sessions"] =
                    (@ \ {s}) \cup {[s EXCEPT !.at = now - late + SESSION_DURATION]}]
    BY <1>2 DEF Renew
  <2>2. s \in Row("admin_sessions")
    BY DEF Table
  <2>3. [s EXCEPT !.at = now - late + SESSION_DURATION] \in Row("admin_sessions")
    <3>1. now - late + SESSION_DURATION \in Int
      OBVIOUS
    <3> HIDE DEF IInv, TypeOK, RetentionTypeOK
    <3> QED
      BY <2>2, <3>1 DEF Row
  <2>4. \A u \in Table : u # "admin_sessions" => rows'[u] = rows[u]
    BY <2>1
  <2>5. rows'["admin_sessions"] \subseteq Row("admin_sessions")
    BY <2>1, <2>3 DEF Table
  <2>6. now' = now /\ log' = log /\ next_id' = next_id /\ sweep' = sweep
    BY <1>2 DEF Renew
  <2>7. DOMAIN rows' = Table /\ \A u \in Table : rows'[u] \subseteq Row(u)
    BY <2>1, <2>4, <2>5
  <2>8. rows'["analytics_events"] = rows["analytics_events"]
    BY <2>4 DEF Table
  <2> QED
    BY <2>6, <2>7, <2>8 DEF KeptInv, Events
<1>3. ASSUME NEW w \in Sweeper, NEW late \in 0..MaxLatency, SweepTable(w, late)
      PROVE  RetentionTypeOK' /\ KeptInv' /\ log \subseteq log' /\ now' = now
  BY <1>3, SweepKeeps DEF SweepTable
<1>4. ASSUME NEW w \in Sweeper, SweepFails(w) \/ Wake(w) \/ Start
      PROVE  RetentionTypeOK' /\ KeptInv' /\ log \subseteq log' /\ now' = now
  BY <1>4 DEF IInv, TypeOK, RetentionTypeOK, KeptInv, Events, SweepFails, Wake, Start,
              tableVars, FirstTable, Table
<1> QED
  BY <1>1, <1>2, <1>3, <1>4 DEF RetentionStep

\* What a statement sees completes what the report owes and what was seen.
LEMMA StatementKeeps ==
  ASSUME IInv, ExecuteStatement
  PROVE  IInv'
<1> USE RetentionAssumption DEF IInv
<1> DEFINE n == Len(seen) + 1
           new == {e \in Events : Matches(Statements[n], e) /\ InRange(Statements[n], e)}
<1>1. /\ Running /\ seen' = Append(seen, new)
      /\ UNCHANGED <<now, rows, log, next_id, sweep, started, since, known>>
  BY DEF ExecuteStatement, tableVars
<1>2. Len(seen) < Len(Statements) /\ seen \in Seq(SUBSET log) /\ Events \subseteq log
  BY DEF ExecuteStatement, TypeOK, RetentionTypeOK, Events
<1>3. new \subseteq log
  BY <1>2
<1> HIDE DEF new
<1>4. /\ seen' \in Seq(SUBSET log) /\ Len(seen') = n
      /\ DOMAIN seen' = 1..n /\ DOMAIN seen = 1..(n - 1)
      /\ seen'[n] = new /\ \A i \in DOMAIN seen : seen'[i] = seen[i]
  BY <1>1, <1>2, <1>3
<1>5. TypeOK' /\ KeptInv' /\ TimeInv' /\ IdleInv'
  BY <1>1, <1>2, <1>4 DEF TypeOK, RetentionTypeOK, KeptInv, TimeInv, IdleInv, Events,
                          Running, Statements
<1>6. ASSUME NEW e \in log, Matches(Statements[n], e), e.at >= since, e.at >= SafeSince
      PROVE  e \in new
  <2>1. e.at \in Int /\ now \in Int /\ started \in Int
    BY DEF TypeOK, RetentionTypeOK, Row
  <2>2. ANALYTICS_RETENTION_DAYS \in Nat
    BY WindowsAreNat DEF Window, Table
  <2>3. now <= started + MaxLatency
    BY <1>1 DEF TimeInv
  <2>4. e.at >= now - ANALYTICS_RETENTION_DAYS
    BY <1>6, <2>1, <2>2, <2>3 DEF SafeSince
  <2>5. e \in Events
    BY <2>4 DEF KeptInv
  <2> QED
    BY <1>6, <2>5 DEF InRange, new
<1>7. SafeSince' = SafeSince
  BY <1>1 DEF SafeSince
<1>8. NothingMissing'
  <2> SUFFICES ASSUME NEW i \in 1..n, NEW e \in known, Matches(Statements[i], e),
                      e.at >= since, e.at >= SafeSince
               PROVE  e \in seen'[i]
    BY <1>1, <1>4, <1>7 DEF NothingMissing
  <2>1. CASE i = n
    BY <2>1, <1>4, <1>6 DEF TypeOK
  <2>2. CASE i # n
    BY <2>2, <1>2, <1>4 DEF NothingMissing
  <2> QED
    BY <2>1, <2>2
<1>9. SeenGrows'
  <2> SUFFICES ASSUME NEW i \in 1..n, NEW j \in 1..n, i <= j, since >= SafeSince,
                      NEW e \in seen'[i], Matches(Statements[j], e), e.at >= since
               PROVE  e \in seen'[j]
    BY <1>1, <1>4, <1>7 DEF SeenGrows
  <2>1. CASE j = n
    <3>1. e \in log
      BY <1>4
    <3>2. e.at \in Int /\ since \in Int /\ SafeSince \in Int
      BY <3>1, WindowsAreNat DEF TypeOK, RetentionTypeOK, Row, SafeSince, Window, Table
    <3> QED
      BY <2>1, <3>1, <3>2, <1>4, <1>6
  <2>2. CASE j # n
    BY <2>2, <1>2, <1>4 DEF SeenGrows
  <2> QED
    BY <2>1, <2>2
<1> QED
  BY <1>5, <1>8, <1>9

LEMMA NextIInv == IInv /\ [Next]_vars => IInv'
<1> SUFFICES ASSUME IInv, [Next]_vars PROVE IInv'
  OBVIOUS
<1> USE RetentionAssumption
<1>1. CASE RetentionStep /\ UNCHANGED reportVars
  <2>1. RetentionTypeOK' /\ KeptInv' /\ log \subseteq log' /\ now' = now
    BY <1>1, RetentionKeeps
  <2>2. TypeOK'
    BY <1>1, <2>1 DEF IInv, TypeOK, reportVars
  <2>3. TimeInv' /\ IdleInv' /\ NothingMissing' /\ SeenGrows'
    BY <1>1, <2>1 DEF IInv, TimeInv, IdleInv, NothingMissing, SeenGrows, SafeSince,
                      Running, NotRunning, reportVars
  <2> QED
    BY <2>1, <2>2, <2>3 DEF IInv
<1>2. CASE \E days \in Days : BeginReport(days)
  BY <1>2, ReportAssumption DEF BeginReport, IInv, TypeOK, RetentionTypeOK, KeptInv, TimeInv,
      IdleInv, NothingMissing, SeenGrows, Running, NotRunning, tableVars, Events, Statements
<1>3. CASE ExecuteStatement
  BY <1>3, StatementKeeps
<1>4. CASE EndReport
  BY <1>4 DEF EndReport, NoReport, IInv, TypeOK, RetentionTypeOK, KeptInv, TimeInv,
      IdleInv, NothingMissing, SeenGrows, Running, NotRunning, tableVars, Events, Statements
<1>5. CASE Tick
  <2>1. TypeOK' /\ IdleInv'
    BY <1>5 DEF Tick, RetentionTick, IInv, TypeOK, RetentionTypeOK, IdleInv, Running,
                NotRunning, tableVars, reportVars
  <2>2. KeptInv'
    <3>1. now' = now + 1 /\ log' = log /\ Events' = Events
      BY <1>5 DEF Tick, RetentionTick, tableVars, Events
    <3>2. now \in Int /\ ANALYTICS_RETENTION_DAYS \in Int /\ \A e \in log : e.at \in Int
      BY WindowsAreNat DEF IInv, TypeOK, RetentionTypeOK, Row, Window, Table
    <3> QED
      BY <3>1, <3>2 DEF IInv, KeptInv
  <2>3. TimeInv'
    BY <1>5 DEF Tick, RetentionTick, IInv, TypeOK, RetentionTypeOK, TimeInv, Running,
                NotRunning, reportVars
  <2>4. NothingMissing' /\ SeenGrows'
    BY <1>5 DEF Tick, RetentionTick, IInv, NothingMissing, SeenGrows, SafeSince, reportVars
  <2> QED
    BY <2>1, <2>2, <2>3, <2>4 DEF IInv
<1>6. CASE Crash
  BY <1>6 DEF Crash, Stop, NoReport, IInv, TypeOK, RetentionTypeOK, KeptInv, TimeInv,
      IdleInv, NothingMissing, SeenGrows, Running, NotRunning, tableVars, Events, Statements
<1>7. CASE UNCHANGED vars
  BY <1>7 DEF vars, tableVars, reportVars, IInv, TypeOK, RetentionTypeOK, KeptInv, TimeInv,
      IdleInv, NothingMissing, SeenGrows, SafeSince, Running, NotRunning, Events
<1> QED
  BY <1>1, <1>2, <1>3, <1>4, <1>5, <1>6, <1>7 DEF Next

THEOREM Invariance == Spec => []IInv
<1>1. Init => IInv
  BY InitIInv
<1>2. IInv /\ [Next]_vars => IInv'
  BY NextIInv
<1> QED
  BY <1>1, <1>2, PTL DEF Spec

\* A report of any length misses none of the events that it owes, however many
\* sweeps run beside it.
THEOREM ReportsMissNothing == Spec => []NothingMissing
<1>1. IInv => NothingMissing
  BY DEF IInv
<1> QED
  BY <1>1, Invariance, PTL

\* Within one report a later statement sees all that an earlier one saw of
\* what both ask for, unless the report reaches into what is being swept.
THEOREM ReportsGrow == Spec => []SeenGrows
<1>1. IInv => SeenGrows
  BY DEF IInv
<1> QED
  BY <1>1, Invariance, PTL

-----------------------------------------------------------------------------
(* Lemmas about sums and lists.                                            *)

\* A set of subsets of a finite set has a smallest one.
LEMMA SmallestSubset ==
  ASSUME NEW D, IsFiniteSet(D), NEW T, T \subseteq SUBSET D, T # {}
  PROVE  \E s \in T : \A u \in T : ~(u \subseteq s /\ u # s)
<1>1. IsWellFoundedOn(StrictSubsetOrdering(D), FiniteSubsetsOf(D))
  BY FS_StrictSubsetOrderingWellFounded
<1>2. T \subseteq FiniteSubsetsOf(D)
  <2>1. \A s \in T : s \subseteq D /\ IsFiniteSet(s)
    BY FS_Subset
  <2> QED
    BY <2>1 DEF FiniteSubsetsOf
<1>3. PICK s \in T : \A u \in T : ~(<<u, s>> \in StrictSubsetOrdering(D))
  BY <1>1, <1>2, WFMin
<1>4. ASSUME NEW u \in T, u \subseteq s, u # s PROVE FALSE
  BY <1>3, <1>4 DEF StrictSubsetOrdering
<1> QED
  BY <1>3, <1>4

\* A sum over the keys of a partition counts what is partitioned.
LEMMA GroupSum ==
  ASSUME NEW f, IsFiniteSet(DOMAIN f), NEW R, IsFiniteSet(R), NEW key,
         \A k \in DOMAIN f : f[k] = Cardinality({e \in R : key[e] = k})
  PROVE  Total(f) = Cardinality({e \in R : key[e] \in DOMAIN f})
<1> DEFINE D == DOMAIN f
           Chosen(s) == CHOOSE x \in s : TRUE
           g == [s \in SUBSET D |-> Cardinality({e \in R : key[e] \in s})]
           Sums(h) == h = [s \in SUBSET D |->
                             IF s = {} THEN 0 ELSE f[Chosen(s)] + h[s \ {Chosen(s)}]]
           iter == CHOOSE h : Sums(h)
<1>1. Total(f) = iter[D]
  BY DEF Total, MapThenSumSet, MapThenFoldSet
<1> HIDE DEF D
<1>2. ASSUME NEW s \in SUBSET D, s # {}
      PROVE  g[s] = f[Chosen(s)] + g[s \ {Chosen(s)}]
  <2> DEFINE x == Chosen(s)
             A == {e \in R : key[e] = x}
             B == {e \in R : key[e] \in s \ {x}}
             C == {e \in R : key[e] \in s}
  <2>1. x \in s
    BY <1>2
  <2> HIDE DEF x
  <2>2. C = A \cup B /\ A \cap B = {}
    BY <2>1
  <2>3. IsFiniteSet(A) /\ IsFiniteSet(B)
    BY FS_Subset
  <2>4. Cardinality(A \cup B) = Cardinality(A) + Cardinality(B) - Cardinality(A \cap B)
    BY <2>3, FS_Union
  <2>5. Cardinality(A \cap B) = 0 /\ Cardinality(A) \in Nat /\ Cardinality(B) \in Nat
    BY <2>2, <2>3, FS_EmptySet, FS_CardinalityType
  <2>6. Cardinality(C) = Cardinality(A) + Cardinality(B)
    <3> HIDE DEF A, B, C
    <3> QED
      BY <2>2, <2>4, <2>5
  <2>7. f[x] = Cardinality(A) /\ g[s] = Cardinality(C) /\ g[s \ {x}] = Cardinality(B)
    BY <2>1 DEF D
  <2> QED
    BY <2>6, <2>7 DEF x
<1>3. Sums(g)
  <2>1. g[{}] = 0
    <3>1. {e \in R : key[e] \in {}} = {}
      OBVIOUS
    <3> QED
      BY <3>1, FS_EmptySet
  <2> DEFINE h == [s \in SUBSET D |->
                      IF s = {} THEN 0 ELSE f[Chosen(s)] + g[s \ {Chosen(s)}]]
  <2>2. \A s \in SUBSET D : g[s] = h[s]
    <3> HIDE DEF g, Chosen
    <3> QED
      BY <1>2, <2>1
  <2>3. g = h
    <3>1. g = [s \in SUBSET D |-> g[s]] /\ h = [s \in SUBSET D |-> h[s]]
      OBVIOUS
    <3> HIDE DEF g, h
    <3> QED
      BY <2>2, <3>1
  <2> QED
    BY <2>3
<1>4. Sums(iter)
  <2> HIDE DEF Sums
  <2> QED
    BY <1>3
<1>5. \A s \in SUBSET D : iter[s] = g[s]
  <2> DEFINE T == {s \in SUBSET D : iter[s] # g[s]}
  <2> HIDE DEF iter, g, Chosen
  <2> SUFFICES ASSUME T # {} PROVE FALSE
    OBVIOUS
  <2>1. \A s \in SUBSET D :
           /\ iter[s] = IF s = {} THEN 0 ELSE f[Chosen(s)] + iter[s \ {Chosen(s)}]
           /\ g[s] = IF s = {} THEN 0 ELSE f[Chosen(s)] + g[s \ {Chosen(s)}]
    BY <1>3, <1>4
  <2>2. PICK s \in T : \A u \in T : ~(u \subseteq s /\ u # s)
    <3>1. T \subseteq SUBSET D
      OBVIOUS
    <3> HIDE DEF T
    <3> QED
      BY <3>1, SmallestSubset DEF D
  <2>3. s # {}
    BY <2>1
  <2>4. Chosen(s) \in s
    BY <2>3 DEF Chosen
  <2>5. s \ {Chosen(s)} \in SUBSET D /\ s \ {Chosen(s)} \notin T
    BY <2>2, <2>4
  <2> QED
    BY <2>1, <2>3, <2>5
<1> QED
  BY <1>1, <1>5 DEF D

\* A finite set of numbers has a least one.
LEMMA FiniteLeast ==
  ASSUME NEW D, IsFiniteSet(D), NEW v, \A k \in D : v[k] \in Int, D # {}
  PROVE  \E m \in D : \A k \in D : v[m] <= v[k]
<1> DEFINE T == {s \in SUBSET D : s # {} /\ ~\E m \in s : \A k \in s : v[m] <= v[k]}
<1> SUFFICES ASSUME T # {} PROVE FALSE
  OBVIOUS
<1>1. PICK s \in T : \A u \in T : ~(u \subseteq s /\ u # s)
  <2>1. T \subseteq SUBSET D
    OBVIOUS
  <2> HIDE DEF T
  <2> QED
    BY <2>1, SmallestSubset
<1>2. PICK x \in s : TRUE
  OBVIOUS
<1>3. s \ {x} \notin T /\ s \ {x} \in SUBSET D
  BY <1>1, <1>2
<1>4. CASE s \ {x} = {}
  <2>1. \A k \in s : k = x
    BY <1>4
  <2>2. v[x] <= v[x]
    BY <1>2
  <2> QED
    BY <1>1, <1>2, <2>1, <2>2
<1>5. CASE s \ {x} # {}
  <2>1. PICK m \in s \ {x} : \A k \in s \ {x} : v[m] <= v[k]
    BY <1>3, <1>5
  <2>2. v[m] \in Int /\ v[x] \in Int /\ \A k \in s : v[k] \in Int
    BY <1>2, <2>1
  <2>3. CASE v[m] <= v[x]
    <3>1. \A k \in s : v[m] <= v[k]
      BY <2>1, <2>3
    <3> QED
      BY <1>1, <2>1, <3>1
  <2>4. CASE ~(v[m] <= v[x])
    <3>1. \A k \in s : v[x] <= v[k]
      BY <2>1, <2>2, <2>4
    <3> QED
      BY <1>1, <1>2, <3>1
  <2> QED
    BY <2>3, <2>4
<1> QED
  BY <1>4, <1>5

LEMMA Minimum ==
  ASSUME NEW m \in Nat, NEW n \in Nat
  PROVE  Min({m, n}) = IF m <= n THEN m ELSE n
<1>1. \A x : x \in {m, n} /\ (\A y \in {m, n} : x <= y)
               => x = IF m <= n THEN m ELSE n
  OBVIOUS
<1>2. LET x == IF m <= n THEN m ELSE n IN x \in {m, n} /\ \A y \in {m, n} : x <= y
  OBVIOUS
<1> QED
  BY <1>1, <1>2 DEF Min

\* There are n greatest elements, or as many as there are elements.
LEMMA GreatestExist ==
  ASSUME NEW v, IsFiniteSet(DOMAIN v), \A k \in DOMAIN v : v[k] \in Int, NEW n \in Nat
  PROVE  LET K == Greatest(v, n)
             size == Cardinality(DOMAIN v)
         IN  /\ K \subseteq DOMAIN v
             /\ Cardinality(K) = IF n <= size THEN n ELSE size
<1> DEFINE D == DOMAIN v
           Tops(s, m) == {K \in SUBSET s :
                            /\ Cardinality(K) = m
                            /\ \A k \in K, l \in s \ K : v[k] >= v[l]}
<1>1. \A s \in SUBSET D : IsFiniteSet(s) /\ Cardinality(s) \in Nat
  BY FS_Subset, FS_CardinalityType
<1>2. ASSUME NEW m \in Nat, m <= Cardinality(D) PROVE Tops(D, m) # {}
  <2> DEFINE T == {s \in SUBSET D : m <= Cardinality(s) /\ Tops(s, m) = {}}
  <2> SUFFICES ASSUME T # {} PROVE FALSE
    BY <1>2
  <2>1. PICK s \in T : \A u \in T : ~(u \subseteq s /\ u # s)
    <3>1. T \subseteq SUBSET D
      OBVIOUS
    <3> HIDE DEF T, D
    <3> QED
      BY <3>1, SmallestSubset DEF D
  <2>2. s \in SUBSET D /\ m <= Cardinality(s) /\ Tops(s, m) = {} /\ Cardinality(s) \in Nat
    BY <1>1, <2>1
  <2>3. Cardinality(s) # m
    <3>1. Cardinality(s) = m => s \in Tops(s, m)
      OBVIOUS
    <3> QED
      BY <2>2, <3>1
  <2>4. s # {} /\ IsFiniteSet(s)
    BY <1>1, <2>2, <2>3, FS_EmptySet
  <2>5. PICK x \in s : \A k \in s : v[x] <= v[k]
    BY <2>2, <2>4, FiniteLeast
  <2>6. Cardinality(s \ {x}) = Cardinality(s) - 1
    BY <2>4, <2>5, FS_RemoveElement
  <2>7. s \ {x} \in SUBSET D /\ s \ {x} \notin T /\ m <= Cardinality(s \ {x})
    BY <2>1, <2>2, <2>3, <2>5, <2>6
  <2>8. PICK K \in Tops(s \ {x}, m) : TRUE
    BY <2>7
  <2>9. K \in Tops(s, m)
    <3>1. K \subseteq s \ {x} /\ Cardinality(K) = m
      BY <2>8
    <3>2. ASSUME NEW k \in K, NEW l \in s \ K PROVE v[k] >= v[l]
      <4>1. CASE l = x
        BY <2>2, <2>5, <3>1, <4>1
      <4>2. CASE l # x
        BY <2>8, <3>1, <4>2
      <4> QED
        BY <4>1, <4>2
    <3> QED
      BY <3>1, <3>2
  <2> QED
    BY <2>2, <2>9
<1> DEFINE m == IF n <= Cardinality(D) THEN n ELSE Cardinality(D)
<1>3. m \in Nat /\ m <= Cardinality(D) /\ Min({n, Cardinality(D)}) = m
  BY <1>1, Minimum
<1>4. PICK K \in Tops(D, m) : TRUE
  BY <1>2, <1>3
<1>5. Greatest(v, n) = CHOOSE L \in kSubset(m, D) : \A k \in L, l \in D \ L : v[k] >= v[l]
  BY <1>3 DEF Greatest
<1>6. K \in kSubset(m, D) /\ \A k \in K, l \in D \ K : v[k] >= v[l]
  BY <1>4 DEF kSubset
<1>7. Greatest(v, n) \in kSubset(m, D)
  BY <1>5, <1>6
<1> QED
  BY <1>7 DEF kSubset

\* The values of a function on a finite set.
LEMMA FiniteImage ==
  ASSUME NEW R, IsFiniteSet(R), NEW key
  PROVE  LET T == {key[e] : e \in R}
         IN  /\ IsFiniteSet(T) /\ Cardinality(T) \in Nat
             /\ Cardinality(T) <= Cardinality(R)
<1> DEFINE T == {key[e] : e \in R}
           f == [e \in R |-> key[e]]
<1>1. f \in Surjection(R, T)
  <2>1. f \in [R -> T] /\ \A t \in T : \E e \in R : f[e] = t
    OBVIOUS
  <2> QED
    BY <2>1 DEF Surjection
<1>2. IsFiniteSet(T) /\ Cardinality(T) <= Cardinality(R)
  <2> HIDE DEF f, T
  <2> QED
    BY <1>1, FS_Surjection
<1> QED
  BY <1>2, FS_CardinalityType

\* Subsets of a finite set.
LEMMA FiniteSubset ==
  ASSUME NEW R, IsFiniteSet(R), NEW S, S \subseteq R
  PROVE  /\ IsFiniteSet(S) /\ Cardinality(S) \in Nat /\ Cardinality(R) \in Nat
         /\ Cardinality(S) <= Cardinality(R)
BY FS_Subset, FS_CardinalityType

\* Two subsets without a common element.
LEMMA DisjointSubsets ==
  ASSUME NEW R, IsFiniteSet(R), NEW S, NEW T, S \subseteq R, T \subseteq R, S \cap T = {}
  PROVE  Cardinality(S) + Cardinality(T) <= Cardinality(R)
<1>1. /\ IsFiniteSet(S) /\ Cardinality(S) \in Nat
      /\ IsFiniteSet(T) /\ Cardinality(T) \in Nat
      /\ Cardinality(S \cup T) <= Cardinality(R)
  <2>1. S \cup T \subseteq R
    OBVIOUS
  <2> QED
    BY <2>1, FiniteSubset
<1>2. Cardinality(S \cup T) = Cardinality(S) + Cardinality(T) - Cardinality(S \cap T)
  BY <1>1, FS_Union
<1>3. Cardinality(S \cap T) = 0
  BY FS_EmptySet
<1> QED
  BY <1>1, <1>2, <1>3

\* The sum over a list of the largest groups is at most what is grouped, and
\* all of it if the list is not full.
LEMMA TopSum ==
  ASSUME NEW R, IsFiniteSet(R), NEW key, NEW n \in Nat, NEW counts,
         counts = [k \in {key[e] : e \in R} |-> Cardinality({e \in R : key[e] = k})]
  PROVE  LET top == Top(counts, n)
         IN  /\ Total(top) \in Nat /\ Total(top) <= Cardinality(R)
             /\ Cardinality(DOMAIN top) = n \/ Total(top) = Cardinality(R)
<1> DEFINE D == {key[e] : e \in R}
           K == Greatest(counts, n)
           top == Top(counts, n)
           listed == {e \in R : key[e] \in K}
<1>1. IsFiniteSet(D) /\ Cardinality(D) \in Nat
  BY FiniteImage
<1>2. DOMAIN counts = D /\ \A k \in D : counts[k] = Cardinality({e \in R : key[e] = k})
  OBVIOUS
<1>3. \A k \in D : counts[k] \in Int
  <2>1. \A k : {e \in R : key[e] = k} \subseteq R
    OBVIOUS
  <2>2. \A k : Cardinality({e \in R : key[e] = k}) \in Nat
    BY <2>1, FiniteSubset
  <2> HIDE DEF D
  <2> QED
    BY <1>2, <2>2
<1> HIDE DEF D
<1>4. K \subseteq D /\ Cardinality(K) = IF n <= Cardinality(D) THEN n ELSE Cardinality(D)
  <2> HIDE DEF K
  <2> QED
    BY <1>1, <1>2, <1>3, GreatestExist DEF K
<1>5. DOMAIN top = K /\ \A k \in K : top[k] = Cardinality({e \in R : key[e] = k})
  <2>1. top = [k \in K |-> counts[k]]
    BY DEF Top, Restrict
  <2> HIDE DEF top, K
  <2> QED
    BY <1>2, <1>4, <2>1
<1> HIDE DEF K, top
<1>6. Total(top) = Cardinality(listed)
  <2>1. IsFiniteSet(K)
    BY <1>1, <1>4, FiniteSubset
  <2> QED
    BY <1>5, <2>1, GroupSum
<1>7. Total(top) \in Nat /\ Total(top) <= Cardinality(R)
  BY <1>6, FiniteSubset
<1>8. Cardinality(K) = n \/ Total(top) = Cardinality(R)
  <2> SUFFICES ASSUME Cardinality(K) # n PROVE Total(top) = Cardinality(R)
    OBVIOUS
  <2>1. K = D
    BY <1>1, <1>4, FS_Subset
  <2>2. listed = R
    BY <2>1 DEF D
  <2> QED
    BY <1>6, <2>2
<1> QED
  BY <1>5, <1>7, <1>8 DEF top

-----------------------------------------------------------------------------
(* The figures.                                                            *)

LEMMA PagesOfTop ==
  ASSUME NEW R, IsFiniteSet(R)
  PROVE  /\ Total(TopPages(R)) \in Nat /\ Total(TopPages(R)) <= Cardinality(R)
         /\ Total(TopProjects(R)) \in Nat /\ Total(TopProjects(R)) <= Cardinality(R)
<1>1. TOP_LIMIT \in Nat
  BY FigureAssumption
<1>2. Total(TopPages(R)) \in Nat /\ Total(TopPages(R)) <= Cardinality(R)
  <2> DEFINE key == [e \in R |-> e.content.path]
             counts == [k \in {key[e] : e \in R} |-> Cardinality({e \in R : key[e] = k})]
  <2>1. Grouped(R, LAMBDA e : e.content.path, Cardinality) = counts
    BY DEF Grouped, GroupOf
  <2>2. TopPages(R) = Top(counts, TOP_LIMIT)
    BY <2>1 DEF TopPages
  <2> HIDE DEF key
  <2> QED
    BY <1>1, <2>2, TopSum
<1>3. Total(TopProjects(R)) \in Nat /\ Total(TopProjects(R)) <= Cardinality(R)
  <2> DEFINE key == [e \in R |-> e.content.project_slug]
             counts == [k \in {key[e] : e \in R} |-> Cardinality({e \in R : key[e] = k})]
  <2>1. Grouped(R, LAMBDA e : e.content.project_slug, Cardinality) = counts
    BY DEF Grouped, GroupOf
  <2>2. TopProjects(R) = Top(counts, TOP_LIMIT)
    BY <2>1 DEF TopProjects
  <2> HIDE DEF key
  <2> QED
    BY <1>1, <2>2, TopSum
<1> QED
  BY <1>2, <1>3

\* The visits.
LEMMA EngagementFigures ==
  ASSUME NEW R, IsFiniteSet(R)
  PROVE  LET figures == Engagement(R)
         IN  /\ figures.sessions = Cardinality(SessionsOf(R))
             /\ figures.pages = Cardinality(PageViewsOf(R))
             /\ figures.bounced + figures.returning <= figures.sessions
             /\ figures.bounced + figures.lasting <= figures.sessions
<1> DEFINE Of(s) == {e \in R : e.content.session = s}
           sessions == SessionsOf(R)
           views == [s \in sessions |-> Cardinality(PageViewsOf(Of(s)))]
           bouncing == {s \in sessions : Cardinality(Of(s)) = 1 /\ views[s] = 1}
           lasting == {s \in sessions : Cardinality(Of(s)) > 1}
           returning == {s \in sessions : Cardinality({Day(e) : e \in Of(s)}) > 1}
<1>1. Grouped(R, Session, Cardinality) = [s \in sessions |-> Cardinality(Of(s))]
  BY DEF Grouped, GroupOf, Session, SessionsOf
<1>2. /\ Engagement(R).sessions = Cardinality(sessions)
      /\ Engagement(R).pages = Total(views)
      /\ Engagement(R).bounced = Cardinality(bouncing)
      /\ Engagement(R).lasting = Cardinality(lasting)
      /\ Engagement(R).returning = Cardinality(returning)
  BY <1>1 DEF Engagement, GroupOf, Session
<1>3. IsFiniteSet(sessions) /\ Cardinality(sessions) \in Nat
  <2> DEFINE key == [e \in R |-> e.content.session]
  <2>1. sessions = {key[e] : e \in R}
    BY DEF SessionsOf
  <2> HIDE DEF sessions, key
  <2> QED
    BY <2>1, FiniteImage
<1>4. Total(views) = Cardinality(PageViewsOf(R))
  <2> DEFINE V == PageViewsOf(R)
             key == [e \in V |-> e.content.session]
  <2>1. IsFiniteSet(V)
    <3>1. V \subseteq R
      BY DEF PageViewsOf
    <3> QED
      BY <3>1, FiniteSubset
  <2>2. ASSUME NEW s \in sessions PROVE views[s] = Cardinality({e \in V : key[e] = s})
    <3>1. PageViewsOf(Of(s)) = {e \in V : key[e] = s}
      BY DEF PageViewsOf
    <3> QED
      BY <3>1
  <2>3. {e \in V : key[e] \in sessions} = V
    BY DEF SessionsOf, PageViewsOf
  <2>4. DOMAIN views = sessions
    OBVIOUS
  <2> HIDE DEF V, key, sessions, views
  <2> QED
    BY <1>3, <2>1, <2>2, <2>3, <2>4, GroupSum DEF V
<1>5. bouncing \cap lasting = {}
  OBVIOUS
<1>6. bouncing \cap returning = {}
  <2> SUFFICES ASSUME NEW s \in bouncing \cap returning PROVE FALSE
    OBVIOUS
  <2> DEFINE S == Of(s)
             key == [e \in S |-> Day(e)]
  <2>1. IsFiniteSet(S) /\ Cardinality(S) = 1
    BY FiniteSubset
  <2>2. {Day(e) : e \in S} = {key[e] : e \in S}
    OBVIOUS
  <2>3. Cardinality({key[e] : e \in S}) > 1
    BY <2>2
  <2> HIDE DEF S, key
  <2>4. Cardinality({key[e] : e \in S}) <= 1 /\ Cardinality({key[e] : e \in S}) \in Nat
    BY <2>1, FiniteImage
  <2> QED
    BY <2>3, <2>4
<1>7. /\ Cardinality(bouncing) + Cardinality(lasting) <= Cardinality(sessions)
      /\ Cardinality(bouncing) + Cardinality(returning) <= Cardinality(sessions)
  <2>1. bouncing \subseteq sessions /\ lasting \subseteq sessions /\ returning \subseteq sessions
    OBVIOUS
  <2> HIDE DEF sessions, bouncing, lasting, returning
  <2> QED
    BY <1>3, <1>5, <1>6, <2>1, DisjointSubsets
<1> QED
  BY <1>2, <1>4, <1>7

\* The views of all days together are the views.
LEMMA DaysTogether ==
  ASSUME NEW R, IsFiniteSet(R)
  PROVE  LET series == Timeseries(R)
         IN  Total([d \in DOMAIN series |-> series[d].page_views])
                = Cardinality(PageViewsOf(R))
<1> DEFINE days == {Day(e) : e \in R}
           V == PageViewsOf(R)
           key == [e \in V |-> Day(e)]
           series == Timeseries(R)
           views == [d \in DOMAIN series |-> series[d].page_views]
<1>1. DOMAIN series = days
  BY DEF Timeseries, Grouped
<1>2. ASSUME NEW d \in days
      PROVE  series[d].page_views = Cardinality({e \in V : key[e] = d})
  <2>1. PageViewsOf({e \in R : Day(e) = d}) = {e \in V : key[e] = d}
    BY DEF PageViewsOf
  <2>2. series[d].page_views = Cardinality(PageViewsOf({e \in R : Day(e) = d}))
    BY DEF Timeseries, Grouped, GroupOf
  <2> QED
    BY <2>1, <2>2
<1>3. IsFiniteSet(days)
  <2> DEFINE day == [e \in R |-> Day(e)]
  <2>1. days = {day[e] : e \in R}
    OBVIOUS
  <2> HIDE DEF days, day
  <2> QED
    BY <2>1, FiniteImage
<1>4. IsFiniteSet(V)
  <2>1. V \subseteq R
    BY DEF PageViewsOf
  <2> QED
    BY <2>1, FiniteSubset
<1>5. {e \in V : key[e] \in days} = V
  BY DEF PageViewsOf
<1>6. DOMAIN views = days
      /\ \A d \in days : views[d] = Cardinality({e \in V : key[e] = d})
  <2> HIDE DEF series, V, key, days
  <2> QED
    BY <1>1, <1>2
<1>7. Total(views) = Cardinality(V)
  <2> HIDE DEF views, V, key, days
  <2> QED
    BY <1>3, <1>4, <1>5, <1>6, GroupSum
<1> QED
  BY <1>7

\* The events of all hours together are the events.
LEMMA HoursTogether ==
  ASSUME NEW R, IsFiniteSet(R), \A e \in R : e.at \in Int
  PROVE  Total(HourlyActivity(R)) = Cardinality(R)
<1> DEFINE hour == [e \in R |-> (e.at \div HOUR) % 24]
           activity == HourlyActivity(R)
<1>1. /\ DOMAIN activity = 0..23
      /\ \A h \in 0..23 : activity[h] = Cardinality({e \in R : hour[e] = h})
  <2>1. \A h \in 0..23 : {e \in R : hour[e] = h} = {e \in R : (e.at \div HOUR) % 24 = h}
    OBVIOUS
  <2> HIDE DEF hour
  <2> QED
    BY <2>1 DEF HourlyActivity
<1>2. \A e \in R : hour[e] \in 0..23
  <2>1. ASSUME NEW e \in R PROVE (e.at \div HOUR) % 24 \in 0..23
    <3>1. e.at \div HOUR \in Int
      BY FigureAssumption
    <3> QED
      BY <3>1
  <2> QED
    BY <2>1
<1>3. {e \in R : hour[e] \in 0..23} = R
  BY <1>2
<1>4. IsFiniteSet(0..23)
  <2>1. \A a, b \in Int : IsFiniteSet(a..b)
    BY FS_Interval
  <2>2. 0 \in Int /\ 23 \in Int
    OBVIOUS
  <2> QED
    BY <2>1, <2>2, Zenon
<1> HIDE DEF hour, activity
<1>5. Total(activity) = Cardinality({e \in R : hour[e] \in DOMAIN activity})
  <2>1. IsFiniteSet(DOMAIN activity)
    BY <1>1, <1>4, Zenon
  <2>2. \A h \in DOMAIN activity : activity[h] = Cardinality({e \in R : hour[e] = h})
    BY <1>1, Zenon
  <2> QED
    BY <2>1, <2>2, GroupSum
<1>6. Total(activity) = Cardinality(R)
  BY <1>1, <1>3, <1>5
<1> QED
  BY <1>6 DEF activity

\* Every session counts once among the devices and once among the referrers.
LEMMA DimensionsTogether ==
  ASSUME NEW R, IsFiniteSet(R)
  PROVE  LET referrers == Referrers(R)
         IN  /\ Total(DeviceBreakdown(R)) = Cardinality(SessionsOf(R))
             /\ Total(referrers) \in Nat
             /\ \/ Cardinality(DOMAIN referrers) = TOP_LIMIT
                \/ Total(referrers) = Cardinality(SessionsOf(R))
<1>1. IsFiniteSet(SessionsOf(R))
  <2> DEFINE key == [e \in R |-> e.content.session]
  <2>1. SessionsOf(R) = {key[e] : e \in R}
    BY DEF SessionsOf
  <2> HIDE DEF key
  <2> QED
    BY <2>1, FiniteImage
<1>2. \A column : DOMAIN DimensionOf(R, column) = SessionsOf(R)
  BY DEF DimensionOf, Grouped, SessionsOf, Session
<1>3. ASSUME NEW f, DOMAIN f = SessionsOf(R)
      PROVE  LET S == SessionsOf(R)
                 counts == CountValues(f)
             IN  /\ DOMAIN counts = {f[s] : s \in S} /\ IsFiniteSet(DOMAIN counts)
                 /\ counts = [v \in {f[s] : s \in S} |->
                                 Cardinality({s \in S : f[s] = v})]
                 /\ Total(counts) = Cardinality(S)
  <2> DEFINE S == SessionsOf(R)
             counts == CountValues(f)
  <2>1. counts = [v \in {f[s] : s \in S} |-> Cardinality({s \in S : f[s] = v})]
    BY <1>3 DEF CountValues, Range
  <2>2. DOMAIN counts = {f[s] : s \in S}
    BY <2>1
  <2>3. IsFiniteSet(DOMAIN counts)
    BY <1>1, <2>2, FiniteImage
  <2>4. {s \in S : f[s] \in DOMAIN counts} = S
    BY <2>2
  <2>5. \A v \in DOMAIN counts : counts[v] = Cardinality({s \in S : f[s] = v})
    BY <2>1
  <2> HIDE DEF S, counts
  <2>6. Total(counts) = Cardinality(S)
    BY <1>1, <2>3, <2>4, <2>5, GroupSum DEF S
  <2> QED
    BY <2>1, <2>2, <2>3, <2>6 DEF S, counts
<1>4. Total(DeviceBreakdown(R)) = Cardinality(SessionsOf(R))
  BY <1>2, <1>3 DEF DeviceBreakdown
<1>5. /\ Total(Referrers(R)) \in Nat
      /\ \/ Cardinality(DOMAIN Referrers(R)) = TOP_LIMIT
         \/ Total(Referrers(R)) = Cardinality(SessionsOf(R))
  <2> DEFINE f == DimensionOf(R, "referrer_host")
             counts == CountValues(f)
  <2>1. Referrers(R) = Top(counts, TOP_LIMIT)
    BY DEF Referrers
  <2>2. counts = [v \in {f[s] : s \in SessionsOf(R)} |->
                     Cardinality({s \in SessionsOf(R) : f[s] = v})]
    BY <1>2, <1>3
  <2>3. TOP_LIMIT \in Nat
    BY FigureAssumption
  <2> HIDE DEF counts, f
  <2> QED
    BY <1>1, <2>1, <2>2, <2>3, TopSum
<1> QED
  BY <1>4, <1>5

\* A type's events, a language's sessions and the recent events.
LEMMA OtherFigures ==
  ASSUME NEW R, IsFiniteSet(R), \A e \in R : e.at \in Int
  PROVE  /\ DOMAIN EventBreakdown(R) = Range(SubSeq(Statements, 1, 7))
         /\ \A type \in DOMAIN EventBreakdown(R) :
               EventBreakdown(R)[type] = Cardinality({e \in R : e.content.type = type})
         /\ \A l \in DOMAIN LanguageDistribution(R) :
               /\ LanguageDistribution(R)[l] \in Nat
               /\ LanguageDistribution(R)[l] <= Cardinality(SessionsOf(R))
         /\ Cardinality(RecentEvents(R))
               = IF RECENT_EVENTS_LIMIT <= Cardinality(R)
                   THEN RECENT_EVENTS_LIMIT ELSE Cardinality(R)
<1>1. /\ DOMAIN EventBreakdown(R) = Range(SubSeq(Statements, 1, 7))
      /\ \A type \in DOMAIN EventBreakdown(R) :
            EventBreakdown(R)[type] = Cardinality({e \in R : e.content.type = type})
  BY DEF EventBreakdown
<1>2. ASSUME NEW l \in DOMAIN LanguageDistribution(R)
      PROVE  /\ LanguageDistribution(R)[l] \in Nat
             /\ LanguageDistribution(R)[l] <= Cardinality(SessionsOf(R))
  <2> DEFINE S == {e \in {e \in R : e.content.locale # 0} : e.content.locale = l}
             key == [e \in R |-> e.content.session]
  <2>1. LanguageDistribution(R)[l] = Cardinality(SessionsOf(S))
    BY DEF LanguageDistribution, Grouped, GroupOf
  <2>2. SessionsOf(S) \subseteq SessionsOf(R)
    BY DEF SessionsOf
  <2>3. IsFiniteSet(SessionsOf(R))
    <3>1. SessionsOf(R) = {key[e] : e \in R}
      BY DEF SessionsOf
    <3> HIDE DEF key
    <3> QED
      BY <3>1, FiniteImage
  <2> HIDE DEF S
  <2> QED
    BY <2>1, <2>2, <2>3, FiniteSubset
<1>3. Cardinality(RecentEvents(R))
         = IF RECENT_EVENTS_LIMIT <= Cardinality(R) THEN RECENT_EVENTS_LIMIT ELSE Cardinality(R)
  <2> DEFINE v == [e \in R |-> e.at]
  <2>1. DOMAIN v = R /\ (\A k \in R : v[k] \in Int) /\ RECENT_EVENTS_LIMIT \in Nat
    BY FigureAssumption
  <2>2. RecentEvents(R) = Greatest(v, RECENT_EVENTS_LIMIT)
    BY DEF RecentEvents
  <2> HIDE DEF v
  <2> QED
    BY <2>1, <2>2, GreatestExist
<1> QED
  BY <1>1, <1>2, <1>3

-----------------------------------------------------------------------------
(* The figures of one report.                                              *)

\* What a statement saw is what it asks for, and there are finitely many events.
SeenInv ==
    /\ IsFiniteSet(log)
    /\ \A i \in DOMAIN seen : \A e \in seen[i] :
          Matches(Statements[i], e) /\ InRange(Statements[i], e)

LEMMA InitSeen == Init => SeenInv
  BY FS_EmptySet DEF Init, RetentionInit, SeenInv

LEMMA NextSeen == IInv /\ SeenInv /\ [Next]_vars => SeenInv'
<1> SUFFICES ASSUME IInv, SeenInv, [Next]_vars PROVE SeenInv'
  OBVIOUS
<1>1. IsFiniteSet(log')
  <2>1. ASSUME NEW t \in Table, NEW late \in 0..MaxLatency, NEW c \in Content[t],
               Insert(t, late, c)
        PROVE  IsFiniteSet(log')
    <3>1. \E x : log' \in {log, log \cup {x}}
      BY <2>1 DEF Insert
    <3> QED
      BY <3>1, FS_AddElement DEF SeenInv
  <2>2. CASE log' = log
    BY <2>2 DEF SeenInv
  <2> QED
    BY <2>1, <2>2 DEF Next, RetentionStep, Renew, SweepTable, SweepFails, Wake, Start,
       BeginReport, ExecuteStatement, EndReport, Tick, RetentionTick, Crash, Stop,
       vars, tableVars
<1>2. CASE ExecuteStatement
  <2> DEFINE n == Len(seen) + 1
             new == {e \in Events : Matches(Statements[n], e) /\ InRange(Statements[n], e)}
  <2>1. seen' = Append(seen, new) /\ since' = since /\ seen \in Seq(SUBSET log)
        /\ new \subseteq log
    BY <1>2 DEF ExecuteStatement, IInv, TypeOK, RetentionTypeOK, Events
  <2>2. \A e : \A i : InRange(Statements[i], e)' <=> InRange(Statements[i], e)
    BY <2>1 DEF InRange
  <2>3. \A e \in new : Matches(Statements[n], e) /\ InRange(Statements[n], e)
    OBVIOUS
  <2> HIDE DEF new
  <2>4. /\ DOMAIN seen' = DOMAIN seen \cup {n} /\ seen'[n] = new
        /\ \A i \in DOMAIN seen : seen'[i] = seen[i]
    BY <2>1
  <2>5. ASSUME NEW i \in DOMAIN seen', NEW e \in seen'[i]
        PROVE  Matches(Statements[i], e) /\ InRange(Statements[i], e)
    BY <2>3, <2>4, <2>5 DEF SeenInv
  <2> QED
    BY <1>1, <2>1, <2>5 DEF SeenInv, InRange, Matches
<1>3. CASE seen' = <<>>
  BY <1>1, <1>3 DEF SeenInv
<1>4. CASE UNCHANGED <<seen, since>>
  BY <1>1, <1>4 DEF SeenInv, InRange, Matches
<1> QED
  BY <1>2, <1>3, <1>4 DEF Next, BeginReport, EndReport, NoReport, Tick, Crash,
     vars, reportVars

\* The statements in the order of the report.
LEMMA Positions ==
  /\ \A n \in 1..7 : Seen(Statements[n]) = seen[n]
  /\ Range(SubSeq(Statements, 1, 7))
       = {"page_view", "project_view", "github_click", "cv_download", "contact_click",
          "project_link_click", "language_change"}
  /\ Seen("page_view") = seen[1]
  /\ Seen("total_events") = seen[8] /\ Seen("unique_sessions") = seen[9]
  /\ Seen("language_distribution") = seen[10] /\ Seen("timeseries") = seen[11]
  /\ Seen("top_projects") = seen[12] /\ Seen("recent_events") = seen[13]
  /\ Seen("engagement") = seen[14] /\ Seen("top_pages") = seen[15]
  /\ Seen("event_breakdown") = seen[16] /\ Seen("device_breakdown") = seen[17]
  /\ Seen("referrers") = seen[18] /\ Seen("hourly_activity") = seen[19]
  /\ Done("hourly_activity") => 19 <= Len(seen)
<1>1. DOMAIN Statements = 1..19
  BY DEF Statements
<1>2. \A i, j \in 1..19 : Statements[i] = Statements[j] => i = j
  BY DEF Statements
<1>3. ASSUME NEW n \in 1..19
      PROVE  Position(Statements[n]) = n
  BY <1>1, <1>2 DEF Position
<1>4. \A n \in 1..19 : Seen(Statements[n]) = seen[n]
  BY <1>3 DEF Seen
<1>5. /\ Statements[1] = "page_view" /\ Statements[8] = "total_events"
      /\ Statements[9] = "unique_sessions" /\ Statements[10] = "language_distribution"
      /\ Statements[11] = "timeseries" /\ Statements[12] = "top_projects"
      /\ Statements[13] = "recent_events" /\ Statements[14] = "engagement"
      /\ Statements[15] = "top_pages" /\ Statements[16] = "event_breakdown"
      /\ Statements[17] = "device_breakdown" /\ Statements[18] = "referrers"
      /\ Statements[19] = "hourly_activity"
  BY DEF Statements
<1>6. Range(SubSeq(Statements, 1, 7))
       = {"page_view", "project_view", "github_click", "cv_download", "contact_click",
          "project_link_click", "language_change"}
  BY DEF Statements, Range
<1>7. Done("hourly_activity") => 19 <= Len(seen)
  BY <1>3, <1>5 DEF Done
<1> QED
  BY <1>4, <1>5, <1>6, <1>7

\* Sessions of more events are more sessions.
LEMMA SessionsGrow ==
  ASSUME NEW R, IsFiniteSet(R), NEW S, S \subseteq R
  PROVE  /\ Cardinality(SessionsOf(S)) <= Cardinality(SessionsOf(R))
         /\ Cardinality(SessionsOf(S)) \in Nat /\ Cardinality(SessionsOf(R)) \in Nat
<1> DEFINE key == [e \in R |-> e.content.session]
<1>1. SessionsOf(R) = {key[e] : e \in R} /\ SessionsOf(S) \subseteq SessionsOf(R)
  BY DEF SessionsOf
<1> HIDE DEF key
<1>2. IsFiniteSet(SessionsOf(R))
  BY <1>1, FiniteImage
<1> QED
  BY <1>1, <1>2, FiniteSubset

\* What the statements of a whole report saw, in their order.
LEMMA WholeReport ==
  ASSUME IInv, SeenInv, since >= SafeSince, Done("hourly_activity")
  PROVE  /\ \A i \in 1..19 : IsFiniteSet(seen[i]) /\ \A e \in seen[i] : e.at \in Int
         /\ \A i \in 1..7 : /\ \A e \in seen[i] : e.content.type = Statements[i]
                            /\ \A j \in {8, 11, 14, 16, 19} : seen[i] \subseteq seen[j]
         /\ seen[8] \subseteq seen[13] /\ seen[8] \subseteq seen[19]
         /\ seen[9] \subseteq seen[14] /\ seen[10] \subseteq seen[14]
         /\ seen[11] \subseteq seen[14]
         /\ seen[12] \subseteq {e \in seen[16] : e.content.type = "project_view"}
         /\ seen[15] \subseteq {e \in seen[16] : e.content.type = "page_view"}
         /\ seen[17] \subseteq seen[18]
<1>1. seen \in Seq(SUBSET log) /\ log \subseteq Row("analytics_events")
  BY DEF IInv, TypeOK, RetentionTypeOK
<1>2. 1..19 \subseteq DOMAIN seen /\ \A i \in 1..19 : seen[i] \subseteq log
  <2>1. DOMAIN seen = 1..Len(seen) /\ Len(seen) \in Nat
        /\ \A i \in DOMAIN seen : seen[i] \subseteq log
    BY <1>1
  <2>2. 19 <= Len(seen)
    BY Positions
  <2> QED
    BY <2>1, <2>2
<1>3. \A i \in 1..19 : IsFiniteSet(seen[i]) /\ \A e \in seen[i] : e.at \in Int
  <2>1. ASSUME NEW i \in 1..19
        PROVE  IsFiniteSet(seen[i]) /\ \A e \in seen[i] : e.at \in Int
    <3>1. seen[i] \subseteq log
      BY <1>1, <1>2
    <3> QED
      BY <1>1, <3>1, FiniteSubset DEF SeenInv, Row
  <2> QED
    BY <2>1
<1>4. ASSUME NEW i \in 1..19, NEW j \in 1..19, i <= j, i # 13,
             \A e \in seen[i] : Matches(Statements[i], e) => Matches(Statements[j], e)
      PROVE  seen[i] \subseteq seen[j]
  <2>1. Statements[i] # "recent_events"
    BY <1>4 DEF Statements
  <2>2. \A e \in seen[i] : Matches(Statements[j], e) /\ e.at >= since
    BY <1>2, <1>4, <2>1 DEF SeenInv, InRange
  <2> QED
    BY <1>2, <1>4, <2>2 DEF IInv, SeenGrows
<1>5. \A j \in {8, 11, 13, 14, 16, 19} : \A e : Matches(Statements[j], e)
  BY DEF Matches, Statements
<1>6. /\ \A i \in 1..7 : \A e \in seen[i] : e.content.type = Statements[i]
      /\ \A e \in seen[12] : e.content.type = "project_view"
      /\ \A e \in seen[15] : e.content.type = "page_view"
  <2>1. \A i \in 1..19 : \A e \in seen[i] : Matches(Statements[i], e)
    BY <1>2 DEF SeenInv
  <2>2. \A i \in 1..7 : \A e : Matches(Statements[i], e) => e.content.type = Statements[i]
    BY DEF Matches, Statements
  <2>3. /\ \A e : Matches(Statements[12], e) => e.content.type = "project_view"
        /\ \A e : Matches(Statements[15], e) => e.content.type = "page_view"
    BY DEF Matches, Statements
  <2> QED
    BY <2>1, <2>2, <2>3
<1>7. \A e : Matches(Statements[17], e) => Matches(Statements[18], e)
  BY DEF Matches, Statements
<1>8. \A i \in 1..7 : \A j \in {8, 11, 14, 16, 19} : seen[i] \subseteq seen[j]
  BY <1>4, <1>5
<1>9. /\ seen[8] \subseteq seen[13] /\ seen[8] \subseteq seen[19]
      /\ seen[9] \subseteq seen[14] /\ seen[10] \subseteq seen[14]
      /\ seen[11] \subseteq seen[14]
      /\ seen[12] \subseteq seen[16] /\ seen[15] \subseteq seen[16]
      /\ seen[17] \subseteq seen[18]
  BY <1>4, <1>5, <1>7
<1> QED
  BY <1>3, <1>6, <1>8, <1>9

\* The seven types' events are disjoint parts of all events.
LEMMA TypesTogether ==
  ASSUME NEW R, IsFiniteSet(R), NEW f, DOMAIN f = Range(SubSeq(Statements, 1, 7)),
         \A type \in DOMAIN f :
            /\ f[type] = Cardinality(Seen(type)) /\ Seen(type) \subseteq R
            /\ \A e \in Seen(type) : e.content.type = type
  PROVE  Total(f) <= Cardinality(R)
<1> DEFINE S == {e \in R : e.content.type \in DOMAIN f /\ e \in Seen(e.content.type)}
           key == [e \in S |-> e.content.type]
<1>1. IsFiniteSet(S) /\ Cardinality(S) <= Cardinality(R)
  <2>1. S \subseteq R
    OBVIOUS
  <2> HIDE DEF S
  <2> QED
    BY <2>1, FiniteSubset
<1>2. \A type \in DOMAIN f : Seen(type) = {e \in S : key[e] = type}
  OBVIOUS
<1>3. \A type \in DOMAIN f : f[type] = Cardinality({e \in S : key[e] = type})
  BY <1>2
<1>4. {e \in S : key[e] \in DOMAIN f} = S
  OBVIOUS
<1>5. IsFiniteSet(DOMAIN f)
  <2>1. DOMAIN f = {Statements[n] : n \in 1..7}
    BY DEF Statements, Range
  <2>2. IsFiniteSet(1..7)
    <3>1. \A a, b \in Int : IsFiniteSet(a..b)
      BY FS_Interval
    <3>2. 1 \in Int /\ 7 \in Int
      OBVIOUS
    <3> QED
      BY <3>1, <3>2, Zenon
  <2> QED
    BY <2>1, <2>2, FiniteImage
<1> HIDE DEF S, key
<1>6. Total(f) = Cardinality({e \in S : key[e] \in DOMAIN f})
  BY <1>1, <1>3, <1>5, GroupSum
<1> QED
  BY <1>1, <1>4, <1>6

\* The figures of one report bound each other in the order of their statements,
\* whatever is recorded and swept between the snapshots they come from.
THEOREM FiguresBounded == Spec => []FiguresOrdered
<1>1. IInv /\ SeenInv => FiguresOrdered
  <2> SUFFICES ASSUME IInv, SeenInv, since >= SafeSince, Done("hourly_activity")
               PROVE  FiguresOrdered
    BY DEF FiguresOrdered
  <2> DEFINE breakdown == EventBreakdown(seen[16])
             engagement == Engagement(seen[14])
             timeseries == Timeseries(seen[11])
             viewsPerDay == [d \in DOMAIN timeseries |-> timeseries[d].page_views]
             referrers == Referrers(seen[18])
             languages == LanguageDistribution(seen[10])
             types == [type \in DOMAIN breakdown |-> Cardinality(Seen(type))]
             C(i) == Cardinality(seen[i])
             Of(type) == {e \in seen[16] : e.content.type = type}
  <2>1. /\ \A i \in 1..19 : IsFiniteSet(seen[i]) /\ C(i) \in Nat
        /\ \A i \in 1..19 : \A e \in seen[i] : e.at \in Int
    BY WholeReport, FS_CardinalityType
  <2>2. \A type : IsFiniteSet(Of(type)) /\ Cardinality(Of(type)) \in Nat
    <3>1. \A type : Of(type) \subseteq seen[16]
      OBVIOUS
    <3> QED
      BY <2>1, <3>1, FiniteSubset
  <2>3. /\ DOMAIN breakdown = Range(SubSeq(Statements, 1, 7))
        /\ \A type \in DOMAIN breakdown : breakdown[type] = Cardinality(Of(type))
    BY <2>1, OtherFigures
  <2>4. \A type \in DOMAIN breakdown : \E n \in 1..7 :
           type = Statements[n] /\ Seen(type) = seen[n]
    <3>1. Range(SubSeq(Statements, 1, 7)) = {Statements[n] : n \in 1..7}
      BY DEF Statements, Range
    <3>2. DOMAIN breakdown = {Statements[n] : n \in 1..7}
      BY <2>3, <3>1
    <3> HIDE DEF breakdown
    <3> QED
      BY <3>2, Positions
  <2> HIDE DEF breakdown
  <2>5. \A type \in DOMAIN breakdown : types[type] <= breakdown[type]
    <3>1. ASSUME NEW type \in DOMAIN breakdown
          PROVE  Cardinality(Seen(type)) <= Cardinality(Of(type))
      <4>1. PICK n \in 1..7 : type = Statements[n] /\ Seen(type) = seen[n]
        BY <2>4
      <4>2. seen[n] \subseteq Of(type)
        BY <4>1, WholeReport
      <4> QED
        BY <2>2, <4>1, <4>2, FiniteSubset
    <3> QED
      BY <2>3, <3>1
  <2>6. Total(types) <= C(8)
    <3>1. \A type \in DOMAIN types :
             /\ types[type] = Cardinality(Seen(type)) /\ Seen(type) \subseteq seen[8]
             /\ \A e \in Seen(type) : e.content.type = type
      BY <2>4, WholeReport
    <3>2. DOMAIN types = Range(SubSeq(Statements, 1, 7))
      BY <2>3
    <3> HIDE DEF types
    <3> QED
      BY <2>1, <3>1, <3>2, TypesTogether
  <2>7. C(8) <= Total(HourlyActivity(seen[19]))
    <3>1. Total(HourlyActivity(seen[19])) = C(19)
      BY <2>1, HoursTogether
    <3>2. seen[8] \subseteq seen[19]
      BY WholeReport
    <3> QED
      BY <2>1, <3>1, <3>2, FiniteSubset
  <2>8. /\ Total(viewsPerDay) = Cardinality(PageViewsOf(seen[11]))
        /\ engagement.pages = Cardinality(PageViewsOf(seen[14]))
        /\ IsFiniteSet(PageViewsOf(seen[11])) /\ IsFiniteSet(PageViewsOf(seen[14]))
    <3>1. \A R : PageViewsOf(R) \subseteq R
      BY DEF PageViewsOf
    <3> QED
      BY <2>1, <3>1, DaysTogether, EngagementFigures, FiniteSubset
  <2>9. C(1) <= Total(viewsPerDay) /\ Total(viewsPerDay) <= engagement.pages
    <3>1. seen[1] \subseteq PageViewsOf(seen[11])
      BY WholeReport DEF PageViewsOf, Statements
    <3>2. PageViewsOf(seen[11]) \subseteq PageViewsOf(seen[14])
      BY WholeReport DEF PageViewsOf
    <3> HIDE DEF viewsPerDay, engagement
    <3> QED
      BY <2>8, <3>1, <3>2, FiniteSubset
  <2>10. /\ Cardinality(SessionsOf(seen[9])) <= engagement.sessions
         /\ \A l \in DOMAIN languages : languages[l] <= engagement.sessions
         /\ engagement.bounced + engagement.returning <= engagement.sessions
         /\ engagement.bounced + engagement.lasting <= engagement.sessions
    <3>1. /\ engagement.sessions = Cardinality(SessionsOf(seen[14]))
          /\ engagement.bounced + engagement.returning <= engagement.sessions
          /\ engagement.bounced + engagement.lasting <= engagement.sessions
      BY <2>1, EngagementFigures
    <3>2. /\ Cardinality(SessionsOf(seen[9])) <= Cardinality(SessionsOf(seen[14]))
          /\ Cardinality(SessionsOf(seen[10])) <= Cardinality(SessionsOf(seen[14]))
          /\ Cardinality(SessionsOf(seen[10])) \in Nat
          /\ Cardinality(SessionsOf(seen[14])) \in Nat
      BY <2>1, WholeReport, SessionsGrow
    <3>3. \A l \in DOMAIN languages :
             languages[l] \in Nat /\ languages[l] <= Cardinality(SessionsOf(seen[10]))
      BY <2>1, OtherFigures
    <3> HIDE DEF languages, engagement
    <3>4. \A l \in DOMAIN languages : languages[l] <= Cardinality(SessionsOf(seen[14]))
      BY <3>2, <3>3
    <3> QED
      BY <3>1, <3>2, <3>4
  <2>11. /\ Total(TopPages(seen[15])) <= breakdown["page_view"]
         /\ Total(TopProjects(seen[12])) <= breakdown["project_view"]
    <3>1. /\ Total(TopPages(seen[15])) \in Nat /\ Total(TopPages(seen[15])) <= C(15)
          /\ Total(TopProjects(seen[12])) \in Nat /\ Total(TopProjects(seen[12])) <= C(12)
      BY <2>1, PagesOfTop
    <3>2. seen[15] \subseteq Of("page_view") /\ seen[12] \subseteq Of("project_view")
      BY WholeReport
    <3>3. C(15) <= Cardinality(Of("page_view")) /\ C(12) <= Cardinality(Of("project_view"))
      BY <2>2, <3>2, FiniteSubset
    <3>4. /\ breakdown["page_view"] = Cardinality(Of("page_view"))
          /\ breakdown["project_view"] = Cardinality(Of("project_view"))
      BY <2>3, Positions
    <3> HIDE DEF C, Of
    <3>5. /\ Cardinality(Of("page_view")) \in Nat
          /\ Cardinality(Of("project_view")) \in Nat
      BY <2>2
    <3>6. C(15) \in Nat /\ C(12) \in Nat
      BY <2>1
    <3> QED
      BY <3>1, <3>3, <3>4, <3>5, <3>6
  <2>12. \/ Cardinality(DOMAIN referrers) = TOP_LIMIT
         \/ Total(DeviceBreakdown(seen[17])) <= Total(referrers)
    <3>1. /\ Total(DeviceBreakdown(seen[17])) = Cardinality(SessionsOf(seen[17]))
          /\ \/ Cardinality(DOMAIN referrers) = TOP_LIMIT
             \/ Total(referrers) = Cardinality(SessionsOf(seen[18]))
      BY <2>1, DimensionsTogether
    <3>2. Cardinality(SessionsOf(seen[17])) <= Cardinality(SessionsOf(seen[18]))
      BY <2>1, WholeReport, SessionsGrow
    <3> HIDE DEF referrers
    <3> QED
      BY <3>1, <3>2
  <2>13. Cardinality(RecentEvents(seen[13])) >= Min({RECENT_EVENTS_LIMIT, C(8)})
    <3>1. Cardinality(RecentEvents(seen[13]))
             = IF RECENT_EVENTS_LIMIT <= C(13) THEN RECENT_EVENTS_LIMIT ELSE C(13)
      BY <2>1, OtherFigures
    <3>2. C(8) <= C(13)
      BY <2>1, WholeReport, FiniteSubset
    <3>3. RECENT_EVENTS_LIMIT \in Nat
      BY FigureAssumption
    <3>4. Min({RECENT_EVENTS_LIMIT, C(8)})
             = IF RECENT_EVENTS_LIMIT <= C(8) THEN RECENT_EVENTS_LIMIT ELSE C(8)
      BY <2>1, <3>3, Minimum
    <3>5. C(8) \in Nat /\ C(13) \in Nat
      BY <2>1
    <3> HIDE DEF C
    <3> QED
      BY <3>1, <3>2, <3>3, <3>4, <3>5
  <2> HIDE DEF engagement, timeseries, viewsPerDay, referrers, languages, types, C
  <2> QED
    BY <2>5, <2>6, <2>7, <2>9, <2>10, <2>11, <2>12, <2>13, Positions
    DEF FiguresOrdered, breakdown, engagement, timeseries, viewsPerDay, referrers,
        languages, types, C
<1>2. IInv /\ SeenInv /\ [Next]_vars => SeenInv'
  BY NextSeen
<1> QED
  BY <1>1, <1>2, InitSeen, Invariance, PTL DEF Spec

=============================================================================
