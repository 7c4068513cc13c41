-------------------------- MODULE DeploymentProofs --------------------------
(***************************************************************************)
(* What the deployment rests on, for any visitors, owners, tokens and runs *)
(* of the seed. First the boundary of exposure, which needs nothing but    *)
(* the types of the configuration: it holds in every configuration of      *)
(* these types, however the operator came to it. Then the schema: each     *)
(* revision leads every database at the one before it to itself and back,  *)
(* and so, by induction over the revisions, does every command of alembic; *)
(* the inductive invariant says that the database is at its revision.      *)
(***************************************************************************)
EXTENDS Schema, Exposure, SequenceTheorems, WellFoundedInduction, TLAPS

-----------------------------------------------------------------------------
(* The exposure guard and the reverse proxy.                               *)

\* Every step of the operator's keeps the types.
LEMMA TypesAreKept == ExposureTypeOK /\ [ExposureNext]_exposureVars => ExposureTypeOK'
  <1> SUFFICES ASSUME ExposureTypeOK, [ExposureNext]_exposureVars
               PROVE  ExposureTypeOK'
    OBVIOUS
  <1> USE DEF ExposureTypeOK
  <1>1. CASE \E surfaces \in SUBSET NonPublic : EditCaddyfile(surfaces)
    BY <1>1 DEF EditCaddyfile
  <1>2. CASE \E i \in {"funnel", "cloudflare"}, t \in {"caddy", "backend"} :
                PointTunnel(i, t)
    BY <1>2 DEF PointTunnel
  <1>3. CASE \E t \in Token \cup {Unset} : ChangeToken(t)
    BY <1>3 DEF ChangeToken
  <1>4. CASE StopCaddy
    BY <1>4 DEF StopCaddy
  <1>5. CASE StartCaddy
    BY <1>5 DEF StartCaddy
  <1>6. CASE RestartBackend
    BY <1>6 DEF RestartBackend
  <1>7. CASE UNCHANGED exposureVars
    BY <1>7 DEF exposureVars
  <1> QED
    BY <1>1, <1>2, <1>3, <1>4, <1>5, <1>6, <1>7 DEF ExposureNext

\* The configuration has its types, whatever the operator does.
THEOREM ConfigurationTyped == ExposureSpec => []ExposureTypeOK
  <1>1. ExposureInit => ExposureTypeOK
    BY DEF ExposureInit, ExposureTypeOK
  <1> QED
    BY <1>1, TypesAreKept, PTL DEF ExposureSpec

\* A chain of one address that is no proxy's ends in that address.
LEMMA OneHop ==
  ASSUME NEW a, a \notin TrustedProxies
  PROVE  LastUntrusted(<<a>>) = a
  <1>1. {i \in DOMAIN <<a>> : <<a>>[i] \notin TrustedProxies} = {1}
    OBVIOUS
  <1> QED
    BY <1>1 DEF LastUntrusted

\* What a visitor asks of a surface that is not public is refused by the guard
\* once Caddy's public block has marked it, and straight from the tunnel it
\* passes only through cloudflared, to an admin surface, with the default
\* marker where the backend expects that.
LEMMA VisitorsRefused ==
  ASSUME ExposureTypeOK, NEW v \in Visitor, NEW s \in NonPublic,
         NEW e \in OpenMarker
  PROVE  /\ Refused(MarkedPublic(FromInternet(v, s, e)))
         /\ ~Refused(FromInternet(v, s, e)) =>
               /\ ingress = "cloudflare" /\ s \in AdminSurface
               /\ expected = Unset /\ e = Unset
  <1>1. expected = Unset \/ expected \notin OpenMarker
    BY TokensAreSecret DEF ExposureTypeOK
  <1>2. expected # "public"
    BY <1>1 DEF OpenMarker, Unset
  <1>3. s \in AdminSurface \/ s = "internal"
    BY DEF NonPublic
  <1>4. Refused(MarkedPublic(FromInternet(v, s, e)))
    BY <1>2, <1>3 DEF Refused, FromInternet, MarkedPublic, Request
  <1>5. ASSUME ~Refused(FromInternet(v, s, e))
        PROVE  /\ ingress = "cloudflare" /\ s \in AdminSurface
               /\ expected = Unset /\ e = Unset
    <2>1. ingress = "cloudflare" /\ s \in AdminSurface /\ e = expected
      BY <1>3, <1>5 DEF Refused, FromInternet, Request, ExposureTypeOK
    <2> QED
      BY <1>1, <2>1
  <1> QED
    BY <1>4, <1>5

\* In every configuration that the operator can reach, and with whatever
\* marker a request comes, the backend serves no internal surface to the
\* internet, and an admin surface only to the default marker where it expects
\* that and cloudflared's tunnel has been pointed past Caddy.
THEOREM PublicNeverEnters == ExposureSpec => []PublicStaysOut
  <1>1. ExposureTypeOK => PublicStaysOut
    <2> SUFFICES ASSUME ExposureTypeOK, NEW v \in Visitor, NEW s \in NonPublic,
                        NEW e \in OpenMarker, AnswerToVisitor(v, s, e) = "served"
                 PROVE  /\ ingress = "cloudflare" /\ target = "backend"
                        /\ s \in AdminSurface
                        /\ expected = Unset /\ e = Unset
      BY DEF PublicStaysOut
    <2>1. CASE target = "caddy"
      BY <2>1, VisitorsRefused
         DEF AnswerToVisitor, Backend, PublicBlock, Forward, ExposureTypeOK
    <2>2. CASE target = "backend"
      BY <2>2, VisitorsRefused DEF AnswerToVisitor, Backend
    <2> QED
      BY <2>1, <2>2 DEF ExposureTypeOK
  <1> QED
    BY <1>1, ConfigurationTyped, PTL

\* In every configuration, who comes through Caddy keeps an address of its own.
THEOREM CallersKeepTheirAddress == ExposureSpec => []CallersAreThemselves
  <1>1. CallersAreThemselves
    <2>1. ASSUME NEW s \in Surface, NEW e \in OpenMarker, NEW v \in Visitor
          PROVE  ClientOf(MarkedPublic(FromInternet(v, s, e))) = v
      <3>1. v \notin TrustedProxies
        BY AddressesApart DEF Inside, TrustedProxies
      <3>2. LastUntrusted(<<v>>) = v
        BY <3>1, OneHop
      <3>3. /\ MarkedPublic(FromInternet(v, s, e)).proxied
            /\ MarkedPublic(FromInternet(v, s, e)).peer = "caddy"
            /\ MarkedPublic(FromInternet(v, s, e)).chain = <<v>>
        BY DEF MarkedPublic, FromInternet, Request
      <3> QED
        BY <3>2, <3>3 DEF ClientOf, TrustedProxies
    <2>2. ASSUME NEW s \in Surface, NEW e \in OpenMarker, NEW o \in Owner
          PROVE  ClientOf(MarkedAdmin(Request(s, e, o, FALSE, << >>, FALSE))) = o
      <3> DEFINE r == MarkedAdmin(Request(s, e, o, FALSE, << >>, FALSE))
      <3>1. o \notin TrustedProxies
        BY AddressesApart DEF Inside, TrustedProxies
      <3>2. LastUntrusted(<<o>>) = o
        BY <3>1, OneHop
      <3>3. r.proxied /\ r.peer = "caddy" /\ r.chain = Append(<< >>, o)
        BY DEF MarkedAdmin, Request
      <3>4. Append(<< >>, o) = <<o>>
        <4>1. << >> \in Seq({o})
          BY EmptySeq
        <4> QED
          BY <4>1
      <3>5. r.chain = <<o>>
        BY <3>3, <3>4
      <3> HIDE DEF r
      <3>6. ClientOf(r) = o
        BY <3>2, <3>3, <3>5 DEF ClientOf, TrustedProxies
      <3> QED
        BY <3>6 DEF r
    <2> QED
      BY <2>1, <2>2 DEF CallersAreThemselves
  <1> QED
    BY <1>1, PTL

\* In every configuration, the guard refuses nobody that it should serve.
THEOREM NobodyLockedOut == ExposureSpec => []NobodyIsLockedOut
  <1>1. AnswerToNoc = "served"
    BY DEF AnswerToNoc, Backend, Refused, Request, ClientOf, _is_private_peer, Inside,
           AdminSurface
  <1>2. ASSUME caddy, NEW o \in Owner, NEW e \in OpenMarker
        PROVE  /\ AnswerToOwner(o, "admin_page", e) = "page"
               /\ AnswerToOwner(o, "admin_api", e) = "served"
                     <=> stamped = expected
    <2>1. AnswerToOwner(o, "admin_page", e) = "page"
      BY <1>2 DEF AnswerToOwner, AdminBlock, Forward, MarkedAdmin, Request
    <2> DEFINE r == MarkedAdmin(Request("admin_api", e, o, FALSE, << >>, FALSE))
    <2>2. Refused(r) <=> stamped # expected
      BY DEF Refused, MarkedAdmin, Request, NonPublic, AdminSurface
    <2>3. AnswerToOwner(o, "admin_api", e) = Backend(r)
      BY <1>2 DEF AnswerToOwner, AdminBlock, Forward, MarkedAdmin, Request
    <2> QED
      BY <2>1, <2>2, <2>3 DEF Backend
  <1>3. ASSUME ExposureTypeOK, caddy, target = "caddy", NEW v \in Visitor,
               NEW e \in OpenMarker
        PROVE  /\ AnswerToVisitor(v, "api", e) = "served"
               /\ AnswerToVisitor(v, "site", e) = "page"
    BY <1>3 DEF AnswerToVisitor, PublicBlock, ExposureTypeOK, NonPublic, AdminSurface,
                Forward, MarkedPublic, FromInternet, Request, Backend, Refused
  <1>4. ExposureTypeOK => NobodyIsLockedOut
    BY <1>1, <1>2, <1>3 DEF NobodyIsLockedOut
  <1> QED
    BY <1>4, ConfigurationTyped, PTL

-----------------------------------------------------------------------------
(* The revisions of the schema, and what one operation does.               *)

\* The tables that the first revision creates.
InitialNames == {"admin_users", "projects", "skills", "technologies",
                 "analytics_events", "project_images", "project_technologies",
                 "project_translations"}

\* The tables and the enum types of a revision.
Names(n) ==
    (IF n >= 1 THEN InitialNames ELSE {})
        \cup (IF n >= 2 THEN {"login_attempts", "admin_sessions"} ELSE {})
        \cup (IF n >= 3 THEN {"certifications", "certification_translations"} ELSE {})
        \cup (IF n >= 4 THEN {"network_health_samples"} ELSE {})

\* A table as of revision n: the model without what later revisions add to it.
TableAt(t, n) ==
    CASE t = "projects" /\ n < 5 ->
            [Models[t] EXCEPT !.columns = @ \ {"status"},
                              !.enums = [category |-> "project_category"]]
      [] t = "skills" /\ n < 6 ->
            [Models[t] EXCEPT
                !.columns = (@ \ {"featured_rank"}) \cup {"proficiency", "icon_url"}]
      [] t = "analytics_events" /\ n < 7 ->
            [Models[t] EXCEPT !.columns = @ \ {"device_class", "referrer_host"}]
      [] OTHER -> Models[t]

\* The tables of each file of models.
LEMMA FileDomains ==
  /\ DOMAIN AdminModels = {"admin_users", "admin_sessions", "login_attempts"}
  /\ DOMAIN ProjectModels = {"projects", "project_translations", "project_images",
                             "technologies", "project_technologies"}
  /\ DOMAIN SkillModels = {"skills"}
  /\ DOMAIN CertificationModels = {"certifications", "certification_translations"}
  /\ DOMAIN AnalyticsModels = {"analytics_events"}
  /\ DOMAIN HealthModels = {"network_health_samples"}
  BY DEF AdminModels, ProjectModels, SkillModels, CertificationModels, AnalyticsModels,
     HealthModels

\* The models have the tables of the latest revision.
LEMMA ModelNames == DOMAIN Models = Names(7)
  <1>1. DOMAIN Models = UNION {DOMAIN tables : tables \in ModelFiles}
    BY DEF Models
  <1> QED
    BY <1>1, FileDomains DEF ModelFiles, Names, InitialNames

\* A table is described in one file of models only.
LEMMA ModelTables ==
  ASSUME NEW file \in ModelFiles, NEW t \in DOMAIN file
  PROVE  Models[t] = file[t]
  <1>1. \A other \in ModelFiles : t \in DOMAIN other => other = file
    BY FileDomains DEF ModelFiles
  <1> QED
    BY <1>1 DEF Models

\* A database in whose transaction nothing was refused.
Db(tables, types, memo, rows) ==
    [ok |-> TRUE, tables |-> tables, types |-> types, memo |-> memo, rows |-> rows]

\* The operations, one by one: what each makes of such a database when
\* PostgreSQL carries it out. Here, CREATE TABLE.
LEMMA StepCreate ==
  ASSUME NEW T, NEW Y, NEW M, NEW R, NEW n, NEW c, NEW e, NEW r,
         n \notin DOMAIN T, r \subseteq DOMAIN T, (Range(e) \ M) \cap DOMAIN Y = {}
  PROVE  Step(Db(T, Y, M, R), CreateTable(n, c, e, r)) =
            Db(Extend(T, n, Table(c, e, r)),
               WithTypes(Y, Range(e) \ M), M \cup (Range(e) \ M), Extend(R, n, {}))
  BY DEF Step, Possible, Effect, Db, CreateTable, Table, NewTypes

\* DROP TABLE, of a table to which none refers.
LEMMA StepDrop ==
  ASSUME NEW T, NEW Y, NEW M, NEW R, NEW n,
         n \in DOMAIN T, \A t \in DOMAIN T : n \notin T[t].refs
  PROVE  Step(Db(T, Y, M, R), DropTable(n)) = Db(Without(T, n), Y, M, Without(R, n))
  BY DEF Step, Possible, Effect, Db, DropTable, NewTypes

\* CREATE TYPE, of a type that does not exist.
LEMMA StepCreateType ==
  ASSUME NEW T, NEW Y, NEW M, NEW R, NEW n, NEW labels, NEW checkfirst \in BOOLEAN,
         n \notin DOMAIN Y
  PROVE  Step(Db(T, Y, M, R), CreateType(n, labels, checkfirst))
            = Db(T, Extend(Y, n, labels), M, R)
  BY DEF Step, Possible, Effect, Db, CreateType

\* DROP TYPE, of a type that no column has.
LEMMA StepDropType ==
  ASSUME NEW T, NEW Y, NEW M, NEW R, NEW n, NEW checkfirst \in BOOLEAN,
         n \in DOMAIN Y, \A t \in DOMAIN T : n \notin Range(T[t].enums)
  PROVE  Step(Db(T, Y, M, R), DropType(n, checkfirst)) = Db(T, Without(Y, n), M, R)
  BY DEF Step, Possible, Effect, Db, DropType, InUse

\* ALTER TYPE ... RENAME, which the columns follow.
LEMMA StepRename ==
  ASSUME NEW T, NEW Y, NEW M, NEW R, NEW n, NEW to, n \in DOMAIN Y, to \notin DOMAIN Y
  PROVE  Step(Db(T, Y, M, R), RenameType(n, to))
            = Db(Retyped(T, n, to), Extend(Without(Y, n), to, Y[n]), M, R)
  BY DEF Step, Possible, Effect, Db, RenameType

\* ADD COLUMN.
LEMMA StepAddColumn ==
  ASSUME NEW T, NEW Y, NEW M, NEW R, NEW n, NEW c,
         n \in DOMAIN T, c \notin T[n].columns
  PROVE  Step(Db(T, Y, M, R), AddColumn(n, c))
            = Db([T EXCEPT ![n] = WithColumn(@, c)], Y, M, R)
  BY DEF Step, Possible, Effect, Db, AddColumn

\* ADD COLUMN of an enum type, with its default in the rows.
LEMMA StepAddEnum ==
  ASSUME NEW T, NEW Y, NEW M, NEW R, NEW n, NEW c, NEW y,
         n \in DOMAIN T, c \notin T[n].columns, y \in DOMAIN Y
  PROVE  Step(Db(T, Y, M, R), AddEnumColumn(n, c, y))
            = Db([T EXCEPT ![n] = WithEnum(@, c, y)], Y, M,
                 [R EXCEPT ![n] = {Project(p.slug, "complete") : p \in @}])
  BY DEF Step, Possible, Effect, Db, AddEnumColumn

\* DROP COLUMN.
LEMMA StepDropColumn ==
  ASSUME NEW T, NEW Y, NEW M, NEW R, NEW n, NEW c, c \in T[n].columns
  PROVE  Step(Db(T, Y, M, R), DropColumn(n, c))
            = Db([T EXCEPT ![n] = WithoutColumn(@, c)], Y, M,
                 [R EXCEPT ![n] = IF c = "status" THEN {Project(p.slug, "-") : p \in @}
                                        ELSE @])
  BY DEF Step, Possible, Effect, Db, DropColumn

\* ALTER COLUMN ... TYPE, on an empty table.
LEMMA StepAlter ==
  ASSUME NEW T, NEW Y, NEW M, NEW R, NEW n, NEW c, NEW y,
         c \in T[n].columns, y \in DOMAIN Y, R[n] = {}
  PROVE  Step(Db(T, Y, M, R), AlterType(n, c, y))
            = Db([T EXCEPT ![n] = OfType(@, c, y)], Y, M, R)
  BY DEF Step, Possible, Effect, Db, AlterType

\* DELETE.
LEMMA StepDelete ==
  ASSUME NEW T, NEW Y, NEW M, NEW R, NEW n, NEW rows, n \in DOMAIN T
  PROVE  Step(Db(T, Y, M, R), DeleteRows(n, rows)) = Db(T, Y, M, [R EXCEPT ![n] = @ \ rows])
  BY DEF Step, Possible, Effect, Db, DeleteRows

\* UPDATE of the projects that are in development.
LEMMA StepMark ==
  ASSUME NEW T, NEW Y, NEW M, NEW R, NEW n, NEW slugs, n \in DOMAIN T
  PROVE  Step(Db(T, Y, M, R), MarkInDevelopment(n, slugs))
            = Db(T, Y, M, [R EXCEPT ![n] = Marked(@, slugs)])
  BY DEF Step, Possible, Effect, Db, MarkInDevelopment

-----------------------------------------------------------------------------
(* Lists of operations.                                                    *)

\* Induction up to a bound.
LEMMA UpTo ==
  ASSUME NEW m \in Nat, NEW G, 0 \in G, \A n \in 1..m : n - 1 \in G => n \in G
  PROVE  0..m \subseteq G
  <1> DEFINE B == (0..m) \ G
  <1> SUFFICES ASSUME B # {} PROVE FALSE
    OBVIOUS
  <1> DEFINE L == {ss \in Nat \X Nat : ss[1] < ss[2]}
  <1>1. IsWellFoundedOn(L, Nat)
    BY NatLessThanWellFounded DEF OpToRel
  <1>2. PICK n \in B : \A k \in B : ~(<<k, n>> \in L)
    <2>1. B \subseteq Nat /\ B # {}
      OBVIOUS
    <2> HIDE DEF L, B
    <2> QED
      BY <1>1, <2>1, WFMin
  <1>3. n \in 1..m /\ n - 1 \in 0..m /\ n - 1 \in Nat /\ n \in Nat /\ n - 1 < n
    OBVIOUS
  <1>4. <<n - 1, n>> \in L
    BY <1>3
  <1>5. n - 1 \in G
    <2> HIDE DEF L
    <2> QED
      BY <1>2, <1>3, <1>4
  <1> QED
    BY <1>3, <1>5

\* What performing a list of operations means.
LEMMA Performed ==
  ASSUME NEW d, NEW ops, Len(ops) \in Nat
  PROVE  \E h : /\ h[0] = d
                /\ \A n \in 1..Len(ops) : h[n] = Step(h[n - 1], ops[n])
                /\ Perform(d, ops) = h[Len(ops)]
  <1> DEFINE m == Len(ops)
             Rec(h, n) == h = [i \in 0..n |-> IF i = 0 THEN d ELSE Step(h[i - 1], ops[i])]
             G == {n \in 0..m : \E h : Rec(h, n)}
             after == CHOOSE h : Rec(h, m)
  <1>1. 0 \in G
    <2>1. Rec([i \in 0..0 |-> d], 0)
      OBVIOUS
    <2> HIDE DEF Rec
    <2> QED
      BY <2>1
  <1>2. ASSUME NEW n \in 1..m, n - 1 \in G PROVE n \in G
    <2>1. PICK h : Rec(h, n - 1)
      BY <1>2
    <2> DEFINE g == [i \in 0..n |-> IF i = n THEN Step(h[n - 1], ops[n]) ELSE h[i]]
    <2>2. \A i \in 0..n : g[i] = IF i = 0 THEN d ELSE Step(g[i - 1], ops[i])
      <3> TAKE i \in 0..n
      <3>1. CASE i = n
        <4>1. n - 1 \in 0..n /\ n - 1 # n /\ g[n - 1] = h[n - 1]
          OBVIOUS
        <4> QED
          BY <3>1, <4>1
      <3>2. CASE i # n
        <4>1. i \in 0..(n - 1) /\ g[i] = h[i] /\ (i # 0 => g[i - 1] = h[i - 1])
          BY <3>2
        <4> QED
          BY <2>1, <4>1
      <3> QED
        BY <3>1, <3>2
    <2>3. Rec(g, n)
      <3> DEFINE f == [i \in 0..n |-> IF i = 0 THEN d ELSE Step(g[i - 1], ops[i])]
      <3>1. g = [i \in 0..n |-> g[i]] /\ \A i \in 0..n : g[i] = f[i]
        BY <2>2
      <3> HIDE DEF g
      <3> QED
        BY <3>1
    <2> HIDE DEF Rec, g
    <2> QED
      BY <2>3
  <1>3. m \in G
    <2> HIDE DEF G
    <2>1. m \in Nat /\ m \in 0..m
      OBVIOUS
    <2> QED
      BY <1>1, <1>2, <2>1, UpTo
  <1>4. Rec(after, m)
    <2>1. \E h : Rec(h, m)
      BY <1>3
    <2> HIDE DEF Rec
    <2> QED
      BY <2>1
  <1>5. Perform(d, ops) = after[m]
    BY DEF Perform
  <1> HIDE DEF after
  <1> QED
    BY <1>4, <1>5

\* A list of one operation.
LEMMA PerformOne ==
  ASSUME NEW d, NEW a
  PROVE  Perform(d, <<a>>) = Step(d, a)
  <1> DEFINE ops == <<a>>
  <1>1. Len(ops) = 1 /\ ops[1] = a
    OBVIOUS
  <1> HIDE DEF ops
  <1>2. PICK h : /\ h[0] = d
                /\ \A n \in 1..1 : h[n] = Step(h[n - 1], ops[n])
                /\ Perform(d, ops) = h[1]
    BY <1>1, Performed
  <1>3. h[1] = Step(h[0], ops[1])
    BY <1>2
  <1>4. Perform(d, ops) = Step(d, a)
    BY <1>1, <1>2, <1>3
  <1> QED
    BY <1>4 DEF ops

\* A list of two operations.
LEMMA PerformTwo ==
  ASSUME NEW d, NEW a, NEW b
  PROVE  Perform(d, <<a, b>>) = Step(Step(d, a), b)
  <1> DEFINE ops == <<a, b>>
  <1>1. Len(ops) = 2 /\ ops[1] = a /\ ops[2] = b
    OBVIOUS
  <1> HIDE DEF ops
  <1>2. PICK h : /\ h[0] = d
                /\ \A n \in 1..2 : h[n] = Step(h[n - 1], ops[n])
                /\ Perform(d, ops) = h[2]
    BY <1>1, Performed
  <1>3. h[1] = Step(h[0], ops[1]) /\ h[2] = Step(h[1], ops[2])
    BY <1>2
  <1>4. Perform(d, ops) = Step(Step(d, a), b)
    BY <1>1, <1>2, <1>3
  <1> QED
    BY <1>4 DEF ops

\* A list of three operations.
LEMMA PerformThree ==
  ASSUME NEW d, NEW a, NEW b, NEW c
  PROVE  Perform(d, <<a, b, c>>) = Step(Step(Step(d, a), b), c)
  <1> DEFINE ops == <<a, b, c>>
  <1>1. Len(ops) = 3 /\ ops[1] = a /\ ops[2] = b /\ ops[3] = c
    OBVIOUS
  <1> HIDE DEF ops
  <1>2. PICK h : /\ h[0] = d
                /\ \A n \in 1..3 : h[n] = Step(h[n - 1], ops[n])
                /\ Perform(d, ops) = h[3]
    BY <1>1, Performed
  <1>3. h[1] = Step(h[0], ops[1]) /\ h[2] = Step(h[1], ops[2]) /\ h[3] = Step(h[2], ops[3])
    BY <1>2
  <1>4. Perform(d, ops) = Step(Step(Step(d, a), b), c)
    BY <1>1, <1>2, <1>3
  <1> QED
    BY <1>4 DEF ops

-----------------------------------------------------------------------------
(* What a revision has to do, and the tables that it finds.                *)

\* The enum types as of revision n, and their labels.
TypeNames(n) ==
    (IF n >= 1 THEN {"project_category", "skill_category", "tech_category",
                     "analytics_event_type", "locale_type"} ELSE {})
        \cup (IF n >= 5 THEN {"project_status"} ELSE {})

TypeAt(y, n) == IF y = "skill_category" /\ n < 6 THEN OLD_VALUES ELSE ModelLabels[y]

\* Some of the tables, and all; some of the types, and all.
Part(N, n) == [t \in N |-> TableAt(t, n)]
TablesAt(n) == Part(Names(n), n)
TypePart(N, n) == [y \in N |-> TypeAt(y, n)]
TypesAt(n) == TypePart(TypeNames(n), n)

\* What the rows of a database at revision n satisfy.
RowsAt(R, n) ==
    /\ DOMAIN R = Names(n)
    /\ n >= 1 => R["skills"] \subseteq AllSkills
    /\ n >= 5 => \A p \in R["projects"] : p.status = SeededStatus(p.slug)
    /\ n = 7 => "demo" \notin R["analytics_events"]

\* The operations leave the rows of the tables that they do not name, and
\* every visit.
Follows(R, S, ops, n, m) ==
    /\ \A t \in DOMAIN R : t \notin {o.name : o \in Range(ops)} => t \in DOMAIN S /\ S[t] = R[t]
    /\ n >= 1 /\ m >= 1 /\ "visit" \in R["analytics_events"] => "visit" \in S["analytics_events"]

\* The operations take every database at revision n to revision m; a
\* database without tables is at the beginning of a command.
Leads(n, ops, m) ==
    \A M, R : (n = 0 => M = {}) /\ RowsAt(R, n) =>
        \E K, S : /\ Perform(Db(TablesAt(n), TypesAt(n), M, R), ops)
                        = Db(TablesAt(m), TypesAt(m), K, S)
                  /\ RowsAt(S, m)
                  /\ Follows(R, S, ops, n, m)

\* A table whose columns are of no enum type.
LEMMA StepCreatePlain ==
  ASSUME NEW T, NEW n, NEW M, NEW R, NEW name, NEW c, NEW r,
         name \notin DOMAIN T, r \subseteq DOMAIN T
  PROVE  Step(Db(T, TypesAt(n), M, R), CreateTable(name, c, None, r)) =
            Db(Extend(T, name, Table(c, None, r)), TypesAt(n), M, Extend(R, name, {}))
  <1>1. Range(None) = {}
    BY DEF Range, None
  <1> DEFINE Y == TypesAt(n)
             new == Range(None) \ M
  <1>2. new = {}
    BY <1>1
  <1>3. WithTypes(Y, {}) = Y
    BY DEF TypesAt, TypePart, WithTypes
  <1> HIDE DEF Y
  <1>4. Step(Db(T, Y, M, R), CreateTable(name, c, None, r)) =
           Db(Extend(T, name, Table(c, None, r)), WithTypes(Y, new), M \cup new,
              Extend(R, name, {}))
    BY <1>2, StepCreate
  <1>5. M \cup {} = M
    OBVIOUS
  <1> HIDE DEF new
  <1> QED
    BY <1>2, <1>3, <1>4, <1>5 DEF Y

\* To what the tables refer.
RefsOf(t) ==
    CASE t \in {"project_images", "project_translations", "analytics_events"} -> {"projects"}
      [] t = "project_technologies" -> {"projects", "technologies"}
      [] t = "admin_sessions" -> {"admin_users"}
      [] t = "certification_translations" -> {"certifications"}
      [] OTHER -> {}

\* Where each table is described.
LEMMA TableModels ==
  /\ Models["admin_users"] = AdminModels.admin_users
  /\ Models["admin_sessions"] = AdminModels.admin_sessions
  /\ Models["login_attempts"] = AdminModels.login_attempts
  /\ Models["projects"] = ProjectModels.projects
  /\ Models["project_translations"] = ProjectModels.project_translations
  /\ Models["project_images"] = ProjectModels.project_images
  /\ Models["technologies"] = ProjectModels.technologies
  /\ Models["project_technologies"] = ProjectModels.project_technologies
  /\ Models["skills"] = SkillModels.skills
  /\ Models["certifications"] = CertificationModels.certifications
  /\ Models["certification_translations"] = CertificationModels.certification_translations
  /\ Models["analytics_events"] = AnalyticsModels.analytics_events
  /\ Models["network_health_samples"] = HealthModels.network_health_samples
  <1>1. /\ Models["admin_users"] = AdminModels.admin_users
        /\ Models["admin_sessions"] = AdminModels.admin_sessions
        /\ Models["login_attempts"] = AdminModels.login_attempts
    BY FileDomains, ModelTables DEF ModelFiles
  <1>2. /\ Models["projects"] = ProjectModels.projects
        /\ Models["project_translations"] = ProjectModels.project_translations
        /\ Models["project_images"] = ProjectModels.project_images
        /\ Models["technologies"] = ProjectModels.technologies
        /\ Models["project_technologies"] = ProjectModels.project_technologies
    BY FileDomains, ModelTables DEF ModelFiles
  <1>3. /\ Models["skills"] = SkillModels.skills
    BY FileDomains, ModelTables DEF ModelFiles
  <1>4. /\ Models["certifications"] = CertificationModels.certifications
        /\ Models["certification_translations"] = CertificationModels.certification_translations
    BY FileDomains, ModelTables DEF ModelFiles
  <1>5. /\ Models["analytics_events"] = AnalyticsModels.analytics_events
    BY FileDomains, ModelTables DEF ModelFiles
  <1>6. /\ Models["network_health_samples"] = HealthModels.network_health_samples
    BY FileDomains, ModelTables DEF ModelFiles
  <1> QED
    BY <1>1, <1>2, <1>3, <1>4, <1>5, <1>6

\* The foreign keys are the same at every revision.
LEMMA Refs == \A t \in Names(7) : \A n : TableAt(t, n).refs = RefsOf(t)
  <1>1. \A t \in Names(7) : Models[t].refs = RefsOf(t)
    <2>1. /\ AdminModels.admin_users.refs = RefsOf("admin_users")
          /\ AdminModels.admin_sessions.refs = RefsOf("admin_sessions")
          /\ AdminModels.login_attempts.refs = RefsOf("login_attempts")
      BY DEF AdminModels, Table, RefsOf
    <2>2. /\ ProjectModels.projects.refs = RefsOf("projects")
          /\ ProjectModels.project_translations.refs = RefsOf("project_translations")
          /\ ProjectModels.project_images.refs = RefsOf("project_images")
          /\ ProjectModels.technologies.refs = RefsOf("technologies")
          /\ ProjectModels.project_technologies.refs = RefsOf("project_technologies")
      BY DEF ProjectModels, Table, RefsOf
    <2>3. /\ SkillModels.skills.refs = RefsOf("skills")
      BY DEF SkillModels, Table, RefsOf
    <2>4. /\ CertificationModels.certifications.refs = RefsOf("certifications")
          /\ CertificationModels.certification_translations.refs = RefsOf("certification_translations")
      BY DEF CertificationModels, Table, RefsOf
    <2>5. /\ AnalyticsModels.analytics_events.refs = RefsOf("analytics_events")
      BY DEF AnalyticsModels, Table, RefsOf
    <2>6. /\ HealthModels.network_health_samples.refs = RefsOf("network_health_samples")
      BY DEF HealthModels, Table, RefsOf
    <2> QED
      BY <2>1, <2>2, <2>3, <2>4, <2>5, <2>6, TableModels DEF Names, InitialNames
  <1>2. \A t \in Names(7) : \A n : TableAt(t, n).refs = Models[t].refs
    BY DEF TableAt
  <1> QED
    BY <1>1, <1>2

\* Some of the tables, without one of them.
LEMMA WithoutPart == \A N, n, x : Without(Part(N, n), x) = Part(N \ {x}, n)
  BY DEF Without, Restrict, Part

\* Some of the tables, with one more.
LEMMA ExtendPart == \A N, n, x : Extend(Part(N, n), x, TableAt(x, n)) = Part(N \cup {x}, n)
  BY DEF Extend, Part

\* DROP TABLE leaves some of the tables.
LEMMA StepDropPart ==
  ASSUME NEW N, NEW n, NEW Y, NEW M, NEW R, NEW x \in N, N \subseteq Names(7),
         \A t \in N : x \notin RefsOf(t)
  PROVE  Step(Db(Part(N, n), Y, M, R), DropTable(x)) = Db(Part(N \ {x}, n), Y, M, Without(R, x))
  <1>1. /\ DOMAIN Part(N, n) = N
        /\ \A t \in N : x \notin Part(N, n)[t].refs
    BY Refs DEF Part
  <1> QED
    BY <1>1, WithoutPart, StepDrop

\* What the changes of its columns make of a table.
LEMMA WithColumnTable ==
  ASSUME NEW c, NEW e, NEW r, NEW x
  PROVE  WithColumn(Table(c, e, r), x) = Table(c \cup {x}, e, r)
  <1>1. ASSUME NEW w, w = WithColumn(Table(c, e, r), x)
        PROVE  w = Table(c \cup {x}, e, r)
    BY <1>1 DEF WithColumn, Table
  <1> QED
    BY <1>1

\* A table with one more column of an enum type.
LEMMA WithEnumTable ==
  ASSUME NEW c, NEW e, NEW r, NEW x, NEW y
  PROVE  WithEnum(Table(c, e, r), x, y) = Table(c \cup {x}, Extend(e, x, y), r)
  <1>1. ASSUME NEW k, NEW w, w = [Table(k, e, r) EXCEPT !.enums = Extend(@, x, y)]
        PROVE  w = Table(k, Extend(e, x, y), r)
    BY <1>1 DEF Table
  <1> QED
    BY <1>1, WithColumnTable DEF WithEnum

\* A table without one of its columns.
LEMMA WithoutColumnTable ==
  ASSUME NEW c, NEW e, NEW r, NEW x
  PROVE  WithoutColumn(Table(c, e, r), x) = Table(c \ {x}, Without(e, x), r)
  <1>1. ASSUME NEW w, w = WithoutColumn(Table(c, e, r), x)
        PROVE  w = Table(c \ {x}, Without(e, x), r)
    BY <1>1 DEF WithoutColumn, Table
  <1> QED
    BY <1>1

\* The tables that a revision changes.
ProjectEnums == [category |-> "project_category", status |-> "project_status"]
SkillEnums == [category |-> "skill_category"]
EventEnums == [event_type |-> "analytics_event_type", locale |-> "locale_type"]
ProjectColumns == Models["projects"].columns
EventColumns == Models["analytics_events"].columns

\* The table of the projects, before and after they have a status.
LEMMA ProjectsAt ==
  /\ \A n \in Nat : n >= 5 => TableAt("projects", n) = Table(ProjectColumns, ProjectEnums, {})
  /\ \A n \in Nat : n < 5 => TableAt("projects", n)
                = Table(ProjectColumns \ {"status"}, [category |-> "project_category"], {})
  /\ "status" \in ProjectColumns
  <1>1. Models["projects"] = Table(ProjectColumns, ProjectEnums, {})
    <2>1. PICK c : ProjectModels.projects = Table(c, ProjectEnums, {})
      BY DEF ProjectModels, ProjectEnums
    <2> QED
      BY <2>1, TableModels DEF ProjectColumns, Table
  <1>2. "status" \in ProjectColumns
    BY TableModels DEF ProjectColumns, ProjectModels, Table
  <1>3. ASSUME NEW n \in Nat, n >= 5
        PROVE  TableAt("projects", n) = Table(ProjectColumns, ProjectEnums, {})
    <2>1. ~(n < 5)
      BY <1>3
    <2> QED
      BY <1>1, <2>1 DEF TableAt
  <1>4. ASSUME NEW n \in Nat, n < 5
        PROVE  TableAt("projects", n)
                = Table(ProjectColumns \ {"status"}, [category |-> "project_category"], {})
    <2>1. ASSUME NEW c, NEW e, NEW r, NEW w,
                 w = [Table(c, e, r) EXCEPT !.columns = @ \ {"status"},
                                            !.enums = [category |-> "project_category"]]
          PROVE  w = Table(c \ {"status"}, [category |-> "project_category"], r)
      BY <2>1 DEF Table
    <2> QED
      BY <1>1, <1>4, <2>1 DEF TableAt
  <1> QED
    BY <1>2, <1>3, <1>4

\* The table of the events, before and after they have a device and a referrer.
LEMMA EventsAt ==
  /\ \A n \in Nat : n >= 7 => TableAt("analytics_events", n) = Table(EventColumns, EventEnums, {"projects"})
  /\ \A n \in Nat : n < 7 => TableAt("analytics_events", n)
                = Table(EventColumns \ {"device_class", "referrer_host"}, EventEnums, {"projects"})
  /\ "device_class" \in EventColumns /\ "referrer_host" \in EventColumns
  <1>1. Models["analytics_events"] = Table(EventColumns, EventEnums, {"projects"})
    <2>1. PICK c : AnalyticsModels.analytics_events = Table(c, EventEnums, {"projects"})
      BY DEF AnalyticsModels, EventEnums
    <2> QED
      BY <2>1, TableModels DEF EventColumns, Table
  <1>2. "device_class" \in EventColumns /\ "referrer_host" \in EventColumns
    BY TableModels DEF EventColumns, AnalyticsModels, Table
  <1>3. ASSUME NEW n \in Nat, n >= 7
        PROVE  TableAt("analytics_events", n) = Table(EventColumns, EventEnums, {"projects"})
    <2>1. ~(n < 7)
      BY <1>3
    <2> QED
      BY <1>1, <2>1 DEF TableAt
  <1>4. ASSUME NEW n \in Nat, n < 7
        PROVE  TableAt("analytics_events", n)
                = Table(EventColumns \ {"device_class", "referrer_host"}, EventEnums, {"projects"})
    <2>1. ASSUME NEW c, NEW e, NEW r, NEW w,
                 w = [Table(c, e, r) EXCEPT !.columns = @ \ {"device_class", "referrer_host"}]
          PROVE  w = Table(c \ {"device_class", "referrer_host"}, e, r)
      BY <2>1 DEF Table
    <2> QED
      BY <1>1, <1>4, <2>1 DEF TableAt
  <1> QED
    BY <1>2, <1>3, <1>4

\* The table of the skills, before and after they are reworked.
LEMMA SkillsAt ==
  /\ \A n \in Nat : n >= 6 => TableAt("skills", n)
        = Table({"id", "name", "category", "featured_rank", "sort_order"}, SkillEnums, {})
  /\ \A n \in Nat : n < 6 => TableAt("skills", n)
        = Table({"id", "name", "category", "sort_order", "proficiency", "icon_url"}, SkillEnums, {})
  <1> DEFINE new == {"id", "name", "category", "featured_rank", "sort_order"}
             old == {"id", "name", "category", "sort_order", "proficiency", "icon_url"}
  <1>1. Models["skills"] = Table(new, SkillEnums, {})
    BY TableModels DEF SkillModels, SkillEnums
  <1>2. old = (new \ {"featured_rank"}) \cup {"proficiency", "icon_url"}
    OBVIOUS
  <1> HIDE DEF new, old
  <1>3. ASSUME NEW n \in Nat, n >= 6
        PROVE  TableAt("skills", n) = Table(new, SkillEnums, {})
    <2>1. ~(n < 6)
      BY <1>3
    <2> QED
      BY <1>1, <2>1 DEF TableAt
  <1>4. ASSUME NEW n \in Nat, n < 6
        PROVE  TableAt("skills", n) = Table(old, SkillEnums, {})
    <2>1. ASSUME NEW c, NEW e, NEW r, NEW w,
                 w = [Table(c, e, r) EXCEPT
                        !.columns = (@ \ {"featured_rank"}) \cup {"proficiency", "icon_url"}]
          PROVE  w = Table((c \ {"featured_rank"}) \cup {"proficiency", "icon_url"}, e, r)
      BY <2>1 DEF Table
    <2> QED
      BY <1>1, <1>2, <1>4, <2>1 DEF TableAt
  <1> QED
    BY <1>3, <1>4 DEF new, old

\* A revision that changes one table.
LEMMA OneTable ==
  ASSUME NEW n, NEW m, NEW x \in Names(n), Names(m) = Names(n),
         \A t : t # x => TableAt(t, n) = TableAt(t, m)
  PROVE  [TablesAt(n) EXCEPT ![x] = TableAt(x, m)] = TablesAt(m)
  <1> DEFINE T == [TablesAt(n) EXCEPT ![x] = TableAt(x, m)]
  <1>1. DOMAIN T = Names(m) /\ \A t \in Names(m) : T[t] = TableAt(t, m)
    BY DEF TablesAt, Part
  <1>2. T = [t \in DOMAIN T |-> T[t]]
    OBVIOUS
  <1> HIDE DEF T
  <1>3. T = TablesAt(m)
    BY <1>1, <1>2 DEF TablesAt, Part
  <1> QED
    BY <1>3 DEF T

\* The enum types of the columns.
TypesOf(t) ==
    CASE t = "projects" -> {"project_category", "project_status"}
      [] t = "skills" -> {"skill_category"}
      [] t = "technologies" -> {"tech_category"}
      [] t = "analytics_events" -> {"analytics_event_type", "locale_type"}
      [] t \in {"project_translations", "certification_translations"} -> {"locale_type"}
      [] OTHER -> {}

\* The enum types of the tables, but for the projects and their status.
LEMMA Enums ==
  /\ \A t \in Names(7), n \in Nat : Range(TableAt(t, n).enums) \subseteq TypesOf(t)
  /\ \A n \in Nat : n < 5 => Range(TableAt("projects", n).enums) = {"project_category"}
  <1>1. \A t \in Names(7) : Range(Models[t].enums) \subseteq TypesOf(t)
    <2>1. /\ Range(AdminModels.admin_users.enums) \subseteq TypesOf("admin_users")
          /\ Range(AdminModels.admin_sessions.enums) \subseteq TypesOf("admin_sessions")
          /\ Range(AdminModels.login_attempts.enums) \subseteq TypesOf("login_attempts")
      BY DEF AdminModels, Table, None, TypesOf, Range
    <2>2. /\ Range(ProjectModels.projects.enums) \subseteq TypesOf("projects")
          /\ Range(ProjectModels.project_translations.enums) \subseteq TypesOf("project_translations")
          /\ Range(ProjectModels.project_images.enums) \subseteq TypesOf("project_images")
          /\ Range(ProjectModels.technologies.enums) \subseteq TypesOf("technologies")
          /\ Range(ProjectModels.project_technologies.enums) \subseteq TypesOf("project_technologies")
      BY DEF ProjectModels, Table, None, TypesOf, Range
    <2>3. /\ Range(SkillModels.skills.enums) \subseteq TypesOf("skills")
      BY DEF SkillModels, Table, None, TypesOf, Range
    <2>4. /\ Range(CertificationModels.certifications.enums) \subseteq TypesOf("certifications")
          /\ Range(CertificationModels.certification_translations.enums) \subseteq TypesOf("certification_translations")
      BY DEF CertificationModels, Table, None, TypesOf, Range
    <2>5. /\ Range(AnalyticsModels.analytics_events.enums) \subseteq TypesOf("analytics_events")
      BY DEF AnalyticsModels, Table, None, TypesOf, Range
    <2>6. /\ Range(HealthModels.network_health_samples.enums) \subseteq TypesOf("network_health_samples")
      BY DEF HealthModels, Table, None, TypesOf, Range
    <2> QED
      BY <2>1, <2>2, <2>3, <2>4, <2>5, <2>6, TableModels DEF Names, InitialNames
  <1>2. ASSUME NEW n \in Nat, n < 5
        PROVE  Range(TableAt("projects", n).enums) = {"project_category"}
    <2>1. TableAt("projects", n).enums = [category |-> "project_category"]
      BY <1>2, ProjectsAt DEF Table
    <2> QED
      BY <2>1 DEF Range
  <1>3. ASSUME NEW t \in Names(7), NEW n \in Nat, ~(t = "projects" /\ n < 5)
        PROVE  TableAt(t, n).enums = Models[t].enums
    BY <1>3 DEF TableAt
  <1>4. ASSUME NEW t \in Names(7), NEW n \in Nat
        PROVE  Range(TableAt(t, n).enums) \subseteq TypesOf(t)
    <2>1. CASE t = "projects" /\ n < 5
      BY <1>2, <2>1 DEF TypesOf
    <2>2. CASE ~(t = "projects" /\ n < 5)
      BY <1>1, <1>3, <2>2
    <2> QED
      BY <2>1, <2>2
  <1> QED
    BY <1>2, <1>4

-----------------------------------------------------------------------------
(* Each revision, up and down.                                             *)

\* While the first revision is applied: the tables that exist are empty, and
\* the types of their columns are those that the command has created.
Made(d, N, K) ==
    \E Q : /\ DOMAIN Q = N /\ \A t \in N : Q[t] = {}
           /\ d = Db(Part(N, 1), TypePart(K, 1), K, Q)

\* The operation creates the table x, with columns of the types E.
Creates(o, x, E) ==
    \E c, e, r : /\ o = CreateTable(x, c, e, r)
                 /\ Table(c, e, r) = TableAt(x, 1)
                 /\ Range(e) = E
                 /\ r = RefsOf(x)

\* The types that a table creates have the labels of the first revision.
LEMMA TypesCreated ==
  ASSUME NEW K, NEW E, K \subseteq TypeNames(1), E \subseteq TypeNames(1)
  PROVE  /\ (E \ K) \cap DOMAIN TypePart(K, 1) = {}
         /\ WithTypes(TypePart(K, 1), E \ K) = TypePart(K \cup E, 1)
  <1>1. \A y \in TypeNames(1) : TypeAt(y, 1) = InitialLabels[y]
    BY DEF TypeAt, TypeNames, InitialLabels, ModelLabels, OLD_VALUES
  <1> QED
    BY <1>1 DEF TypePart, WithTypes

\* One table more, where those to which it refers exist.
LEMMA Creating ==
  ASSUME NEW d, NEW o, NEW x, NEW E, NEW N, NEW K, Made(d, N, K), Creates(o, x, E),
         x \notin N, RefsOf(x) \subseteq N, K \subseteq TypeNames(1), E \subseteq TypeNames(1)
  PROVE  Made(Step(d, o), N \cup {x}, K \cup E)
  <1>1. PICK Q : /\ DOMAIN Q = N /\ \A t \in N : Q[t] = {}
                 /\ d = Db(Part(N, 1), TypePart(K, 1), K, Q)
    BY DEF Made
  <1>2. PICK c, e, r : /\ o = CreateTable(x, c, e, r)
                       /\ Table(c, e, r) = TableAt(x, 1)
                       /\ Range(e) = E
                       /\ r = RefsOf(x)
    BY DEF Creates
  <1>3. DOMAIN Part(N, 1) = N
    BY DEF Part
  <1>4. Step(d, o) = Db(Extend(Part(N, 1), x, TableAt(x, 1)),
                        WithTypes(TypePart(K, 1), E \ K), K \cup (E \ K), Extend(Q, x, {}))
    <2>1. /\ x \notin DOMAIN Part(N, 1) /\ r \subseteq DOMAIN Part(N, 1)
          /\ (Range(e) \ K) \cap DOMAIN TypePart(K, 1) = {}
      BY <1>2, <1>3, TypesCreated
    <2>2. Step(Db(Part(N, 1), TypePart(K, 1), K, Q), CreateTable(x, c, e, r))
            = Db(Extend(Part(N, 1), x, Table(c, e, r)),
                 WithTypes(TypePart(K, 1), Range(e) \ K), K \cup (Range(e) \ K),
                 Extend(Q, x, {}))
      BY <2>1, StepCreate
    <2> QED
      BY <1>1, <1>2, <2>2
  <1>5. K \cup (E \ K) = K \cup E
    OBVIOUS
  <1>6. Step(d, o) = Db(Part(N \cup {x}, 1), TypePart(K \cup E, 1), K \cup E, Extend(Q, x, {}))
    BY <1>4, <1>5, TypesCreated, ExtendPart
  <1>7. /\ DOMAIN Extend(Q, x, {}) = N \cup {x}
        /\ \A t \in N \cup {x} : Extend(Q, x, {})[t] = {}
    BY <1>1 DEF Extend
  <1> QED
    BY <1>6, <1>7 DEF Made

\* The tables of the first revision, in order.
LEMMA InitialTables ==
  /\ Creates(InitialSchema[1], "admin_users", {})
  /\ Creates(InitialSchema[2], "projects", {"project_category"})
  /\ Creates(InitialSchema[3], "skills", {"skill_category"})
  /\ Creates(InitialSchema[4], "technologies", {"tech_category"})
  /\ Creates(InitialSchema[5], "analytics_events", {"analytics_event_type", "locale_type"})
  /\ Creates(InitialSchema[6], "project_images", {})
  /\ Creates(InitialSchema[7], "project_technologies", {})
  /\ Creates(InitialSchema[8], "project_translations", {"locale_type"})
  /\ Len(InitialSchema) = 8
  <1>a. Range(None) = {}
    BY DEF Range, None
  <1>b. \A t \in {"admin_users", "technologies", "project_images", "project_technologies",
                  "project_translations"} : TableAt(t, 1) = Models[t]
    BY DEF TableAt
  <1>1. Creates(InitialSchema[1], "admin_users", {})
    BY <1>a, <1>b, TableModels DEF Creates, InitialSchema, AdminModels, RefsOf
  <1>2. Creates(InitialSchema[2], "projects", {"project_category"})
    <2> DEFINE e == [category |-> "project_category"]
               c == {"id", "slug", "category", "github_url", "demo_url", "featured",
                     "sort_order", "created_at", "updated_at"}
    <2>1. ProjectColumns \ {"status"} = c
      BY TableModels DEF ProjectColumns, ProjectModels, Table
    <2>2. TableAt("projects", 1) = Table(c, e, {})
      BY <2>1, ProjectsAt
    <2>3. Range(e) = {"project_category"} /\ {} = RefsOf("projects")
      BY DEF Range, RefsOf
    <2>4. InitialSchema[2] = CreateTable("projects", c, e, {})
      BY DEF InitialSchema
    <2> HIDE DEF c, e
    <2> QED
      BY <2>2, <2>3, <2>4 DEF Creates
  <1>3. Creates(InitialSchema[3], "skills", {"skill_category"})
    <2> DEFINE c == {"id", "name", "category", "proficiency", "sort_order", "icon_url"}
    <2>1. c = {"id", "name", "category", "sort_order", "proficiency", "icon_url"}
      OBVIOUS
    <2>2. TableAt("skills", 1) = Table(c, SkillEnums, {})
      BY <2>1, SkillsAt
    <2>3. Range(SkillEnums) = {"skill_category"} /\ {} = RefsOf("skills")
      BY DEF Range, RefsOf, SkillEnums
    <2>4. InitialSchema[3] = CreateTable("skills", c, SkillEnums, {})
      BY DEF InitialSchema, SkillEnums
    <2> HIDE DEF c
    <2> QED
      BY <2>2, <2>3, <2>4 DEF Creates
  <1>4. Creates(InitialSchema[4], "technologies", {"tech_category"})
    <2> DEFINE e == [category |-> "tech_category"]
               c == {"id", "name", "category", "icon_url"}
    <2>1. TableAt("technologies", 1) = Table(c, e, {})
      BY <1>b, TableModels DEF ProjectModels
    <2>2. Range(e) = {"tech_category"} /\ {} = RefsOf("technologies")
      BY DEF Range, RefsOf
    <2>3. InitialSchema[4] = CreateTable("technologies", c, e, {})
      BY DEF InitialSchema
    <2> HIDE DEF c, e
    <2> QED
      BY <2>1, <2>2, <2>3 DEF Creates
  <1>5. Creates(InitialSchema[5], "analytics_events", {"analytics_event_type", "locale_type"})
    <2> DEFINE c == {"id", "event_type", "session_id", "project_id", "project_slug", "locale",
                     "metadata", "user_agent_hash", "ip_hash", "created_at"}
    <2>1. EventColumns \ {"device_class", "referrer_host"} = c
      BY TableModels DEF EventColumns, AnalyticsModels, Table
    <2>2. TableAt("analytics_events", 1) = Table(c, EventEnums, {"projects"})
      BY <2>1, EventsAt
    <2>3. /\ Range(EventEnums) = {"analytics_event_type", "locale_type"}
          /\ {"projects"} = RefsOf("analytics_events")
      BY DEF Range, RefsOf, EventEnums
    <2>4. InitialSchema[5] = CreateTable("analytics_events", c, EventEnums, {"projects"})
      BY DEF InitialSchema, EventEnums
    <2> HIDE DEF c
    <2> QED
      BY <2>2, <2>3, <2>4 DEF Creates
  <1>6. Creates(InitialSchema[6], "project_images", {})
    BY <1>a, <1>b, TableModels DEF Creates, InitialSchema, ProjectModels, RefsOf
  <1>7. Creates(InitialSchema[7], "project_technologies", {})
    BY <1>a, <1>b, TableModels DEF Creates, InitialSchema, ProjectModels, RefsOf
  <1>8. Creates(InitialSchema[8], "project_translations", {"locale_type"})
    <2> DEFINE e == [locale |-> "locale_type"]
    <2>1. PICK c : /\ InitialSchema[8] = CreateTable("project_translations", c, e, {"projects"})
                   /\ ProjectModels.project_translations = Table(c, e, {"projects"})
      BY DEF InitialSchema, ProjectModels
    <2>2. Range(e) = {"locale_type"} /\ {"projects"} = RefsOf("project_translations")
      BY DEF Range, RefsOf
    <2>3. TableAt("project_translations", 1) = Table(c, e, {"projects"})
      BY <1>b, <2>1, TableModels
    <2> HIDE DEF e
    <2> QED
      BY <2>1, <2>2, <2>3 DEF Creates
  <1>9. Len(InitialSchema) = 8
    BY DEF InitialSchema
  <1> QED
    BY <1>1, <1>2, <1>3, <1>4, <1>5, <1>6, <1>7, <1>8, <1>9

\* The first revision creates its tables and, with them, their types.
LEMMA Up1 == Leads(0, InitialSchema, 1)
  <1> SUFFICES ASSUME NEW R, RowsAt(R, 0)
               PROVE  \E K, S : /\ Perform(Db(TablesAt(0), TypesAt(0), {}, R), InitialSchema)
                                      = Db(TablesAt(1), TypesAt(1), K, S)
                                /\ RowsAt(S, 1)
                                /\ Follows(R, S, InitialSchema, 0, 1)
    BY DEF Leads
  <1> DEFINE d == Db(TablesAt(0), TypesAt(0), {}, R)
  <1>0. Made(d, {}, {}) /\ DOMAIN R = {}
    <2>1. Names(0) = {} /\ TypeNames(0) = {} /\ DOMAIN R = {}
      BY DEF Names, TypeNames, RowsAt
    <2>2. TablesAt(0) = Part({}, 1) /\ TypesAt(0) = TypePart({}, 1)
      BY <2>1 DEF TablesAt, TypesAt, Part, TypePart
    <2> QED
      BY <2>1, <2>2 DEF Made
  <1> HIDE DEF d
  <1>1. PICK h : /\ h[0] = d
                 /\ \A n \in 1..8 : h[n] = Step(h[n - 1], InitialSchema[n])
                 /\ Perform(d, InitialSchema) = h[8]
    <2>1. Len(InitialSchema) = 8 /\ Len(InitialSchema) \in Nat
      BY InitialTables
    <2>2. \E h : /\ h[0] = d
                 /\ \A n \in 1..Len(InitialSchema) : h[n] = Step(h[n - 1], InitialSchema[n])
                 /\ Perform(d, InitialSchema) = h[Len(InitialSchema)]
      <3> DEFINE ops == InitialSchema
      <3>1. Len(ops) \in Nat
        BY <2>1
      <3> HIDE DEF ops
      <3>2. \E h : /\ h[0] = d
                   /\ \A n \in 1..Len(ops) : h[n] = Step(h[n - 1], ops[n])
                   /\ Perform(d, ops) = h[Len(ops)]
        BY <3>1, Performed
      <3> QED
        BY <3>2 DEF ops
    <2> QED
      BY <2>1, <2>2
  <1>2. /\ h[1] = Step(h[0], InitialSchema[1]) /\ h[2] = Step(h[1], InitialSchema[2])
        /\ h[3] = Step(h[2], InitialSchema[3]) /\ h[4] = Step(h[3], InitialSchema[4])
        /\ h[5] = Step(h[4], InitialSchema[5]) /\ h[6] = Step(h[5], InitialSchema[6])
        /\ h[7] = Step(h[6], InitialSchema[7]) /\ h[8] = Step(h[7], InitialSchema[8])
    BY <1>1
  <1> DEFINE N1 == {} \cup {"admin_users"}
             K1 == {} \cup {}
  <1> DEFINE N2 == N1 \cup {"projects"}
             K2 == K1 \cup {"project_category"}
  <1> DEFINE N3 == N2 \cup {"skills"}
             K3 == K2 \cup {"skill_category"}
  <1> DEFINE N4 == N3 \cup {"technologies"}
             K4 == K3 \cup {"tech_category"}
  <1> DEFINE N5 == N4 \cup {"analytics_events"}
             K5 == K4 \cup {"analytics_event_type", "locale_type"}
  <1> DEFINE N6 == N5 \cup {"project_images"}
             K6 == K5 \cup {}
  <1> DEFINE N7 == N6 \cup {"project_technologies"}
             K7 == K6 \cup {}
  <1> DEFINE N8 == N7 \cup {"project_translations"}
             K8 == K7 \cup {"locale_type"}
  <1>3. Made(h[1], N1, K1)
    <2>1. /\ "admin_users" \notin {} /\ RefsOf("admin_users") \subseteq {}
          /\ {} \subseteq TypeNames(1) /\ {} \subseteq TypeNames(1)
      BY DEF RefsOf, TypeNames
    <2> QED
      BY <1>0, <1>1, <1>2, <2>1, InitialTables, Creating
  <1>4. Made(h[2], N2, K2)
    <2>1. /\ "projects" \notin N1 /\ RefsOf("projects") \subseteq N1
          /\ K1 \subseteq TypeNames(1) /\ {"project_category"} \subseteq TypeNames(1)
      BY DEF RefsOf, TypeNames
    <2> QED
      BY <1>3, <1>2, <2>1, InitialTables, Creating
  <1>5. Made(h[3], N3, K3)
    <2>1. /\ "skills" \notin N2 /\ RefsOf("skills") \subseteq N2
          /\ K2 \subseteq TypeNames(1) /\ {"skill_category"} \subseteq TypeNames(1)
      BY DEF RefsOf, TypeNames
    <2> QED
      BY <1>4, <1>2, <2>1, InitialTables, Creating
  <1>6. Made(h[4], N4, K4)
    <2>1. /\ "technologies" \notin N3 /\ RefsOf("technologies") \subseteq N3
          /\ K3 \subseteq TypeNames(1) /\ {"tech_category"} \subseteq TypeNames(1)
      BY DEF RefsOf, TypeNames
    <2> QED
      BY <1>5, <1>2, <2>1, InitialTables, Creating
  <1>7. Made(h[5], N5, K5)
    <2>1. /\ "analytics_events" \notin N4 /\ RefsOf("analytics_events") \subseteq N4
          /\ K4 \subseteq TypeNames(1) /\ {"analytics_event_type", "locale_type"} \subseteq TypeNames(1)
      BY DEF RefsOf, TypeNames
    <2> QED
      BY <1>6, <1>2, <2>1, InitialTables, Creating
  <1>8. Made(h[6], N6, K6)
    <2>1. /\ "project_images" \notin N5 /\ RefsOf("project_images") \subseteq N5
          /\ K5 \subseteq TypeNames(1) /\ {} \subseteq TypeNames(1)
      BY DEF RefsOf, TypeNames
    <2> QED
      BY <1>7, <1>2, <2>1, InitialTables, Creating
  <1>9. Made(h[7], N7, K7)
    <2>1. /\ "project_technologies" \notin N6 /\ RefsOf("project_technologies") \subseteq N6
          /\ K6 \subseteq TypeNames(1) /\ {} \subseteq TypeNames(1)
      BY DEF RefsOf, TypeNames
    <2> QED
      BY <1>8, <1>2, <2>1, InitialTables, Creating
  <1>10. Made(h[8], N8, K8)
    <2>1. /\ "project_translations" \notin N7 /\ RefsOf("project_translations") \subseteq N7
          /\ K7 \subseteq TypeNames(1) /\ {"locale_type"} \subseteq TypeNames(1)
      BY DEF RefsOf, TypeNames
    <2> QED
      BY <1>9, <1>2, <2>1, InitialTables, Creating
  <1>11. N8 = Names(1) /\ K8 = TypeNames(1)
    BY DEF Names, InitialNames, TypeNames
  <1> HIDE DEF N8, K8
  <1>12. PICK S : /\ DOMAIN S = Names(1) /\ \A t \in Names(1) : S[t] = {}
                  /\ h[8] = Db(TablesAt(1), TypesAt(1), TypeNames(1), S)
    BY <1>10, <1>11 DEF Made, TablesAt, TypesAt
  <1>13. RowsAt(S, 1) /\ Follows(R, S, InitialSchema, 0, 1)
    BY <1>0, <1>12 DEF RowsAt, Follows, Names, InitialNames
  <1> QED
    BY <1>1, <1>12, <1>13 DEF d

\* While the first revision is undone: some tables are left, and all of the types.
Left(d, M, N, K) ==
    \E Q : DOMAIN Q = N /\ d = Db(Part(N, 1), TypePart(K, 1), M, Q)

\* One table less, where none refers to it.
LEMMA DroppingTable ==
  ASSUME NEW d, NEW M, NEW N, NEW K, NEW x \in N, N \subseteq Names(1), Left(d, M, N, K),
         \A t \in N : x \notin RefsOf(t)
  PROVE  Left(Step(d, DropTable(x)), M, N \ {x}, K)
  <1>1. PICK Q : DOMAIN Q = N /\ d = Db(Part(N, 1), TypePart(K, 1), M, Q)
    BY DEF Left
  <1>2. N \subseteq Names(7)
    BY DEF Names
  <1>3. Step(d, DropTable(x)) = Db(Part(N \ {x}, 1), TypePart(K, 1), M, Without(Q, x))
    BY <1>1, <1>2, StepDropPart
  <1>4. DOMAIN Without(Q, x) = N \ {x}
    BY <1>1 DEF Without, Restrict
  <1> QED
    BY <1>3, <1>4 DEF Left

\* One type less, once there are no tables.
LEMMA DroppingType ==
  ASSUME NEW d, NEW M, NEW K, NEW y \in K, NEW checkfirst \in BOOLEAN, Left(d, M, {}, K)
  PROVE  Left(Step(d, DropType(y, checkfirst)), M, {}, K \ {y})
  <1>1. PICK Q : DOMAIN Q = {} /\ d = Db(Part({}, 1), TypePart(K, 1), M, Q)
    BY DEF Left
  <1>2. DOMAIN Part({}, 1) = {} /\ y \in DOMAIN TypePart(K, 1)
    BY DEF Part, TypePart
  <1>3. Step(d, DropType(y, checkfirst)) = Db(Part({}, 1), Without(TypePart(K, 1), y), M, Q)
    BY <1>1, <1>2, StepDropType
  <1>4. Without(TypePart(K, 1), y) = TypePart(K \ {y}, 1)
    BY DEF Without, Restrict, TypePart
  <1> QED
    BY <1>1, <1>3, <1>4 DEF Left

\* Undoing the first revision drops the tables, then the types.
LEMMA Down1 == Leads(1, DropInitialSchema, 0)
  <1> SUFFICES ASSUME NEW M, NEW R, RowsAt(R, 1)
               PROVE  \E K, S : /\ Perform(Db(TablesAt(1), TypesAt(1), M, R), DropInitialSchema)
                                      = Db(TablesAt(0), TypesAt(0), K, S)
                                /\ RowsAt(S, 0)
                                /\ Follows(R, S, DropInitialSchema, 1, 0)
    BY DEF Leads
  <1> DEFINE checkfirst == TRUE
             ops == DropInitialSchema
             d == Db(TablesAt(1), TypesAt(1), M, R)
  <1>1. /\ Len(ops) = 13
        /\ ops[1] = DropTable("project_translations")
        /\ ops[2] = DropTable("project_technologies")
        /\ ops[3] = DropTable("project_images")
        /\ ops[4] = DropTable("analytics_events")
        /\ ops[5] = DropTable("technologies")
        /\ ops[6] = DropTable("skills")
        /\ ops[7] = DropTable("projects")
        /\ ops[8] = DropTable("admin_users")
        /\ ops[9] = DropType("project_category", checkfirst)
        /\ ops[10] = DropType("skill_category", checkfirst)
        /\ ops[11] = DropType("tech_category", checkfirst)
        /\ ops[12] = DropType("analytics_event_type", checkfirst)
        /\ ops[13] = DropType("locale_type", checkfirst)
    BY DEF DropInitialSchema
  <1>2. checkfirst \in BOOLEAN
    OBVIOUS
  <1>3. Left(d, M, Names(1), TypeNames(1)) /\ DOMAIN R = Names(1)
    BY DEF Left, TablesAt, TypesAt, RowsAt
  <1> HIDE DEF checkfirst, ops, d
  <1>4. PICK h : /\ h[0] = d
                 /\ \A n \in 1..13 : h[n] = Step(h[n - 1], ops[n])
                 /\ Perform(d, ops) = h[13]
    <2>1. Len(ops) = 13
      BY <1>1
    <2>a. Len(ops) \in Nat
      BY <2>1
    <2>2. \E h : /\ h[0] = d
                 /\ \A n \in 1..Len(ops) : h[n] = Step(h[n - 1], ops[n])
                 /\ Perform(d, ops) = h[Len(ops)]
      BY <2>a, Performed
    <2> QED
      BY <2>1, <2>2
  <1>5. /\ h[1] = Step(h[0], ops[1])
        /\ h[2] = Step(h[1], ops[2])
        /\ h[3] = Step(h[2], ops[3])
        /\ h[4] = Step(h[3], ops[4])
        /\ h[5] = Step(h[4], ops[5])
        /\ h[6] = Step(h[5], ops[6])
        /\ h[7] = Step(h[6], ops[7])
        /\ h[8] = Step(h[7], ops[8])
        /\ h[9] = Step(h[8], ops[9])
        /\ h[10] = Step(h[9], ops[10])
        /\ h[11] = Step(h[10], ops[11])
        /\ h[12] = Step(h[11], ops[12])
        /\ h[13] = Step(h[12], ops[13])
    BY <1>4
  <1> DEFINE N1 == Names(1) \ {"project_translations"}
  <1> DEFINE N2 == N1 \ {"project_technologies"}
  <1> DEFINE N3 == N2 \ {"project_images"}
  <1> DEFINE N4 == N3 \ {"analytics_events"}
  <1> DEFINE N5 == N4 \ {"technologies"}
  <1> DEFINE N6 == N5 \ {"skills"}
  <1> DEFINE N7 == N6 \ {"projects"}
  <1> DEFINE N8 == N7 \ {"admin_users"}
  <1>6. /\ N8 = {}
        /\ "project_translations" \in Names(1) /\ Names(1) \subseteq Names(1)
        /\ \A t \in Names(1) : "project_translations" \notin RefsOf(t)
        /\ "project_technologies" \in N1 /\ N1 \subseteq Names(1)
        /\ \A t \in N1 : "project_technologies" \notin RefsOf(t)
        /\ "project_images" \in N2 /\ N2 \subseteq Names(1)
        /\ \A t \in N2 : "project_images" \notin RefsOf(t)
        /\ "analytics_events" \in N3 /\ N3 \subseteq Names(1)
        /\ \A t \in N3 : "analytics_events" \notin RefsOf(t)
        /\ "technologies" \in N4 /\ N4 \subseteq Names(1)
        /\ \A t \in N4 : "technologies" \notin RefsOf(t)
        /\ "skills" \in N5 /\ N5 \subseteq Names(1)
        /\ \A t \in N5 : "skills" \notin RefsOf(t)
        /\ "projects" \in N6 /\ N6 \subseteq Names(1)
        /\ \A t \in N6 : "projects" \notin RefsOf(t)
        /\ "admin_users" \in N7 /\ N7 \subseteq Names(1)
        /\ \A t \in N7 : "admin_users" \notin RefsOf(t)
    BY DEF Names, InitialNames, RefsOf
  <1> HIDE DEF N1, N2, N3, N4, N5, N6, N7, N8
  <1>7. Left(h[1], M, N1, TypeNames(1))
    BY <1>3, <1>4, <1>1, <1>5, <1>6, DroppingTable DEF N1
  <1>8. Left(h[2], M, N2, TypeNames(1))
    BY <1>7, <1>1, <1>5, <1>6, DroppingTable DEF N2
  <1>9. Left(h[3], M, N3, TypeNames(1))
    BY <1>8, <1>1, <1>5, <1>6, DroppingTable DEF N3
  <1>10. Left(h[4], M, N4, TypeNames(1))
    BY <1>9, <1>1, <1>5, <1>6, DroppingTable DEF N4
  <1>11. Left(h[5], M, N5, TypeNames(1))
    BY <1>10, <1>1, <1>5, <1>6, DroppingTable DEF N5
  <1>12. Left(h[6], M, N6, TypeNames(1))
    BY <1>11, <1>1, <1>5, <1>6, DroppingTable DEF N6
  <1>13. Left(h[7], M, N7, TypeNames(1))
    BY <1>12, <1>1, <1>5, <1>6, DroppingTable DEF N7
  <1>14. Left(h[8], M, N8, TypeNames(1))
    BY <1>13, <1>1, <1>5, <1>6, DroppingTable DEF N8
  <1> DEFINE K1 == TypeNames(1) \ {"project_category"}
  <1> DEFINE K2 == K1 \ {"skill_category"}
  <1> DEFINE K3 == K2 \ {"tech_category"}
  <1> DEFINE K4 == K3 \ {"analytics_event_type"}
  <1> DEFINE K5 == K4 \ {"locale_type"}
  <1>15. /\ K5 = {}
         /\ "project_category" \in TypeNames(1)
         /\ "skill_category" \in K1
         /\ "tech_category" \in K2
         /\ "analytics_event_type" \in K3
         /\ "locale_type" \in K4
    BY DEF TypeNames
  <1> HIDE DEF K1, K2, K3, K4, K5
  <1>a. Left(h[8], M, {}, TypeNames(1))
    BY <1>14, <1>6
  <1>16. Left(h[9], M, {}, K1)
    BY <1>a, <1>1, <1>2, <1>5, <1>15, DroppingType DEF K1
  <1>17. Left(h[10], M, {}, K2)
    BY <1>16, <1>1, <1>2, <1>5, <1>15, DroppingType DEF K2
  <1>18. Left(h[11], M, {}, K3)
    BY <1>17, <1>1, <1>2, <1>5, <1>15, DroppingType DEF K3
  <1>19. Left(h[12], M, {}, K4)
    BY <1>18, <1>1, <1>2, <1>5, <1>15, DroppingType DEF K4
  <1>20. Left(h[13], M, {}, K5)
    BY <1>19, <1>1, <1>2, <1>5, <1>15, DroppingType DEF K5
  <1>21. PICK S : DOMAIN S = {} /\ h[13] = Db(Part({}, 1), TypePart({}, 1), M, S)
    BY <1>20, <1>15 DEF Left
  <1>22. Part({}, 1) = TablesAt(0) /\ TypePart({}, 1) = TypesAt(0) /\ Names(0) = {}
    BY DEF TablesAt, TypesAt, Part, TypePart, Names, TypeNames
  <1>23. RowsAt(S, 0)
    BY <1>21, <1>22 DEF RowsAt
  <1>24. \A t \in Names(1) : t \in {o.name : o \in Range(DropInitialSchema)}
    <2>1. ASSUME NEW i \in 1..8
          PROVE  ops[i].name \in {o.name : o \in Range(ops)}
      <3>1. i \in DOMAIN ops
        BY <1>1
      <3> QED
        BY <3>1 DEF Range
    <2> QED
      BY <1>1, <2>1 DEF DropTable, Names, InitialNames, ops
  <1>25. Follows(R, S, DropInitialSchema, 1, 0)
    BY <1>3, <1>24 DEF Follows
  <1> QED
    BY <1>4, <1>21, <1>22, <1>23, <1>25 DEF ops, d

\* The second revision adds the sessions and the attempts to log in.
LEMMA Up2 == Leads(1, AddAdminSessions, 2)
  <1> SUFFICES ASSUME NEW M, NEW R, RowsAt(R, 1)
               PROVE  \E K, S : /\ Perform(Db(TablesAt(1), TypesAt(1), M, R), AddAdminSessions)
                                      = Db(TablesAt(2), TypesAt(2), K, S)
                                /\ RowsAt(S, 2)
                                /\ Follows(R, S, AddAdminSessions, 1, 2)
    BY DEF Leads
  <1> DEFINE attempts == Table({"id", "ip_hash", "success", "created_at"}, None, {})
             sessions == Table({"session_id", "user_id", "expires_at", "created_at"},
                               None, {"admin_users"})
             T == Extend(TablesAt(1), "login_attempts", attempts)
             U == Extend(T, "admin_sessions", sessions)
             S == Extend(Extend(R, "login_attempts", {}), "admin_sessions", {})
  <1>1. DOMAIN TablesAt(1) = Names(1) /\ DOMAIN T = Names(1) \cup {"login_attempts"}
    BY DEF TablesAt, Part, Extend
  <1>2. Perform(Db(TablesAt(1), TypesAt(1), M, R), AddAdminSessions) = Db(U, TypesAt(1), M, S)
    <2>1. /\ "login_attempts" \notin DOMAIN TablesAt(1)
          /\ "admin_sessions" \notin DOMAIN T /\ "admin_users" \in DOMAIN T
      BY <1>1 DEF Names, InitialNames
    <2> HIDE DEF T, U, S
    <2> QED
      BY <2>1, StepCreatePlain, PerformTwo DEF AddAdminSessions, T, U, S
  <1>3. U = TablesAt(2)
    <2>1. Models["login_attempts"] = attempts /\ Models["admin_sessions"] = sessions
      BY FileDomains, ModelTables DEF ModelFiles, AdminModels
    <2>2. Names(2) = Names(1) \cup {"login_attempts", "admin_sessions"}
      BY DEF Names
    <2>3. \A t : TableAt(t, 1) = TableAt(t, 2)
      BY DEF TableAt
    <2>4. /\ TableAt("login_attempts", 2) = attempts
          /\ TableAt("admin_sessions", 2) = sessions
      BY <2>1 DEF TableAt
    <2> HIDE DEF attempts, sessions
    <2> QED
      BY <2>2, <2>3, <2>4 DEF TablesAt, Part, Extend
  <1>4. TypesAt(1) = TypesAt(2)
    BY DEF TypesAt, TypePart, TypeNames, TypeAt
  <1>5. RowsAt(S, 2) /\ Follows(R, S, AddAdminSessions, 1, 2)
    BY DEF RowsAt, Follows, Extend, Names, InitialNames
  <1> HIDE DEF U, S
  <1> QED
    BY <1>2, <1>3, <1>4, <1>5

\* Undoing it drops them.
LEMMA Down2 == Leads(2, DropAdminSessions, 1)
  <1> SUFFICES ASSUME NEW M, NEW R, RowsAt(R, 2)
               PROVE  \E K, S : /\ Perform(Db(TablesAt(2), TypesAt(2), M, R), DropAdminSessions)
                                      = Db(TablesAt(1), TypesAt(1), K, S)
                                /\ RowsAt(S, 1)
                                /\ Follows(R, S, DropAdminSessions, 2, 1)
    BY DEF Leads
  <1> DEFINE N == Names(2) \ {"admin_sessions"}
             S == Without(Without(R, "admin_sessions"), "login_attempts")
  <1>1. Perform(Db(TablesAt(2), TypesAt(2), M, R), DropAdminSessions)
           = Db(Part(N \ {"login_attempts"}, 2), TypesAt(2), M, S)
    <2>1. /\ Names(2) \subseteq Names(7)
          /\ "admin_sessions" \in Names(2) /\ "login_attempts" \in N
          /\ \A t \in Names(2) : "admin_sessions" \notin RefsOf(t) /\ "login_attempts" \notin RefsOf(t)
      BY DEF Names, InitialNames, RefsOf
    <2>2. Step(Db(Part(Names(2), 2), TypesAt(2), M, R), DropTable("admin_sessions"))
            = Db(Part(N, 2), TypesAt(2), M, Without(R, "admin_sessions"))
      BY <2>1, StepDropPart
    <2>3. Step(Db(Part(N, 2), TypesAt(2), M, Without(R, "admin_sessions")),
               DropTable("login_attempts"))
            = Db(Part(N \ {"login_attempts"}, 2), TypesAt(2), M, S)
      BY <2>1, StepDropPart
    <2> HIDE DEF N, S
    <2> QED
      BY <2>2, <2>3, PerformTwo DEF DropAdminSessions, TablesAt
  <1>2. Part(N \ {"login_attempts"}, 2) = TablesAt(1)
    <2>1. N \ {"login_attempts"} = Names(1)
      BY DEF Names, InitialNames
    <2>2. \A t : TableAt(t, 2) = TableAt(t, 1)
      BY DEF TableAt
    <2> QED
      BY <2>1, <2>2 DEF TablesAt, Part
  <1>3. TypesAt(1) = TypesAt(2)
    BY DEF TypesAt, TypePart, TypeNames, TypeAt
  <1>4. RowsAt(S, 1) /\ Follows(R, S, DropAdminSessions, 2, 1)
    BY DEF RowsAt, Follows, Without, Restrict, Names, InitialNames, DropAdminSessions,
           DropTable, Range
  <1> HIDE DEF S
  <1> QED
    BY <1>1, <1>2, <1>3, <1>4

\* The third revision adds the certifications, whose texts have a column of
\* the type locale_type, which exists.
LEMMA Up3 == Leads(2, AddCertifications, 3)
  <1> SUFFICES ASSUME NEW M, NEW R, RowsAt(R, 2)
               PROVE  \E K, S : /\ Perform(Db(TablesAt(2), TypesAt(2), M, R), AddCertifications)
                                      = Db(TablesAt(3), TypesAt(3), K, S)
                                /\ RowsAt(S, 3)
                                /\ Follows(R, S, AddCertifications, 2, 3)
    BY DEF Leads
  <1> DEFINE certs == Table({"id", "slug", "issuer", "issue_date", "expiry_date",
                             "credential_url", "badge_image_url", "featured", "sort_order",
                             "created_at", "updated_at"}, None, {})
             texts == Table({"id", "certification_id", "title", "description"}, None,
                            {"certifications"})
             name == "certification_translations"
             T == Extend(TablesAt(2), "certifications", certs)
             U == Extend(T, name, texts)
             V == [U EXCEPT ![name] = WithEnum(@, "locale", "locale_type")]
             P == Extend(Extend(R, "certifications", {}), name, {})
             S == [P EXCEPT ![name] = {Project(p.slug, "complete") : p \in @}]
  <1>1. /\ DOMAIN TablesAt(2) = Names(2) /\ DOMAIN T = Names(2) \cup {"certifications"}
        /\ DOMAIN U = Names(2) \cup {"certifications", name} /\ U[name] = texts
    BY DEF TablesAt, Part, Extend
  <1>2. Perform(Db(TablesAt(2), TypesAt(2), M, R), AddCertifications) = Db(V, TypesAt(2), M, S)
    <2>1. /\ "certifications" \notin DOMAIN TablesAt(2)
          /\ name \notin DOMAIN T /\ "certifications" \in DOMAIN T
          /\ name \in DOMAIN U /\ "locale" \notin U[name].columns
      BY <1>1 DEF Names, InitialNames, Table
    <2>2. "locale_type" \in DOMAIN TypesAt(2)
      BY DEF TypesAt, TypePart, TypeNames
    <2> HIDE DEF T, U, V, P, S
    <2>3. Step(Step(Db(TablesAt(2), TypesAt(2), M, R), AddCertifications[1]), AddCertifications[2])
             = Db(U, TypesAt(2), M, P)
      BY <2>1, StepCreatePlain DEF AddCertifications, T, U, P
    <2>4. Step(Db(U, TypesAt(2), M, P), AddEnumColumn(name, "locale", "locale_type"))
             = Db(V, TypesAt(2), M, S)
      BY <2>1, <2>2, StepAddEnum DEF V, S
    <2> QED
      BY <2>3, <2>4, PerformThree DEF AddCertifications
  <1>3. V = TablesAt(3)
    <2>1. /\ Names(3) = Names(2) \cup {"certifications", name}
          /\ "certifications" \notin Names(2) /\ name \notin Names(2)
      BY DEF Names, InitialNames
    <2>2. \A t : TableAt(t, 2) = TableAt(t, 3)
      BY DEF TableAt
    <2>3. TableAt("certifications", 3) = certs
      BY TableModels DEF TableAt, CertificationModels
    <2>4. TableAt(name, 3) = WithEnum(texts, "locale", "locale_type")
      <3>1. TableAt(name, 3) = Table({"id", "certification_id", "locale", "title", "description"},
                                     [locale |-> "locale_type"], {"certifications"})
        BY TableModels DEF TableAt, CertificationModels
      <3>2. Extend(None, "locale", "locale_type") = [locale |-> "locale_type"]
        BY DEF Extend, None
      <3>3. texts.columns \cup {"locale"}
               = {"id", "certification_id", "locale", "title", "description"}
        BY DEF Table
      <3>4. ASSUME NEW e, e = WithEnum(texts, "locale", "locale_type")
            PROVE  e = Table(texts.columns \cup {"locale"}, Extend(None, "locale", "locale_type"),
                             {"certifications"})
        BY <3>4 DEF WithEnum, WithColumn, Table
      <3> QED
        BY <3>1, <3>2, <3>3, <3>4
    <2>5. /\ DOMAIN V = Names(3) /\ V[name] = TableAt(name, 3)
          /\ \A t \in Names(3) \ {name} : V[t] = U[t]
      <3> HIDE DEF U, texts
      <3> QED
        BY <1>1, <2>1, <2>4
    <2>6. \A t \in Names(3) \ {name} : U[t] = TableAt(t, 3)
      <3> HIDE DEF certs, texts
      <3> QED
        BY <2>1, <2>2, <2>3 DEF TablesAt, Part, Extend
    <2>7. V = [t \in DOMAIN V |-> V[t]]
      <3> HIDE DEF U
      <3> QED
        OBVIOUS
    <2> HIDE DEF V, U
    <2> QED
      BY <2>5, <2>6, <2>7 DEF TablesAt, Part
  <1>4. TypesAt(2) = TypesAt(3)
    BY DEF TypesAt, TypePart, TypeNames, TypeAt
  <1>5. RowsAt(S, 3) /\ Follows(R, S, AddCertifications, 2, 3)
    BY DEF RowsAt, Follows, Extend, Names, InitialNames
  <1> HIDE DEF V, S
  <1> QED
    BY <1>2, <1>3, <1>4, <1>5

\* Undoing it drops them; the type stays.
LEMMA Down3 == Leads(3, DropCertifications, 2)
  <1> SUFFICES ASSUME NEW M, NEW R, RowsAt(R, 3)
               PROVE  \E K, S : /\ Perform(Db(TablesAt(3), TypesAt(3), M, R), DropCertifications)
                                      = Db(TablesAt(2), TypesAt(2), K, S)
                                /\ RowsAt(S, 2)
                                /\ Follows(R, S, DropCertifications, 3, 2)
    BY DEF Leads
  <1> DEFINE N == Names(3) \ {"certification_translations"}
             S == Without(Without(R, "certification_translations"), "certifications")
  <1>1. Perform(Db(TablesAt(3), TypesAt(3), M, R), DropCertifications)
           = Db(Part(N \ {"certifications"}, 3), TypesAt(3), M, S)
    <2>1. /\ Names(3) \subseteq Names(7) /\ N \subseteq Names(7)
          /\ "certification_translations" \in Names(3) /\ "certifications" \in N
          /\ \A t \in Names(3) : "certification_translations" \notin RefsOf(t)
          /\ \A t \in N : "certifications" \notin RefsOf(t)
      BY DEF Names, InitialNames, RefsOf
    <2>2. Step(Db(Part(Names(3), 3), TypesAt(3), M, R), DropTable("certification_translations"))
            = Db(Part(N, 3), TypesAt(3), M, Without(R, "certification_translations"))
      BY <2>1, StepDropPart
    <2>3. Step(Db(Part(N, 3), TypesAt(3), M, Without(R, "certification_translations")),
               DropTable("certifications"))
            = Db(Part(N \ {"certifications"}, 3), TypesAt(3), M, S)
      BY <2>1, StepDropPart
    <2> HIDE DEF N, S
    <2> QED
      BY <2>2, <2>3, PerformTwo DEF DropCertifications, TablesAt
  <1>2. Part(N \ {"certifications"}, 3) = TablesAt(2)
    <2>1. N \ {"certifications"} = Names(2)
      BY DEF Names, InitialNames
    <2>2. \A t : TableAt(t, 3) = TableAt(t, 2)
      BY DEF TableAt
    <2> QED
      BY <2>1, <2>2 DEF TablesAt, Part
  <1>3. TypesAt(2) = TypesAt(3)
    BY DEF TypesAt, TypePart, TypeNames, TypeAt
  <1>4. RowsAt(S, 2) /\ Follows(R, S, DropCertifications, 3, 2)
    BY DEF RowsAt, Follows, Without, Restrict, Names, InitialNames, DropCertifications,
           DropTable, Range
  <1> HIDE DEF S
  <1> QED
    BY <1>1, <1>2, <1>3, <1>4

\* The fourth revision adds the samples of the network health.
LEMMA Up4 == Leads(3, AddNetworkHealth, 4)
  <1> SUFFICES ASSUME NEW M, NEW R, RowsAt(R, 3)
               PROVE  \E K, S : /\ Perform(Db(TablesAt(3), TypesAt(3), M, R), AddNetworkHealth)
                                      = Db(TablesAt(4), TypesAt(4), K, S)
                                /\ RowsAt(S, 4)
                                /\ Follows(R, S, AddNetworkHealth, 3, 4)
    BY DEF Leads
  <1> DEFINE health == Table({"id", "sampled_at", "services", "internet_targets",
                              "packet_loss_pct", "cpu_percent", "memory_percent",
                              "disk_percent", "requests_count", "errors_count"}, None, {})
             T == Extend(TablesAt(3), "network_health_samples", health)
             S == Extend(R, "network_health_samples", {})
  <1>1. Perform(Db(TablesAt(3), TypesAt(3), M, R), AddNetworkHealth) = Db(T, TypesAt(3), M, S)
    <2>1. "network_health_samples" \notin DOMAIN TablesAt(3)
      BY DEF Names, InitialNames, TablesAt, Part
    <2> QED
      BY <2>1, StepCreatePlain, PerformOne DEF AddNetworkHealth
  <1>2. T = TablesAt(4)
    <2>1. Names(4) = Names(3) \cup {"network_health_samples"}
      BY DEF Names
    <2>2. \A t : TableAt(t, 3) = TableAt(t, 4)
      BY DEF TableAt
    <2>3. TableAt("network_health_samples", 4) = health
      BY TableModels DEF TableAt, HealthModels
    <2> HIDE DEF health
    <2> QED
      BY <2>1, <2>2, <2>3 DEF TablesAt, Part, Extend
  <1>3. TypesAt(3) = TypesAt(4)
    BY DEF TypesAt, TypePart, TypeNames, TypeAt
  <1>4. RowsAt(S, 4) /\ Follows(R, S, AddNetworkHealth, 3, 4)
    BY DEF RowsAt, Follows, Extend, Names, InitialNames
  <1> HIDE DEF T, S
  <1> QED
    BY <1>1, <1>2, <1>3, <1>4

\* Undoing it drops them.
LEMMA Down4 == Leads(4, DropNetworkHealth, 3)
  <1> SUFFICES ASSUME NEW M, NEW R, RowsAt(R, 4)
               PROVE  \E K, S : /\ Perform(Db(TablesAt(4), TypesAt(4), M, R), DropNetworkHealth)
                                      = Db(TablesAt(3), TypesAt(3), K, S)
                                /\ RowsAt(S, 3)
                                /\ Follows(R, S, DropNetworkHealth, 4, 3)
    BY DEF Leads
  <1> DEFINE N == Names(4) \ {"network_health_samples"}
             S == Without(R, "network_health_samples")
  <1>1. Perform(Db(TablesAt(4), TypesAt(4), M, R), DropNetworkHealth)
           = Db(Part(N, 4), TypesAt(4), M, S)
    <2>1. /\ Names(4) \subseteq Names(7) /\ "network_health_samples" \in Names(4)
          /\ \A t \in Names(4) : "network_health_samples" \notin RefsOf(t)
      BY DEF Names, InitialNames, RefsOf
    <2> QED
      BY <2>1, StepDropPart, PerformOne DEF DropNetworkHealth, TablesAt
  <1>2. Part(N, 4) = TablesAt(3)
    <2>1. N = Names(3)
      BY DEF Names, InitialNames
    <2>2. \A t : TableAt(t, 4) = TableAt(t, 3)
      BY DEF TableAt
    <2> QED
      BY <2>1, <2>2 DEF TablesAt, Part
  <1>3. TypesAt(3) = TypesAt(4)
    BY DEF TypesAt, TypePart, TypeNames, TypeAt
  <1>4. RowsAt(S, 3) /\ Follows(R, S, DropNetworkHealth, 4, 3)
    BY DEF RowsAt, Follows, Without, Restrict, Names, InitialNames, DropNetworkHealth,
           DropTable, Range
  <1> HIDE DEF S
  <1> QED
    BY <1>1, <1>2, <1>3, <1>4

\* The fifth revision gives each project the status that the seed gives it.
LEMMA Up5 == Leads(4, AddProjectStatus, 5)
  <1> SUFFICES ASSUME NEW M, NEW R, RowsAt(R, 4)
               PROVE  \E K, S : /\ Perform(Db(TablesAt(4), TypesAt(4), M, R), AddProjectStatus)
                                      = Db(TablesAt(5), TypesAt(5), K, S)
                                /\ RowsAt(S, 5)
                                /\ Follows(R, S, AddProjectStatus, 4, 5)
    BY DEF Leads
  <1> DEFINE checkfirst == TRUE
             statuses == {"complete", "in_development"}
             Y == Extend(TypesAt(4), "project_status", statuses)
             T == [TablesAt(4) EXCEPT !["projects"] = WithEnum(@, "status", "project_status")]
             Q == [R EXCEPT !["projects"] = {Project(p.slug, "complete") : p \in @}]
             S == [Q EXCEPT !["projects"] = Marked(@, IN_DEVELOPMENT_SLUGS)]
  <1>1. /\ DOMAIN TablesAt(4) = Names(4) /\ "projects" \in Names(4)
        /\ TablesAt(4)["projects"] = Table(ProjectColumns \ {"status"},
                                           [category |-> "project_category"], {})
    BY ProjectsAt DEF TablesAt, Part, Names, InitialNames
  <1>2. T = TablesAt(5)
    <2>1. Names(5) = Names(4)
      BY DEF Names
    <2>2. \A t : t # "projects" => TableAt(t, 4) = TableAt(t, 5)
      BY DEF TableAt
    <2>3. WithEnum(TablesAt(4)["projects"], "status", "project_status") = TableAt("projects", 5)
      <3>1. Extend([category |-> "project_category"], "status", "project_status") = ProjectEnums
        BY DEF Extend, ProjectEnums
      <3>2. (ProjectColumns \ {"status"}) \cup {"status"} = ProjectColumns
        BY ProjectsAt
      <3>3. TableAt("projects", 5) = Table(ProjectColumns, ProjectEnums, {})
        BY ProjectsAt
      <3>4. WithEnum(Table(ProjectColumns \ {"status"}, [category |-> "project_category"], {}),
                     "status", "project_status")
              = Table((ProjectColumns \ {"status"}) \cup {"status"},
                      Extend([category |-> "project_category"], "status", "project_status"), {})
        BY WithEnumTable
      <3> QED
        BY <1>1, <3>1, <3>2, <3>3, <3>4
    <2> QED
      BY <1>1, <2>1, <2>2, <2>3, OneTable
  <1>3. Perform(Db(TablesAt(4), TypesAt(4), M, R), AddProjectStatus) = Db(T, Y, M, S)
    <2>1. "project_status" \notin DOMAIN TypesAt(4) /\ "project_status" \in DOMAIN Y
      BY DEF TypesAt, TypePart, TypeNames, Extend
    <2>2. DOMAIN T = Names(4) /\ "status" \notin TablesAt(4)["projects"].columns
      BY <1>1 DEF Table
    <2>a. AddProjectStatus = <<CreateType("project_status", statuses, checkfirst),
                               AddEnumColumn("projects", "status", "project_status"),
                               MarkInDevelopment("projects", IN_DEVELOPMENT_SLUGS)>>
      BY DEF AddProjectStatus
    <2>b. checkfirst \in BOOLEAN
      OBVIOUS
    <2> HIDE DEF T, Y, Q, S, statuses, checkfirst
    <2>3. Step(Db(TablesAt(4), TypesAt(4), M, R), CreateType("project_status", statuses, checkfirst))
             = Db(TablesAt(4), Y, M, R)
      BY <2>1, <2>b, StepCreateType DEF Y
    <2>4. Step(Db(TablesAt(4), Y, M, R), AddEnumColumn("projects", "status", "project_status"))
             = Db(T, Y, M, Q)
      BY <1>1, <2>1, <2>2, StepAddEnum DEF T, Q
    <2>5. Step(Db(T, Y, M, Q), MarkInDevelopment("projects", IN_DEVELOPMENT_SLUGS)) = Db(T, Y, M, S)
      BY <1>1, <2>2, StepMark DEF S
    <2> QED
      BY <2>a, <2>3, <2>4, <2>5, PerformThree
  <1>5. Y = TypesAt(5)
    BY DEF TypesAt, TypePart, TypeNames, TypeAt, ModelLabels, Extend
  <1>6. RowsAt(S, 5)
    <2>1. DOMAIN S = Names(5) /\ S["skills"] = R["skills"]
      <3>1. Names(5) = Names(4) /\ "skills" \in Names(4) /\ DOMAIN R = Names(4)
        BY DEF Names, InitialNames, RowsAt
      <3> QED
        BY <3>1
    <2>2. S["projects"] = Marked({Project(p.slug, "complete") : p \in R["projects"]},
                                 IN_DEVELOPMENT_SLUGS)
      BY <1>1 DEF RowsAt
    <2>3. \A p \in S["projects"] : p.status = SeededStatus(p.slug)
      BY <2>2 DEF Marked, Project, IN_DEVELOPMENT_SLUGS, SeededStatus
    <2> HIDE DEF S, Q
    <2> QED
      BY <2>1, <2>3 DEF RowsAt
  <1>7. Follows(R, S, AddProjectStatus, 4, 5)
    <2>1. "projects" \in {o.name : o \in Range(AddProjectStatus)}
      BY DEF AddProjectStatus, MarkInDevelopment, Range
    <2>2. \A t \in DOMAIN R \ {"projects"} : t \in DOMAIN S /\ S[t] = R[t]
      OBVIOUS
    <2> QED
      BY <2>1, <2>2 DEF Follows, RowsAt, Names, InitialNames
  <1> HIDE DEF T, Y, S, Q
  <1> QED
    BY <1>2, <1>3, <1>5, <1>6, <1>7

\* Undoing it drops the column, then the type.
LEMMA Down5 == Leads(5, DropProjectStatus, 4)
  <1> SUFFICES ASSUME NEW M, NEW R, RowsAt(R, 5)
               PROVE  \E K, S : /\ Perform(Db(TablesAt(5), TypesAt(5), M, R), DropProjectStatus)
                                      = Db(TablesAt(4), TypesAt(4), K, S)
                                /\ RowsAt(S, 4)
                                /\ Follows(R, S, DropProjectStatus, 5, 4)
    BY DEF Leads
  <1> DEFINE checkfirst == TRUE
             T == [TablesAt(5) EXCEPT !["projects"] = WithoutColumn(@, "status")]
             S == [R EXCEPT !["projects"] = {Project(p.slug, "-") : p \in @}]
             Y == Without(TypesAt(5), "project_status")
  <1>1. /\ DOMAIN TablesAt(5) = Names(5) /\ "projects" \in Names(5)
        /\ TablesAt(5)["projects"] = Table(ProjectColumns, ProjectEnums, {})
    BY ProjectsAt DEF TablesAt, Part, Names, InitialNames
  <1>2. T = TablesAt(4)
    <2>1. Names(5) = Names(4)
      BY DEF Names
    <2>2. \A t : t # "projects" => TableAt(t, 5) = TableAt(t, 4)
      BY DEF TableAt
    <2>3. WithoutColumn(TablesAt(5)["projects"], "status") = TableAt("projects", 4)
      <3>1. Without(ProjectEnums, "status") = [category |-> "project_category"]
        BY DEF Without, Restrict, ProjectEnums
      <3>2. TableAt("projects", 4)
              = Table(ProjectColumns \ {"status"}, [category |-> "project_category"], {})
        BY ProjectsAt
      <3>3. WithoutColumn(Table(ProjectColumns, ProjectEnums, {}), "status")
              = Table(ProjectColumns \ {"status"}, Without(ProjectEnums, "status"), {})
        BY WithoutColumnTable
      <3> QED
        BY <1>1, <3>1, <3>2, <3>3
    <2> QED
      BY <1>1, <2>1, <2>2, <2>3, OneTable
  <1>4. Perform(Db(TablesAt(5), TypesAt(5), M, R), DropProjectStatus) = Db(T, Y, M, S)
    <2>1. "project_status" \in DOMAIN TypesAt(5)
      BY DEF TypesAt, TypePart, TypeNames
    <2>2. \A t \in DOMAIN TablesAt(4) : "project_status" \notin Range(TablesAt(4)[t].enums)
      <3>1. \A t \in Names(4) : "project_status" \notin Range(TableAt(t, 4).enums)
        <4>1. Names(4) \subseteq Names(7)
          BY DEF Names
        <4> QED
          BY <4>1, Enums DEF TypesOf
      <3> QED
        BY <3>1 DEF TablesAt, Part
    <2>3. "status" \in TablesAt(5)["projects"].columns
      BY <1>1, ProjectsAt DEF Table
    <2>a. DropProjectStatus = <<DropColumn("projects", "status"),
                                DropType("project_status", checkfirst)>>
      BY DEF DropProjectStatus
    <2>b. checkfirst \in BOOLEAN
      OBVIOUS
    <2> HIDE DEF T, Y, S, checkfirst
    <2>4. Step(Db(TablesAt(5), TypesAt(5), M, R), DropColumn("projects", "status"))
             = Db(T, TypesAt(5), M, S)
      BY <2>3, StepDropColumn DEF T, S
    <2>5. Step(Db(T, TypesAt(5), M, S), DropType("project_status", checkfirst)) = Db(T, Y, M, S)
      BY <1>2, <2>1, <2>2, <2>b, StepDropType DEF Y
    <2> QED
      BY <2>4, <2>5, <2>a, PerformTwo
  <1>5. Y = TypesAt(4)
    BY DEF TypesAt, TypePart, TypeNames, TypeAt, Without, Restrict
  <1>6. RowsAt(S, 4)
    BY DEF RowsAt, Names, InitialNames
  <1>7. Follows(R, S, DropProjectStatus, 5, 4)
    <2>1. "projects" \in {o.name : o \in Range(DropProjectStatus)}
      BY DEF DropProjectStatus, DropColumn, Range
    <2>2. \A t \in DOMAIN R \ {"projects"} : t \in DOMAIN S /\ S[t] = R[t]
      OBVIOUS
    <2> QED
      BY <2>1, <2>2 DEF Follows, RowsAt, Names, InitialNames
  <1> HIDE DEF T, Y, S
  <1> QED
    BY <1>2, <1>4, <1>5, <1>6, <1>7

\* Every table is a record of a table, the enum types of its columns a function.
LEMMA Shapes ==
  ASSUME NEW t \in Names(7)
  PROVE  \E c, e, r : TableAt(t, 5) = Table(c, e, r) /\ e = [x \in DOMAIN e |-> e[x]]
  <1> DEFINE Shape(m) == \E c, e, r : m = Table(c, e, r) /\ e = [x \in DOMAIN e |-> e[x]]
  <1> DEFINE texts == [locale |-> "locale_type"]
             technology == [category |-> "tech_category"]
  <1>a. /\ \A c, r : Shape(Table(c, None, r))
        /\ \A c, r : Shape(Table(c, texts, r))
        /\ \A c, r : Shape(Table(c, technology, r))
    <2>1. /\ None = [x \in DOMAIN None |-> None[x]]
          /\ texts = [x \in DOMAIN texts |-> texts[x]]
          /\ technology = [x \in DOMAIN technology |-> technology[x]]
      BY DEF None
    <2> HIDE DEF texts, technology
    <2> QED
      BY <2>1
  <1> HIDE DEF Shape
  <1>1. /\ Shape(AdminModels.admin_users) /\ Shape(AdminModels.admin_sessions)
        /\ Shape(AdminModels.login_attempts)
    BY <1>a DEF AdminModels
  <1>2. /\ Shape(CertificationModels.certifications)
        /\ Shape(CertificationModels.certification_translations)
        /\ Shape(HealthModels.network_health_samples)
    BY <1>a DEF CertificationModels, HealthModels
  <1>3. /\ Shape(ProjectModels.project_translations) /\ Shape(ProjectModels.project_images)
        /\ Shape(ProjectModels.technologies) /\ Shape(ProjectModels.project_technologies)
    BY <1>a DEF ProjectModels
  <1>4. Shape(TableAt("projects", 5))
    BY ProjectsAt DEF ProjectEnums, Shape
  <1>5. Shape(TableAt("skills", 5))
    BY SkillsAt DEF SkillEnums, Shape
  <1>6. Shape(TableAt("analytics_events", 5))
    BY EventsAt DEF EventEnums, Shape
  <1>7. t \notin {"projects", "skills", "analytics_events"} => TableAt(t, 5) = Models[t]
    BY DEF TableAt
  <1> HIDE DEF texts, technology
  <1>8. Shape(TableAt(t, 5))
    BY <1>1, <1>2, <1>3, <1>4, <1>5, <1>6, <1>7, TableModels DEF Names, InitialNames
  <1> QED
    BY <1>8 DEF Shape

\* The columns of a table, where a type is renamed.
LEMMA RetypedTable ==
  ASSUME NEW T, NEW y, NEW to, NEW t \in DOMAIN T, NEW c, NEW e, NEW r, T[t] = Table(c, e, r)
  PROVE  Retyped(T, y, to)[t]
            = Table(c, [x \in DOMAIN e |-> IF e[x] = y THEN to ELSE e[x]], r)
  <1>1. ASSUME NEW f, NEW w, w = [Table(c, e, r) EXCEPT !.enums = f]
        PROVE  w = Table(c, f, r)
    BY <1>1 DEF Table
  <1>2. Table(c, e, r).enums = e
    BY DEF Table
  <1>3. Retyped(T, y, to)[t] = [Table(c, e, r) EXCEPT !.enums =
            [x \in DOMAIN e |-> IF e[x] = y THEN to ELSE e[x]]]
    BY <1>2 DEF Retyped
  <1> QED
    BY <1>1, <1>3

\* A table whose column has another type.
LEMMA AlteredTable ==
  ASSUME NEW c, NEW r, NEW y, NEW z
  PROVE  OfType(Table(c, [category |-> z], r), "category", y) = Table(c, [category |-> y], r)
  <1>1. ASSUME NEW w, w = [Table(c, [category |-> z], r) EXCEPT !.enums = [category |-> y]]
        PROVE  w = Table(c, [category |-> y], r)
    BY <1>1 DEF Table
  <1>2. [[category |-> z] EXCEPT !["category"] = y] = [category |-> y]
    OBVIOUS
  <1>3. Table(c, [category |-> z], r).enums = [category |-> z]
    BY DEF Table
  <1> QED
    BY <1>1, <1>2, <1>3 DEF OfType

\* Renaming the type of the skills moves no other table.
LEMMA RetypedAway ==
  /\ DOMAIN Retyped(TablesAt(5), "skill_category", "skill_category_old") = Names(5)
  /\ \A t \in Names(5) \ {"skills"} :
        Retyped(TablesAt(5), "skill_category", "skill_category_old")[t] = TableAt(t, 5)
  /\ \E c : /\ "category" \in c
            /\ TableAt("skills", 5) = Table(c, SkillEnums, {})
            /\ Retyped(TablesAt(5), "skill_category", "skill_category_old")["skills"]
                  = Table(c, [category |-> "skill_category_old"], {})
  <1> DEFINE y == "skill_category"
             to == "skill_category_old"
             T == Retyped(TablesAt(5), y, to)
  <1>1. DOMAIN TablesAt(5) = Names(5) /\ \A t \in Names(5) : TablesAt(5)[t] = TableAt(t, 5)
    BY DEF TablesAt, Part
  <1>2. DOMAIN T = Names(5)
    BY <1>1 DEF Retyped
  <1>3. ASSUME NEW t \in Names(5) \ {"skills"}
        PROVE  T[t] = TableAt(t, 5)
    <2>1. t \in Names(7) /\ t # "skills"
      BY DEF Names
    <2>2. PICK c, e, r : TableAt(t, 5) = Table(c, e, r) /\ e = [x \in DOMAIN e |-> e[x]]
      BY <2>1, Shapes
    <2>3. TableAt(t, 5).enums = e
      BY <2>2 DEF Table
    <2>4. \A x \in DOMAIN e : e[x] # y
      <3>1. Range(e) \subseteq TypesOf(t)
        BY <2>1, <2>3, Enums
      <3>2. y \notin TypesOf(t)
        BY <2>1 DEF TypesOf
      <3> QED
        BY <3>1, <3>2 DEF Range
    <2>5. [x \in DOMAIN e |-> IF e[x] = y THEN to ELSE e[x]] = [x \in DOMAIN e |-> e[x]]
      BY <2>4
    <2> DEFINE f == [x \in DOMAIN e |-> IF e[x] = y THEN to ELSE e[x]]
    <2>6. T[t] = Table(c, f, r)
      BY <1>1, <2>2, RetypedTable
    <2>7. f = e
      BY <2>2, <2>5
    <2> HIDE DEF f, T
    <2> QED
      BY <2>2, <2>6, <2>7
  <1>4. \E c : /\ "category" \in c
               /\ TableAt("skills", 5) = Table(c, SkillEnums, {})
               /\ T["skills"] = Table(c, [category |-> to], {})
    <2> DEFINE c == {"id", "name", "category", "sort_order", "proficiency", "icon_url"}
    <2>0. "category" \in c
      OBVIOUS
    <2>1. TableAt("skills", 5) = Table(c, SkillEnums, {})
      BY SkillsAt
    <2> HIDE DEF c
    <2>2. "skills" \in Names(5)
      BY DEF Names, InitialNames
    <2> DEFINE f == [x \in DOMAIN SkillEnums |-> IF SkillEnums[x] = y THEN to ELSE SkillEnums[x]]
    <2>3. T["skills"] = Table(c, f, {})
      BY <1>1, <2>1, <2>2, RetypedTable
    <2>4. f = [category |-> to]
      BY DEF SkillEnums
    <2> HIDE DEF f, T
    <2> QED
      BY <2>0, <2>1, <2>3, <2>4
  <1> QED
    BY <1>2, <1>3, <1>4

\* Once the column of the skills has the new type, the tables are as they were.
LEMMA AlteredBack ==
  [Retyped(TablesAt(5), "skill_category", "skill_category_old")
      EXCEPT !["skills"] = OfType(@, "category", "skill_category")] = TablesAt(5)
  <1> DEFINE T == Retyped(TablesAt(5), "skill_category", "skill_category_old")
             U == [T EXCEPT !["skills"] = OfType(@, "category", "skill_category")]
  <1>1. DOMAIN T = Names(5) /\ \A t \in Names(5) \ {"skills"} : T[t] = TableAt(t, 5)
    BY RetypedAway
  <1>2. PICK c : /\ TableAt("skills", 5) = Table(c, SkillEnums, {})
                 /\ T["skills"] = Table(c, [category |-> "skill_category_old"], {})
    BY RetypedAway
  <1> HIDE DEF T
  <1>3. "skills" \in DOMAIN T
    BY <1>1 DEF Names, InitialNames
  <1>4. U["skills"] = TableAt("skills", 5)
    BY <1>2, <1>3, AlteredTable DEF SkillEnums
  <1>5. DOMAIN U = Names(5) /\ \A t \in Names(5) \ {"skills"} : U[t] = TableAt(t, 5)
    BY <1>1
  <1>6. U = [t \in DOMAIN U |-> U[t]]
    OBVIOUS
  <1> HIDE DEF U
  <1>7. U = TablesAt(5)
    BY <1>4, <1>5, <1>6 DEF TablesAt, Part
  <1> QED
    BY <1>7 DEF U, T

\* The types, where one was renamed, created anew and dropped.
LEMMA SwappedTypes ==
  ASSUME NEW a \in {5, 6}, NEW b \in {5, 6}
  PROVE  Without(Extend(Extend(Without(TypesAt(a), "skill_category"), "skill_category_old",
                               TypesAt(a)["skill_category"]),
                        "skill_category", TypeAt("skill_category", b)), "skill_category_old")
            = TypesAt(b)
  <1>1. TypeNames(a) = TypeNames(b) /\ "skill_category" \in TypeNames(a)
        /\ "skill_category_old" \notin TypeNames(a)
    BY DEF TypeNames
  <1>2. \A y : y # "skill_category" => TypeAt(y, a) = TypeAt(y, b)
    BY DEF TypeAt
  <1> QED
    BY <1>1, <1>2 DEF Without, Extend, Restrict, TypesAt, TypePart

\* The swap of the labels of skill_category, which leaves the tables as they were.
LEMMA Swapped ==
  ASSUME NEW a \in {5, 6}, NEW b \in {5, 6}, NEW checkfirst \in BOOLEAN, NEW M, NEW R,
         R["skills"] \subseteq AllSkills, "skills" \in DOMAIN R,
         NEW d, NEW d1, NEW d2, NEW d3, NEW d4, NEW d5,
         d = Db(TablesAt(5), TypesAt(a), M, R),
         d1 = Step(d, DeleteRows("skills", AllSkills)),
         d2 = Step(d1, RenameType("skill_category", "skill_category_old")),
         d3 = Step(d2, CreateType("skill_category", TypeAt("skill_category", b), checkfirst)),
         d4 = Step(d3, AlterType("skills", "category", "skill_category")),
         d5 = Step(d4, DropType("skill_category_old", checkfirst))
  PROVE  d5 = Db(TablesAt(5), TypesAt(b), M, [R EXCEPT !["skills"] = @ \ AllSkills])
  <1> DEFINE S == [R EXCEPT !["skills"] = @ \ AllSkills]
             T == Retyped(TablesAt(5), "skill_category", "skill_category_old")
             U == [T EXCEPT !["skills"] = OfType(@, "category", "skill_category")]
             X == Extend(Without(TypesAt(a), "skill_category"), "skill_category_old",
                         TypesAt(a)["skill_category"])
             Y == Extend(X, "skill_category", TypeAt("skill_category", b))
             Z == Without(Y, "skill_category_old")
  <1>1. /\ "skills" \in DOMAIN TablesAt(5) /\ S["skills"] = {}
        /\ DOMAIN TablesAt(5) = Names(5)
    BY DEF TablesAt, Part, Names, InitialNames
  <1>2. /\ "skill_category" \in DOMAIN TypesAt(a) /\ "skill_category_old" \notin DOMAIN TypesAt(a)
        /\ "skill_category" \notin DOMAIN X
        /\ "skill_category" \in DOMAIN Y /\ "skill_category_old" \in DOMAIN Y
    BY DEF TypesAt, TypePart, TypeNames, Without, Extend, Restrict
  <1>3. /\ DOMAIN T = Names(5) /\ "category" \in T["skills"].columns
    BY RetypedAway DEF Table
  <1>4. U = TablesAt(5) /\ Z = TypesAt(b)
    BY AlteredBack, SwappedTypes
  <1>5. \A t \in DOMAIN TablesAt(5) : "skill_category_old" \notin Range(TablesAt(5)[t].enums)
    <2>1. \A t \in Names(5) : "skill_category_old" \notin Range(TableAt(t, 5).enums)
      <3>1. Names(5) \subseteq Names(7)
        BY DEF Names
      <3> QED
        BY <3>1, Enums DEF TypesOf
    <2> QED
      BY <2>1 DEF TablesAt, Part
  <1> HIDE DEF S, T, U, X, Y, Z
  <1>6. d1 = Db(TablesAt(5), TypesAt(a), M, S)
    BY <1>1, StepDelete DEF S
  <1>7. d2 = Db(T, X, M, S)
    BY <1>2, <1>6, StepRename DEF T, X
  <1>8. d3 = Db(T, Y, M, S)
    BY <1>2, <1>7, StepCreateType DEF Y
  <1>9. d4 = Db(U, Y, M, S)
    <2>1. "category" \in T["skills"].columns
      BY <1>3
    <2>2. "skill_category" \in DOMAIN Y
      BY <1>2
    <2>3. S["skills"] = {}
      BY <1>1
    <2>4. Step(Db(T, Y, M, S), AlterType("skills", "category", "skill_category")) = Db(U, Y, M, S)
      BY <2>1, <2>2, <2>3, StepAlter DEF U
    <2> QED
      BY <1>8, <2>4
  <1>10. d5 = Db(U, Z, M, S)
    BY <1>2, <1>4, <1>5, <1>9, StepDropType DEF Z
  <1> QED
    BY <1>4, <1>10 DEF S

\* The columns of skills, there and back.
LEMMA ReworkedColumns ==
  ASSUME NEW Y, NEW M, NEW R, NEW d1, NEW d2, NEW d3,
         d1 = Step(Db(TablesAt(5), Y, M, R), AddColumn("skills", "featured_rank")),
         d2 = Step(d1, DropColumn("skills", "proficiency")),
         d3 = Step(d2, DropColumn("skills", "icon_url"))
  PROVE  d3 = Db(TablesAt(6), Y, M, [[R EXCEPT !["skills"] = @] EXCEPT !["skills"] = @])
  <1> DEFINE c0 == {"id", "name", "category", "sort_order", "proficiency", "icon_url"}
             c1 == c0 \cup {"featured_rank"}
             c2 == c1 \ {"proficiency"}
             c3 == c2 \ {"icon_url"}
             T1 == [TablesAt(5) EXCEPT !["skills"] = WithColumn(@, "featured_rank")]
             T2 == [T1 EXCEPT !["skills"] = WithoutColumn(@, "proficiency")]
             T3 == [T2 EXCEPT !["skills"] = WithoutColumn(@, "icon_url")]
             Q == [R EXCEPT !["skills"] = @]
             S == [Q EXCEPT !["skills"] = @]
  <1>1. /\ c3 = {"id", "name", "category", "featured_rank", "sort_order"}
        /\ "featured_rank" \notin c0 /\ "proficiency" \in c1 /\ "icon_url" \in c2
    OBVIOUS
  <1>2. TableAt("skills", 5) = Table(c0, SkillEnums, {})
    BY SkillsAt
  <1>3. TableAt("skills", 6) = Table(c3, SkillEnums, {})
    BY <1>1, SkillsAt
  <1>4. /\ DOMAIN TablesAt(5) = Names(5) /\ "skills" \in Names(5) /\ Names(6) = Names(5)
        /\ TablesAt(5)["skills"] = Table(c0, SkillEnums, {})
    BY <1>2 DEF TablesAt, Part, Names, InitialNames
  <1>5. Without(SkillEnums, "proficiency") = SkillEnums /\ Without(SkillEnums, "icon_url") = SkillEnums
    BY DEF Without, Restrict, SkillEnums
  <1> HIDE DEF c0, c1, c2, c3
  <1>6. DOMAIN T1 = Names(5) /\ T1["skills"] = Table(c1, SkillEnums, {})
    BY <1>4, WithColumnTable DEF c1
  <1> HIDE DEF T1
  <1>7. DOMAIN T2 = Names(5) /\ T2["skills"] = Table(c2, SkillEnums, {})
    BY <1>4, <1>5, <1>6, WithoutColumnTable DEF c2
  <1> HIDE DEF T2
  <1>8. DOMAIN T3 = Names(5) /\ T3["skills"] = Table(c3, SkillEnums, {})
    BY <1>4, <1>5, <1>7, WithoutColumnTable DEF c3
  <1>9. T3 = TablesAt(6)
    <2>1. \A t \in Names(5) \ {"skills"} : T3[t] = TableAt(t, 6)
      <3>1. \A t \in Names(5) \ {"skills"} : TableAt(t, 5) = TableAt(t, 6)
        BY DEF TableAt
      <3>2. \A t \in Names(5) \ {"skills"} : T3[t] = TablesAt(5)[t]
        BY <1>4 DEF T1, T2
      <3> QED
        BY <3>1, <3>2 DEF TablesAt, Part
    <2>2. T3 = [t \in DOMAIN T3 |-> T3[t]]
      OBVIOUS
    <2> HIDE DEF T3
    <2> QED
      BY <1>3, <1>4, <1>8, <2>1, <2>2 DEF TablesAt, Part
  <1> HIDE DEF T3, Q, S
  <1>10. d1 = Db(T1, Y, M, R)
    <2>1. "skills" \in DOMAIN TablesAt(5)
      BY <1>4
    <2>2. "featured_rank" \notin TablesAt(5)["skills"].columns
      BY <1>1, <1>4 DEF Table
    <2> QED
      BY <2>1, <2>2, StepAddColumn DEF T1
  <1>11. d2 = Db(T2, Y, M, Q)
    <2>1. "proficiency" \in T1["skills"].columns
      BY <1>1, <1>6 DEF Table
    <2> QED
      BY <1>10, <2>1, StepDropColumn DEF T2, Q
  <1>12. d3 = Db(T3, Y, M, S)
    <2>1. "icon_url" \in T2["skills"].columns
      BY <1>1, <1>7 DEF Table
    <2> QED
      BY <1>11, <2>1, StepDropColumn DEF T3, S
  <1> QED
    BY <1>9, <1>12 DEF S, Q

\* And back.
LEMMA RestoredColumns ==
  ASSUME NEW Y, NEW M, NEW R, NEW d1, NEW d2, NEW d3,
         d1 = Step(Db(TablesAt(6), Y, M, R), AddColumn("skills", "icon_url")),
         d2 = Step(d1, AddColumn("skills", "proficiency")),
         d3 = Step(d2, DropColumn("skills", "featured_rank"))
  PROVE  d3 = Db(TablesAt(5), Y, M, [R EXCEPT !["skills"] = @])
  <1> DEFINE c0 == {"id", "name", "category", "featured_rank", "sort_order"}
             c1 == c0 \cup {"icon_url"}
             c2 == c1 \cup {"proficiency"}
             c3 == c2 \ {"featured_rank"}
             T1 == [TablesAt(6) EXCEPT !["skills"] = WithColumn(@, "icon_url")]
             T2 == [T1 EXCEPT !["skills"] = WithColumn(@, "proficiency")]
             T3 == [T2 EXCEPT !["skills"] = WithoutColumn(@, "featured_rank")]
             S == [R EXCEPT !["skills"] = @]
  <1>1. /\ c3 = {"id", "name", "category", "sort_order", "proficiency", "icon_url"}
        /\ "icon_url" \notin c0 /\ "proficiency" \notin c1 /\ "featured_rank" \in c2
    OBVIOUS
  <1>2. TableAt("skills", 6) = Table(c0, SkillEnums, {})
    BY SkillsAt
  <1>3. TableAt("skills", 5) = Table(c3, SkillEnums, {})
    BY <1>1, SkillsAt
  <1>4. /\ DOMAIN TablesAt(6) = Names(6) /\ "skills" \in Names(6) /\ Names(6) = Names(5)
        /\ TablesAt(6)["skills"] = Table(c0, SkillEnums, {})
    BY <1>2 DEF TablesAt, Part, Names, InitialNames
  <1>5. Without(SkillEnums, "featured_rank") = SkillEnums
    BY DEF Without, Restrict, SkillEnums
  <1> HIDE DEF c0, c1, c2, c3
  <1>6. DOMAIN T1 = Names(6) /\ T1["skills"] = Table(c1, SkillEnums, {})
    BY <1>4, WithColumnTable DEF c1
  <1> HIDE DEF T1
  <1>7. DOMAIN T2 = Names(6) /\ T2["skills"] = Table(c2, SkillEnums, {})
    BY <1>4, <1>6, WithColumnTable DEF c2
  <1> HIDE DEF T2
  <1>8. DOMAIN T3 = Names(6) /\ T3["skills"] = Table(c3, SkillEnums, {})
    BY <1>4, <1>5, <1>7, WithoutColumnTable DEF c3
  <1>9. T3 = TablesAt(5)
    <2>1. \A t \in Names(6) \ {"skills"} : T3[t] = TableAt(t, 5)
      <3>1. \A t \in Names(6) \ {"skills"} : TableAt(t, 5) = TableAt(t, 6)
        BY DEF TableAt
      <3>2. \A t \in Names(6) \ {"skills"} : T3[t] = TablesAt(6)[t]
        BY <1>4 DEF T1, T2
      <3> QED
        BY <3>1, <3>2 DEF TablesAt, Part
    <2>2. T3 = [t \in DOMAIN T3 |-> T3[t]]
      OBVIOUS
    <2> HIDE DEF T3
    <2> QED
      BY <1>3, <1>4, <1>8, <2>1, <2>2 DEF TablesAt, Part
  <1> HIDE DEF T3, S
  <1>10. d1 = Db(T1, Y, M, R)
    <2>1. "skills" \in DOMAIN TablesAt(6)
      BY <1>4
    <2>2. "icon_url" \notin TablesAt(6)["skills"].columns
      BY <1>1, <1>4 DEF Table
    <2> QED
      BY <2>1, <2>2, StepAddColumn DEF T1
  <1>11. d2 = Db(T2, Y, M, R)
    <2>1. "skills" \in DOMAIN T1
      BY <1>4, <1>6
    <2>2. "proficiency" \notin T1["skills"].columns
      BY <1>1, <1>6 DEF Table
    <2> QED
      BY <1>10, <2>1, <2>2, StepAddColumn DEF T2
  <1>12. d3 = Db(T3, Y, M, S)
    <2>1. "featured_rank" \in T2["skills"].columns
      BY <1>1, <1>7 DEF Table
    <2> QED
      BY <1>11, <2>1, StepDropColumn DEF T3, S
  <1> QED
    BY <1>9, <1>12 DEF S

\* A list of three operations, followed by one of five.
LEMMA ThreeThenFive ==
  ASSUME NEW A, NEW s \in Seq(A), NEW t \in Seq(A), Len(s) = 3, Len(t) = 5
  PROVE  /\ Len(s \o t) = 8
         /\ (s \o t)[1] = s[1] /\ (s \o t)[2] = s[2] /\ (s \o t)[3] = s[3]
         /\ (s \o t)[4] = t[1] /\ (s \o t)[5] = t[2] /\ (s \o t)[6] = t[3]
         /\ (s \o t)[7] = t[4] /\ (s \o t)[8] = t[5]
  <1>1. /\ Len(s \o t) = Len(s) + Len(t)
        /\ \A i \in 1..Len(s) + Len(t) :
              (s \o t)[i] = IF i <= Len(s) THEN s[i] ELSE t[i - Len(s)]
    BY ConcatProperties
  <1> QED
    BY <1>1

\* The sixth revision swaps the labels and reworks the columns.
LEMMA Up6 == Leads(5, ReworkSkills, 6)
  <1> SUFFICES ASSUME NEW M, NEW R, RowsAt(R, 5)
               PROVE  \E K, S : /\ Perform(Db(TablesAt(5), TypesAt(5), M, R), ReworkSkills)
                                      = Db(TablesAt(6), TypesAt(6), K, S)
                                /\ RowsAt(S, 6)
                                /\ Follows(R, S, ReworkSkills, 5, 6)
    BY DEF Leads
  <1> DEFINE checkfirst == FALSE
             ops == ReworkSkills
             d == Db(TablesAt(5), TypesAt(5), M, R)
             P == [R EXCEPT !["skills"] = @ \ AllSkills]
             S == [[P EXCEPT !["skills"] = @] EXCEPT !["skills"] = @]
  <1>1. TypeAt("skill_category", 6) = NEW_VALUES /\ checkfirst \in BOOLEAN
    BY DEF TypeAt, ModelLabels, NEW_VALUES
  <1>2. /\ Len(ops) = 8
        /\ ops[1] = DeleteRows("skills", AllSkills)
        /\ ops[2] = RenameType("skill_category", "skill_category_old")
        /\ ops[3] = CreateType("skill_category", NEW_VALUES, checkfirst)
        /\ ops[4] = AlterType("skills", "category", "skill_category")
        /\ ops[5] = DropType("skill_category_old", checkfirst)
        /\ ops[6] = AddColumn("skills", "featured_rank")
        /\ ops[7] = DropColumn("skills", "proficiency")
        /\ ops[8] = DropColumn("skills", "icon_url")
    BY DEF ReworkSkills, SwapEnum
  <1> HIDE DEF checkfirst, ops, d, P
  <1>3. PICK h : /\ h[0] = d
                 /\ \A n \in 1..8 : h[n] = Step(h[n - 1], ops[n])
                 /\ Perform(d, ops) = h[8]
    <2>1. Len(ops) \in Nat
      BY <1>2
    <2>2. \E h : /\ h[0] = d
                 /\ \A n \in 1..Len(ops) : h[n] = Step(h[n - 1], ops[n])
                 /\ Perform(d, ops) = h[Len(ops)]
      BY <2>1, Performed
    <2> QED
      BY <1>2, <2>2
  <1>4. /\ h[1] = Step(h[0], ops[1]) /\ h[2] = Step(h[1], ops[2])
        /\ h[3] = Step(h[2], ops[3]) /\ h[4] = Step(h[3], ops[4])
        /\ h[5] = Step(h[4], ops[5]) /\ h[6] = Step(h[5], ops[6])
        /\ h[7] = Step(h[6], ops[7]) /\ h[8] = Step(h[7], ops[8])
    BY <1>3
  <1>5. "skills" \in DOMAIN R /\ R["skills"] \subseteq AllSkills
    BY DEF RowsAt, Names, InitialNames
  <1>6. h[5] = Db(TablesAt(5), TypesAt(6), M, P)
    BY <1>1, <1>2, <1>3, <1>4, <1>5, Swapped DEF d, P
  <1>7. h[8] = Db(TablesAt(6), TypesAt(6), M, S)
    BY <1>2, <1>4, <1>6, ReworkedColumns
  <1>8. DOMAIN S = DOMAIN R /\ \A t \in DOMAIN R \ {"skills"} : S[t] = R[t]
    BY DEF P
  <1>9. S["skills"] = {}
    BY <1>5 DEF P
  <1> HIDE DEF S
  <1>10. RowsAt(S, 6)
    BY <1>8, <1>9 DEF RowsAt, Names, InitialNames
  <1>11. Follows(R, S, ReworkSkills, 5, 6)
    <2>1. "skills" \in {o.name : o \in Range(ops)}
      <3>1. ops[6] \in Range(ops) /\ ops[6].name = "skills"
        BY <1>2 DEF Range, AddColumn
      <3> QED
        BY <3>1
    <2> QED
      BY <1>8, <2>1 DEF Follows, ops, RowsAt, Names, InitialNames
  <1> QED
    BY <1>3, <1>7, <1>10, <1>11 DEF ops, d

\* Undoing it restores the columns and swaps the labels back.
LEMMA Down6 == Leads(6, RestoreSkills, 5)
  <1> SUFFICES ASSUME NEW M, NEW R, RowsAt(R, 6)
               PROVE  \E K, S : /\ Perform(Db(TablesAt(6), TypesAt(6), M, R), RestoreSkills)
                                      = Db(TablesAt(5), TypesAt(5), K, S)
                                /\ RowsAt(S, 5)
                                /\ Follows(R, S, RestoreSkills, 6, 5)
    BY DEF Leads
  <1> DEFINE checkfirst == FALSE
             ops == RestoreSkills
             d == Db(TablesAt(6), TypesAt(6), M, R)
             P == [R EXCEPT !["skills"] = @]
             S == [P EXCEPT !["skills"] = @ \ AllSkills]
  <1>1. TypeAt("skill_category", 5) = OLD_VALUES /\ checkfirst \in BOOLEAN
    BY DEF TypeAt
  <1>2. /\ Len(ops) = 8
        /\ ops[1] = AddColumn("skills", "icon_url")
        /\ ops[2] = AddColumn("skills", "proficiency")
        /\ ops[3] = DropColumn("skills", "featured_rank")
        /\ ops[4] = DeleteRows("skills", AllSkills)
        /\ ops[5] = RenameType("skill_category", "skill_category_old")
        /\ ops[6] = CreateType("skill_category", OLD_VALUES, checkfirst)
        /\ ops[7] = AlterType("skills", "category", "skill_category")
        /\ ops[8] = DropType("skill_category_old", checkfirst)
    <2> DEFINE columns == <<AddColumn("skills", "icon_url"), AddColumn("skills", "proficiency"),
                            DropColumn("skills", "featured_rank")>>
               labels == <<DeleteRows("skills", AllSkills),
                           RenameType("skill_category", "skill_category_old"),
                           CreateType("skill_category", OLD_VALUES, checkfirst),
                           AlterType("skills", "category", "skill_category"),
                           DropType("skill_category_old", checkfirst)>>
               A == {columns[1], columns[2], columns[3],
                     labels[1], labels[2], labels[3], labels[4], labels[5]}
    <2>1. ops = columns \o labels
      BY DEF RestoreSkills, SwapEnum
    <2> HIDE DEF checkfirst, ops
    <2>2. columns \in Seq(A) /\ labels \in Seq(A) /\ Len(columns) = 3 /\ Len(labels) = 5
      OBVIOUS
    <2>3. /\ columns[1] = AddColumn("skills", "icon_url")
          /\ columns[2] = AddColumn("skills", "proficiency")
          /\ columns[3] = DropColumn("skills", "featured_rank")
          /\ labels[1] = DeleteRows("skills", AllSkills)
          /\ labels[2] = RenameType("skill_category", "skill_category_old")
          /\ labels[3] = CreateType("skill_category", OLD_VALUES, checkfirst)
          /\ labels[4] = AlterType("skills", "category", "skill_category")
          /\ labels[5] = DropType("skill_category_old", checkfirst)
      OBVIOUS
    <2> HIDE DEF columns, labels, A
    <2> QED
      BY <2>1, <2>2, <2>3, ThreeThenFive
  <1> HIDE DEF checkfirst, ops, d, P
  <1>3. PICK h : /\ h[0] = d
                 /\ \A n \in 1..8 : h[n] = Step(h[n - 1], ops[n])
                 /\ Perform(d, ops) = h[8]
    <2>1. Len(ops) \in Nat
      BY <1>2
    <2>2. \E h : /\ h[0] = d
                 /\ \A n \in 1..Len(ops) : h[n] = Step(h[n - 1], ops[n])
                 /\ Perform(d, ops) = h[Len(ops)]
      BY <2>1, Performed
    <2> QED
      BY <1>2, <2>2
  <1>4. /\ h[1] = Step(h[0], ops[1]) /\ h[2] = Step(h[1], ops[2])
        /\ h[3] = Step(h[2], ops[3]) /\ h[4] = Step(h[3], ops[4])
        /\ h[5] = Step(h[4], ops[5]) /\ h[6] = Step(h[5], ops[6])
        /\ h[7] = Step(h[6], ops[7]) /\ h[8] = Step(h[7], ops[8])
    BY <1>3
  <1>5. "skills" \in DOMAIN P /\ P["skills"] \subseteq AllSkills
    BY DEF RowsAt, Names, InitialNames, P
  <1>6. h[3] = Db(TablesAt(5), TypesAt(6), M, P)
    BY <1>2, <1>3, <1>4, RestoredColumns DEF d, P
  <1>7. h[8] = Db(TablesAt(5), TypesAt(5), M, S)
    BY <1>1, <1>2, <1>4, <1>5, <1>6, Swapped
  <1>8. DOMAIN S = DOMAIN R /\ \A t \in DOMAIN R \ {"skills"} : S[t] = R[t]
    BY DEF P
  <1>9. S["skills"] = {}
    BY <1>5
  <1> HIDE DEF S
  <1>10. RowsAt(S, 5)
    BY <1>8, <1>9 DEF RowsAt, Names, InitialNames
  <1>11. Follows(R, S, RestoreSkills, 6, 5)
    <2>1. "skills" \in {o.name : o \in Range(ops)}
      <3>1. ops[1] \in Range(ops) /\ ops[1].name = "skills"
        BY <1>2 DEF Range, AddColumn
      <3> QED
        BY <3>1
    <2> QED
      BY <1>8, <2>1 DEF Follows, ops, RowsAt, Names, InitialNames
  <1> QED
    BY <1>3, <1>7, <1>10, <1>11 DEF ops, d

\* The seventh revision deletes the seeded events, and no visit.
LEMMA Up7 == Leads(6, DeviceAndReferrer, 7)
  <1> SUFFICES ASSUME NEW M, NEW R, RowsAt(R, 6)
               PROVE  \E K, S : /\ Perform(Db(TablesAt(6), TypesAt(6), M, R), DeviceAndReferrer)
                                      = Db(TablesAt(7), TypesAt(7), K, S)
                                /\ RowsAt(S, 7)
                                /\ Follows(R, S, DeviceAndReferrer, 6, 7)
    BY DEF Leads
  <1> DEFINE events == "analytics_events"
             T == [TablesAt(6) EXCEPT ![events] = WithColumn(@, "device_class")]
             U == [T EXCEPT ![events] = WithColumn(@, "referrer_host")]
             S == [R EXCEPT ![events] = @ \ {"demo"}]
             fewer == EventColumns \ {"device_class", "referrer_host"}
  <1>1. /\ DOMAIN TablesAt(6) = Names(6) /\ events \in Names(6)
        /\ TablesAt(6)[events] = Table(fewer, EventEnums, {"projects"})
    BY EventsAt DEF TablesAt, Part, Names, InitialNames
  <1>2. /\ DOMAIN T = Names(6)
        /\ T[events] = Table(fewer \cup {"device_class"}, EventEnums, {"projects"})
    <2> HIDE DEF fewer
    <2>1. WithColumn(Table(fewer, EventEnums, {"projects"}), "device_class")
            = Table(fewer \cup {"device_class"}, EventEnums, {"projects"})
      BY WithColumnTable
    <2> QED
      BY <1>1, <2>1
  <1>3. U = TablesAt(7)
    <2>1. Names(7) = Names(6)
      BY DEF Names
    <2>2. \A t : t # events => TableAt(t, 6) = TableAt(t, 7)
      BY DEF TableAt
    <2>3. WithColumn(T[events], "referrer_host") = TableAt(events, 7)
      <3>1. (fewer \cup {"device_class"}) \cup {"referrer_host"} = EventColumns
        BY EventsAt
      <3>2. TableAt(events, 7) = Table(EventColumns, EventEnums, {"projects"})
        BY EventsAt
      <3> HIDE DEF T, fewer
      <3>3. WithColumn(Table(fewer \cup {"device_class"}, EventEnums, {"projects"}), "referrer_host")
              = Table((fewer \cup {"device_class"}) \cup {"referrer_host"}, EventEnums, {"projects"})
        BY WithColumnTable
      <3> QED
        BY <1>2, <3>1, <3>2, <3>3
    <2>4. U = [TablesAt(6) EXCEPT ![events] = TableAt(events, 7)]
      <3> DEFINE V == [TablesAt(6) EXCEPT ![events] = TableAt(events, 7)]
      <3>1. DOMAIN U = Names(6) /\ DOMAIN V = Names(6)
        BY <1>1
      <3>2. \A t \in Names(6) : U[t] = V[t]
        BY <1>1, <2>3
      <3>3. U = [t \in DOMAIN U |-> U[t]] /\ V = [t \in DOMAIN V |-> V[t]]
        OBVIOUS
      <3> HIDE DEF U, V
      <3> QED
        BY <3>1, <3>2, <3>3 DEF V
    <2> QED
      BY <1>1, <2>1, <2>2, <2>4, OneTable
  <1>4. Perform(Db(TablesAt(6), TypesAt(6), M, R), DeviceAndReferrer) = Db(U, TypesAt(6), M, S)
    <2>1. "device_class" \notin TablesAt(6)[events].columns
      BY <1>1 DEF Table
    <2>a. events \in DOMAIN T /\ "referrer_host" \notin T[events].columns
      BY <1>1, <1>2 DEF Table
    <2>b. DOMAIN U = Names(6)
      BY <1>2
    <2> HIDE DEF T, U, S
    <2>2. Step(Db(TablesAt(6), TypesAt(6), M, R), AddColumn(events, "device_class"))
             = Db(T, TypesAt(6), M, R)
      BY <1>1, <2>1, StepAddColumn DEF T
    <2>3. Step(Db(T, TypesAt(6), M, R), AddColumn(events, "referrer_host"))
             = Db(U, TypesAt(6), M, R)
      BY <2>a, StepAddColumn DEF U
    <2>4. Step(Db(U, TypesAt(6), M, R), DeleteRows(events, {"demo"})) = Db(U, TypesAt(6), M, S)
      BY <1>1, <2>b, StepDelete DEF S
    <2> QED
      BY <2>2, <2>3, <2>4, PerformThree DEF DeviceAndReferrer
  <1>5. TypesAt(6) = TypesAt(7)
    BY DEF TypesAt, TypePart, TypeNames, TypeAt
  <1>6. RowsAt(S, 7)
    BY DEF RowsAt, Names, InitialNames
  <1>7. Follows(R, S, DeviceAndReferrer, 6, 7)
    <2>1. "analytics_events" \in {o.name : o \in Range(DeviceAndReferrer)}
      BY DEF DeviceAndReferrer, AddColumn, Range
    <2>2. \A t \in DOMAIN R \ {"analytics_events"} : t \in DOMAIN S /\ S[t] = R[t]
      OBVIOUS
    <2>3. "visit" \in R["analytics_events"] => "visit" \in S["analytics_events"]
      BY DEF RowsAt, Names, InitialNames
    <2> HIDE DEF S
    <2> QED
      BY <2>1, <2>2, <2>3 DEF Follows
  <1> HIDE DEF T, U, S
  <1> QED
    BY <1>3, <1>4, <1>5, <1>6, <1>7

\* Undoing it drops its columns.
LEMMA Down7 == Leads(7, DropDeviceAndReferrer, 6)
  <1> SUFFICES ASSUME NEW M, NEW R, RowsAt(R, 7)
               PROVE  \E K, S : /\ Perform(Db(TablesAt(7), TypesAt(7), M, R), DropDeviceAndReferrer)
                                      = Db(TablesAt(6), TypesAt(6), K, S)
                                /\ RowsAt(S, 6)
                                /\ Follows(R, S, DropDeviceAndReferrer, 7, 6)
    BY DEF Leads
  <1> DEFINE events == "analytics_events"
             T == [TablesAt(7) EXCEPT ![events] = WithoutColumn(@, "referrer_host")]
             U == [T EXCEPT ![events] = WithoutColumn(@, "device_class")]
             Q == [R EXCEPT ![events] = @]
             S == [Q EXCEPT ![events] = @]
  <1>1. /\ DOMAIN TablesAt(7) = Names(7) /\ events \in Names(7)
        /\ TablesAt(7)[events] = Table(EventColumns, EventEnums, {"projects"})
    BY EventsAt DEF TablesAt, Part, Names, InitialNames
  <1>a. Without(EventEnums, "referrer_host") = EventEnums /\ Without(EventEnums, "device_class") = EventEnums
    BY DEF Without, Restrict, EventEnums
  <1>2. /\ DOMAIN T = Names(7)
        /\ T[events] = Table(EventColumns \ {"referrer_host"}, EventEnums, {"projects"})
    <2>1. WithoutColumn(Table(EventColumns, EventEnums, {"projects"}), "referrer_host")
            = Table(EventColumns \ {"referrer_host"}, Without(EventEnums, "referrer_host"), {"projects"})
      BY WithoutColumnTable
    <2> QED
      BY <1>1, <1>a, <2>1
  <1>3. U = TablesAt(6)
    <2>1. Names(7) = Names(6)
      BY DEF Names
    <2>2. \A t : t # events => TableAt(t, 7) = TableAt(t, 6)
      BY DEF TableAt
    <2>3. WithoutColumn(T[events], "device_class") = TableAt(events, 6)
      <3>1. (EventColumns \ {"referrer_host"}) \ {"device_class"}
              = EventColumns \ {"device_class", "referrer_host"}
        OBVIOUS
      <3>2. TableAt(events, 6)
              = Table(EventColumns \ {"device_class", "referrer_host"}, EventEnums, {"projects"})
        BY EventsAt
      <3> HIDE DEF T
      <3>3. WithoutColumn(Table(EventColumns \ {"referrer_host"}, EventEnums, {"projects"}), "device_class")
              = Table((EventColumns \ {"referrer_host"}) \ {"device_class"},
                      Without(EventEnums, "device_class"), {"projects"})
        BY WithoutColumnTable
      <3> QED
        BY <1>2, <1>a, <3>1, <3>2, <3>3
    <2>4. U = [TablesAt(7) EXCEPT ![events] = TableAt(events, 6)]
      <3> DEFINE V == [TablesAt(7) EXCEPT ![events] = TableAt(events, 6)]
      <3>1. DOMAIN U = Names(7) /\ DOMAIN V = Names(7)
        BY <1>1
      <3>2. \A t \in Names(7) : U[t] = V[t]
        BY <1>1, <2>3
      <3>3. U = [t \in DOMAIN U |-> U[t]] /\ V = [t \in DOMAIN V |-> V[t]]
        OBVIOUS
      <3> HIDE DEF U, V
      <3> QED
        BY <3>1, <3>2, <3>3 DEF V
    <2> QED
      BY <1>1, <2>1, <2>2, <2>4, OneTable
  <1>4. Perform(Db(TablesAt(7), TypesAt(7), M, R), DropDeviceAndReferrer) = Db(U, TypesAt(7), M, S)
    <2>1. /\ "referrer_host" \in TablesAt(7)[events].columns
          /\ "device_class" \in T[events].columns
      BY <1>1, <1>2, EventsAt DEF Table
    <2> HIDE DEF T, U, Q, S
    <2>2. Step(Db(TablesAt(7), TypesAt(7), M, R), DropColumn(events, "referrer_host"))
             = Db(T, TypesAt(7), M, Q)
      BY <2>1, StepDropColumn DEF T, Q
    <2>3. Step(Db(T, TypesAt(7), M, Q), DropColumn(events, "device_class"))
             = Db(U, TypesAt(7), M, S)
      BY <2>1, StepDropColumn DEF U, S
    <2> QED
      BY <2>2, <2>3, PerformTwo DEF DropDeviceAndReferrer
  <1>5. TypesAt(6) = TypesAt(7)
    BY DEF TypesAt, TypePart, TypeNames, TypeAt
  <1>6. DOMAIN S = DOMAIN R /\ \A t \in DOMAIN R : S[t] = R[t]
    OBVIOUS
  <1> HIDE DEF T, U, Q, S
  <1>7. RowsAt(S, 6)
    BY <1>6 DEF RowsAt, Names, InitialNames
  <1>8. Follows(R, S, DropDeviceAndReferrer, 7, 6)
    BY <1>6 DEF Follows, RowsAt, Names, InitialNames
  <1> QED
    BY <1>3, <1>4, <1>5, <1>7, <1>8

-----------------------------------------------------------------------------
(* The commands of alembic.                                                *)

\* Every revision, up and down, leads from one to the next.
LEMMA Revisions ==
  /\ Len(Upgrades) = 7
  /\ \A n \in 1..7 : Leads(n - 1, Upgrades[n], n) /\ Leads(n, Downgrades[n], n - 1)
  <1>0. Len(Upgrades) = 7
    BY DEF Upgrades
  <1>a. /\ Upgrades[1] = InitialSchema /\ Upgrades[2] = AddAdminSessions
        /\ Upgrades[3] = AddCertifications /\ Upgrades[4] = AddNetworkHealth
        /\ Upgrades[5] = AddProjectStatus /\ Upgrades[6] = ReworkSkills
        /\ Upgrades[7] = DeviceAndReferrer
    BY DEF Upgrades
  <1>b. /\ Downgrades[1] = DropInitialSchema /\ Downgrades[2] = DropAdminSessions
        /\ Downgrades[3] = DropCertifications /\ Downgrades[4] = DropNetworkHealth
        /\ Downgrades[5] = DropProjectStatus /\ Downgrades[6] = RestoreSkills
        /\ Downgrades[7] = DropDeviceAndReferrer
    BY DEF Downgrades
  <1>1. /\ 1 - 1 = 0 /\ 2 - 1 = 1 /\ 3 - 1 = 2 /\ 4 - 1 = 3 /\ 5 - 1 = 4 /\ 6 - 1 = 5 /\ 7 - 1 = 6
        /\ \A n \in 1..7 : n \in {1, 2, 3, 4, 5, 6, 7}
    OBVIOUS
  <1>2. Leads(1 - 1, Upgrades[1], 1) /\ Leads(1, Downgrades[1], 1 - 1)
    BY <1>a, <1>b, <1>1, Up1, Down1
  <1>3. Leads(2 - 1, Upgrades[2], 2) /\ Leads(2, Downgrades[2], 2 - 1)
    BY <1>a, <1>b, <1>1, Up2, Down2
  <1>4. Leads(3 - 1, Upgrades[3], 3) /\ Leads(3, Downgrades[3], 3 - 1)
    BY <1>a, <1>b, <1>1, Up3, Down3
  <1>5. Leads(4 - 1, Upgrades[4], 4) /\ Leads(4, Downgrades[4], 4 - 1)
    BY <1>a, <1>b, <1>1, Up4, Down4
  <1>6. Leads(5 - 1, Upgrades[5], 5) /\ Leads(5, Downgrades[5], 5 - 1)
    BY <1>a, <1>b, <1>1, Up5, Down5
  <1>7. Leads(6 - 1, Upgrades[6], 6) /\ Leads(6, Downgrades[6], 6 - 1)
    BY <1>a, <1>b, <1>1, Up6, Down6
  <1>8. Leads(7 - 1, Upgrades[7], 7) /\ Leads(7, Downgrades[7], 7 - 1)
    BY <1>a, <1>b, <1>1, Up7, Down7
  <1> QED
    BY <1>0, <1>1, <1>2, <1>3, <1>4, <1>5, <1>6, <1>7, <1>8

\* A command forgets what the one before has created, and performs one
\* revision after the other.
LEMMA Ascent ==
  ASSUME NEW d, NEW from \in 0..7, NEW to \in 0..7, from <= to
  PROVE  \E h : /\ h[from] = Forget(d)
                /\ \A n \in (from + 1)..to : h[n] = Perform(h[n - 1], Upgrades[n])
                /\ Execute(d, from, to) = h[to]
  <1> DEFINE m == to - from
             begun == Forget(d)
             Rec(h, n) == h = [i \in from..n |->
                                  IF i = from THEN begun ELSE Perform(h[i - 1], Upgrades[i])]
             G == {k \in 0..m : \E h : Rec(h, from + k)}
             up == CHOOSE h : Rec(h, to)
  <1>0. m \in Nat /\ from + m = to
    OBVIOUS
  <1>1. 0 \in G
    <2> DEFINE h == [i \in from..from |-> begun]
    <2>1. \A i \in from..from : h[i] = IF i = from THEN begun ELSE Perform(h[i - 1], Upgrades[i])
      OBVIOUS
    <2>2. Rec(h, from)
      <3> HIDE DEF begun
      <3> QED
        OBVIOUS
    <2>3. from + 0 = from /\ 0 \in 0..m
      BY <1>0
    <2> HIDE DEF Rec, h
    <2> QED
      BY <2>2, <2>3
  <1>2. ASSUME NEW k \in 1..m, k - 1 \in G PROVE k \in G
    <2> DEFINE n == from + k
    <2>0. n \in Nat /\ n - 1 = from + (k - 1) /\ from <= n - 1 /\ from < n
      OBVIOUS
    <2>1. PICK h : Rec(h, n - 1)
      <3> HIDE DEF Rec
      <3> QED
        BY <1>2, <2>0
    <2> HIDE DEF n, begun
    <2> DEFINE g == [i \in from..n |-> IF i = n THEN Perform(h[n - 1], Upgrades[n]) ELSE h[i]]
    <2>2. \A i \in from..n : g[i] = IF i = from THEN begun ELSE Perform(g[i - 1], Upgrades[i])
      <3> TAKE i \in from..n
      <3>1. CASE i = n
        <4>1. n - 1 \in from..n /\ n - 1 # n /\ g[n - 1] = h[n - 1] /\ i # from
          BY <2>0, <3>1
        <4> QED
          BY <3>1, <4>1
      <3>2. CASE i # n
        <4>1. i \in from..(n - 1) /\ g[i] = h[i] /\ (i # from => g[i - 1] = h[i - 1])
          BY <2>0, <3>2
        <4> QED
          BY <2>1, <4>1
      <3> QED
        BY <3>1, <3>2
    <2>3. Rec(g, n)
      <3> DEFINE f == [i \in from..n |-> IF i = from THEN begun ELSE Perform(g[i - 1], Upgrades[i])]
      <3>1. g = [i \in from..n |-> g[i]] /\ \A i \in from..n : g[i] = f[i]
        BY <2>2
      <3> HIDE DEF g
      <3> QED
        BY <3>1
    <2> HIDE DEF Rec, g
    <2> QED
      BY <2>3 DEF n
  <1>3. m \in G
    <2> HIDE DEF G, m
    <2>1. m \in 0..m
      BY <1>0
    <2> QED
      BY <1>0, <1>1, <1>2, <2>1, UpTo
  <1>4. Rec(up, to)
    <2>1. \E h : Rec(h, to)
      BY <1>0, <1>3
    <2> HIDE DEF Rec
    <2> QED
      BY <2>1
  <1>5. Execute(d, from, to) = up[to]
    BY DEF Execute
  <1> HIDE DEF up, begun
  <1>6. /\ up[from] = begun
        /\ \A n \in (from + 1)..to : up[n] = Perform(up[n - 1], Upgrades[n])
    BY <1>4
  <1> QED
    BY <1>5, <1>6 DEF begun

\* And so does a command that goes down.
LEMMA Descent ==
  ASSUME NEW d, NEW from \in 0..7, NEW to \in 0..7, to < from
  PROVE  \E h : /\ h[from] = Forget(d)
                /\ \A n \in to..(from - 1) : h[n] = Perform(h[n + 1], Downgrades[n + 1])
                /\ Execute(d, from, to) = h[to]
  <1> DEFINE m == from - to
             begun == Forget(d)
             Rec(h, n) == h = [i \in n..from |->
                                  IF i = from THEN begun ELSE Perform(h[i + 1], Downgrades[i + 1])]
             G == {k \in 0..m : \E h : Rec(h, from - k)}
             down == CHOOSE h : Rec(h, to)
  <1>0. m \in Nat /\ from - m = to
    OBVIOUS
  <1>1. 0 \in G
    <2> DEFINE h == [i \in from..from |-> begun]
    <2>2. Rec(h, from)
      <3> HIDE DEF begun
      <3> QED
        OBVIOUS
    <2>3. from - 0 = from /\ 0 \in 0..m
      BY <1>0
    <2> HIDE DEF Rec, h
    <2> QED
      BY <2>2, <2>3
  <1>2. ASSUME NEW k \in 1..m, k - 1 \in G PROVE k \in G
    <2> DEFINE n == from - k
    <2>0. n \in Nat /\ n + 1 = from - (k - 1) /\ n + 1 <= from /\ n < from
      OBVIOUS
    <2>1. PICK h : Rec(h, n + 1)
      <3> HIDE DEF Rec
      <3> QED
        BY <1>2, <2>0
    <2> HIDE DEF n, begun
    <2> DEFINE g == [i \in n..from |-> IF i = n THEN Perform(h[n + 1], Downgrades[n + 1]) ELSE h[i]]
    <2>2. \A i \in n..from : g[i] = IF i = from THEN begun ELSE Perform(g[i + 1], Downgrades[i + 1])
      <3> TAKE i \in n..from
      <3>1. CASE i = n
        <4>1. n + 1 \in n..from /\ n + 1 # n /\ g[n + 1] = h[n + 1] /\ i # from
          BY <2>0, <3>1
        <4> QED
          BY <3>1, <4>1
      <3>2. CASE i # n
        <4>1. i \in (n + 1)..from /\ g[i] = h[i] /\ (i # from => g[i + 1] = h[i + 1])
          BY <2>0, <3>2
        <4> QED
          BY <2>1, <4>1
      <3> QED
        BY <3>1, <3>2
    <2>3. Rec(g, n)
      <3> DEFINE f == [i \in n..from |-> IF i = from THEN begun ELSE Perform(g[i + 1], Downgrades[i + 1])]
      <3>1. g = [i \in n..from |-> g[i]] /\ \A i \in n..from : g[i] = f[i]
        BY <2>2
      <3> HIDE DEF g
      <3> QED
        BY <3>1
    <2> HIDE DEF Rec, g
    <2> QED
      BY <2>3 DEF n
  <1>3. m \in G
    <2> HIDE DEF G, m
    <2>1. m \in 0..m
      BY <1>0
    <2> QED
      BY <1>0, <1>1, <1>2, <2>1, UpTo
  <1>4. Rec(down, to)
    <2>1. \E h : Rec(h, to)
      BY <1>0, <1>3
    <2> HIDE DEF Rec
    <2> QED
      BY <2>1
  <1>5. Execute(d, from, to) = down[to]
    <2>1. ~(from <= to)
      OBVIOUS
    <2> QED
      BY <2>1 DEF Execute
  <1> HIDE DEF down, begun
  <1>6. /\ down[from] = begun
        /\ \A n \in to..(from - 1) : down[n] = Perform(down[n + 1], Downgrades[n + 1])
    BY <1>4
  <1> QED
    BY <1>5, <1>6 DEF begun

\* What a command from one revision to another makes of the rows R.
Carries(R, S, from, to) ==
    /\ \A t \in DOMAIN R : t \notin {o.name : o \in Operations(from, to)}
            => t \in DOMAIN S /\ S[t] = R[t]
    /\ from >= 1 /\ to >= 1 /\ "visit" \in R["analytics_events"]
            => "visit" \in S["analytics_events"]

\* The command has got to revision n.
Underway(d, R, from, to, n) ==
    \E K, S : /\ d = Db(TablesAt(n), TypesAt(n), K, S)
              /\ n = 0 => n = to \/ K = {}
              /\ RowsAt(S, n)
              /\ Carries(R, S, from, to)

\* What a revision does is among the operations of the command.
LEMMA OperationsOf ==
  ASSUME NEW from \in 0..7, NEW to \in 0..7
  PROVE  /\ \A n \in (from + 1)..to : Range(Upgrades[n]) \subseteq Operations(from, to)
         /\ \A n \in (to + 1)..from : Range(Downgrades[n]) \subseteq Operations(from, to)
  BY DEF Operations

\* A command begins at its first revision.
LEMMA Begins ==
  ASSUME NEW from \in 0..7, NEW to \in 0..7, NEW R, NEW M, RowsAt(R, from)
  PROVE  Underway(Forget(Db(TablesAt(from), TypesAt(from), M, R)), R, from, to, from)
  <1>1. ASSUME NEW w, w = Forget(Db(TablesAt(from), TypesAt(from), M, R))
        PROVE  w = Db(TablesAt(from), TypesAt(from), {}, R)
    BY <1>1 DEF Db, Forget
  <1>2. Carries(R, R, from, to)
    BY DEF Carries
  <1> QED
    BY <1>1, <1>2 DEF Underway

\* One revision further up.
LEMMA OneUp ==
  ASSUME NEW from \in 0..7, NEW to \in 0..7, NEW n \in (from + 1)..to, NEW R, NEW d,
         Underway(d, R, from, to, n - 1)
  PROVE  Underway(Perform(d, Upgrades[n]), R, from, to, n)
  <1>0. n \in 1..7 /\ n - 1 # to
    OBVIOUS
  <1>1. PICK K, S : /\ d = Db(TablesAt(n - 1), TypesAt(n - 1), K, S)
                    /\ n - 1 = 0 => K = {}
                    /\ RowsAt(S, n - 1)
                    /\ Carries(R, S, from, to)
    BY <1>0 DEF Underway
  <1>2. PICK L, Q : /\ Perform(d, Upgrades[n]) = Db(TablesAt(n), TypesAt(n), L, Q)
                    /\ RowsAt(Q, n)
                    /\ Follows(S, Q, Upgrades[n], n - 1, n)
    <2>1. Leads(n - 1, Upgrades[n], n)
      BY <1>0, Revisions
    <2> QED
      BY <1>1, <2>1 DEF Leads
  <1>3. \A t \in DOMAIN R : t \notin {o.name : o \in Operations(from, to)}
            => t \in DOMAIN Q /\ Q[t] = R[t]
    <2>1. ASSUME NEW t \in DOMAIN R, t \notin {o.name : o \in Operations(from, to)}
          PROVE  t \in DOMAIN Q /\ Q[t] = R[t]
      <3>1. t \notin {o.name : o \in Range(Upgrades[n])}
        BY <2>1, OperationsOf
      <3>2. t \in DOMAIN S /\ S[t] = R[t]
        BY <1>1, <2>1 DEF Carries
      <3> QED
        BY <1>2, <3>1, <3>2 DEF Follows
    <2> QED
      BY <2>1
  <1>4. from >= 1 /\ to >= 1 /\ "visit" \in R["analytics_events"]
            => "visit" \in Q["analytics_events"]
    <2>1. from >= 1 => n - 1 >= 1 /\ n >= 1
      OBVIOUS
    <2> QED
      BY <1>1, <1>2, <2>1 DEF Carries, Follows
  <1>5. n # 0
    BY <1>0
  <1> QED
    BY <1>2, <1>3, <1>4, <1>5 DEF Underway, Carries

\* One revision further down.
LEMMA OneDown ==
  ASSUME NEW from \in 0..7, NEW to \in 0..7, NEW n \in (to + 1)..from, NEW R, NEW d,
         Underway(d, R, from, to, n)
  PROVE  Underway(Perform(d, Downgrades[n]), R, from, to, n - 1)
  <1>0. n \in 1..7 /\ n # 0
    OBVIOUS
  <1>1. PICK K, S : /\ d = Db(TablesAt(n), TypesAt(n), K, S)
                    /\ RowsAt(S, n)
                    /\ Carries(R, S, from, to)
    BY DEF Underway
  <1>2. PICK L, Q : /\ Perform(d, Downgrades[n]) = Db(TablesAt(n - 1), TypesAt(n - 1), L, Q)
                    /\ RowsAt(Q, n - 1)
                    /\ Follows(S, Q, Downgrades[n], n, n - 1)
    <2>1. Leads(n, Downgrades[n], n - 1)
      BY <1>0, Revisions
    <2> QED
      BY <1>0, <1>1, <2>1 DEF Leads
  <1>3. \A t \in DOMAIN R : t \notin {o.name : o \in Operations(from, to)}
            => t \in DOMAIN Q /\ Q[t] = R[t]
    <2>1. ASSUME NEW t \in DOMAIN R, t \notin {o.name : o \in Operations(from, to)}
          PROVE  t \in DOMAIN Q /\ Q[t] = R[t]
      <3>1. t \notin {o.name : o \in Range(Downgrades[n])}
        BY <2>1, OperationsOf
      <3>2. t \in DOMAIN S /\ S[t] = R[t]
        BY <1>1, <2>1 DEF Carries
      <3> QED
        BY <1>2, <3>1, <3>2 DEF Follows
    <2> QED
      BY <2>1
  <1>4. from >= 1 /\ to >= 1 /\ "visit" \in R["analytics_events"]
            => "visit" \in Q["analytics_events"]
    <2>1. to >= 1 => n - 1 >= 1 /\ n >= 1
      OBVIOUS
    <2> QED
      BY <1>1, <1>2, <2>1 DEF Carries, Follows
  <1>5. n - 1 = 0 => n - 1 = to
    OBVIOUS
  <1> QED
    BY <1>2, <1>3, <1>4, <1>5 DEF Underway, Carries

\* Every command is carried out, whatever the tables hold.
LEMMA Executed ==
  ASSUME NEW from \in 0..7, NEW to \in 0..7, NEW R, NEW M, RowsAt(R, from)
  PROVE  \E K, S : /\ Execute(Db(TablesAt(from), TypesAt(from), M, R), from, to)
                        = Db(TablesAt(to), TypesAt(to), K, S)
                   /\ RowsAt(S, to)
                   /\ Carries(R, S, from, to)
  <1> DEFINE d == Db(TablesAt(from), TypesAt(from), M, R)
             m == IF from <= to THEN to - from ELSE from - to
  <1>1. Underway(Forget(d), R, from, to, from) /\ m \in Nat
    BY Begins
  <1> HIDE DEF d
  <1>2. CASE from <= to
    <2>1. PICK h : /\ h[from] = Forget(d)
                   /\ \A n \in (from + 1)..to : h[n] = Perform(h[n - 1], Upgrades[n])
                   /\ Execute(d, from, to) = h[to]
      BY <1>2, Ascent
    <2> DEFINE G == {k \in 0..m : Underway(h[from + k], R, from, to, from + k)}
    <2>2. 0 \in G
      <3>1. from + 0 = from /\ 0 \in 0..m
        BY <1>1
      <3> QED
        BY <1>1, <2>1, <3>1
    <2>3. ASSUME NEW k \in 1..m, k - 1 \in G PROVE k \in G
      <3> DEFINE n == from + k
      <3>1. n \in (from + 1)..to /\ n - 1 = from + (k - 1) /\ k \in 0..m
        BY <1>2
      <3>2. Underway(h[n - 1], R, from, to, n - 1)
        BY <2>3, <3>1
      <3> HIDE DEF n
      <3>3. Underway(h[n], R, from, to, n)
        BY <2>1, <3>1, <3>2, OneUp
      <3> QED
        BY <3>1, <3>3 DEF n
    <2>4. m \in 0..m /\ from + m = to
      BY <1>1, <1>2
    <2> HIDE DEF G, m
    <2>5. m \in G
      BY <1>1, <2>2, <2>3, <2>4, UpTo
    <2>6. Underway(h[to], R, from, to, to)
      BY <2>4, <2>5 DEF G
    <2> QED
      BY <2>1, <2>6 DEF Underway, d
  <1>3. CASE to < from
    <2>1. PICK h : /\ h[from] = Forget(d)
                   /\ \A n \in to..(from - 1) : h[n] = Perform(h[n + 1], Downgrades[n + 1])
                   /\ Execute(d, from, to) = h[to]
      BY <1>3, Descent
    <2> DEFINE G == {k \in 0..m : Underway(h[from - k], R, from, to, from - k)}
    <2>2. 0 \in G
      <3>1. from - 0 = from /\ 0 \in 0..m
        BY <1>1
      <3> QED
        BY <1>1, <2>1, <3>1
    <2>3. ASSUME NEW k \in 1..m, k - 1 \in G PROVE k \in G
      <3> DEFINE n == from - (k - 1)
      <3>1. n \in (to + 1)..from /\ n - 1 = from - k /\ k \in 0..m /\ n - 1 \in to..(from - 1)
            /\ (n - 1) + 1 = n
        BY <1>3
      <3>2. Underway(h[n], R, from, to, n)
        BY <2>3
      <3> HIDE DEF n
      <3>3. Underway(h[n - 1], R, from, to, n - 1)
        BY <2>1, <3>1, <3>2, OneDown
      <3> QED
        BY <3>1, <3>3
    <2>4. m \in 0..m /\ from - m = to
      BY <1>1, <1>3
    <2> HIDE DEF G, m
    <2>5. m \in G
      BY <1>1, <2>2, <2>3, <2>4, UpTo
    <2>6. Underway(h[to], R, from, to, to)
      BY <2>4, <2>5 DEF G
    <2> QED
      BY <2>1, <2>6 DEF Underway, d
  <1> QED
    BY <1>2, <1>3

-----------------------------------------------------------------------------
(* The invariant, and the steps that keep it.                              *)

\* At every revision the tables and the types are those of the revision.
SchemaInv ==
    /\ revision \in 0..7
    /\ db = Db(TablesAt(revision), TypesAt(revision), {}, db.rows)
    /\ RowsAt(db.rows, revision)
    /\ visited => revision >= 1 /\ "visit" \in db.rows["analytics_events"]

\* Entry i of the seed is in its table, or among the rows of the run w.
Planted(w, i) ==
    /\ Entries[i].table \in DOMAIN db.rows
    /\ Exists(Entries[i]) \/ Entries[i] \in added[w]

\* Where a run of the seed is.
Phases == {"idle", "select", "insert", "failed", "done"}

\* A run of the seed has planted what comes before the entry that it is at.
SeedInv ==
    /\ seeder \in [Seeder -> [phase : Phases, entry : 1..8]]
    /\ added \in [Seeder -> SUBSET Range(Entries)]
    /\ \A w \in Seeder :
          /\ seeder[w].phase = "insert" => seeder[w].entry <= 7
          /\ Seeding(w) => \A i \in 1..(seeder[w].entry - 1) : Planted(w, i)

\* The inductive invariant.
IInv == SchemaInv /\ SeedInv

\* The seven entries of the seed: none is an event, and each is what the
\* revisions want of a row.
LEMMA EntryFacts ==
  /\ Len(Entries) = 7 /\ DOMAIN Entries = 1..7
  /\ \A i \in 1..7 : Entries[i] \in Range(Entries)
  /\ \A e \in Range(Entries) :
        /\ e.table # "analytics_events"
        /\ e.table = "skills" => SeededRow(e) \in AllSkills
        /\ e.table = "projects" => /\ SeededRow(e).slug = e.key
                                   /\ SeededRow(e).status = SeededStatus(SeededRow(e).slug)
        /\ e.table # "projects" => SeededRow(e) = e.key
  <1>1. Len(Entries) = 7 /\ DOMAIN Entries = 1..7
    BY DEF Entries
  <1>2. \A i \in 1..7 : Entries[i] \in Range(Entries)
    BY <1>1 DEF Range
  <1>3. \A e \in Range(Entries) : \E i \in 1..7 : e = Entries[i]
    BY <1>1 DEF Range
  <1>4. \A i \in 1..7 : /\ Entries[i].table # "analytics_events"
                        /\ Entries[i].table = "skills" => Entries[i].key = "skill"
    BY DEF Entries, Row
  <1>5. \A e : e.table = "projects" =>
            /\ SeededRow(e).slug = e.key
            /\ SeededRow(e).status = SeededStatus(SeededRow(e).slug)
    BY DEF SeededRow, Project
  <1>6. \A e : e.table # "projects" => SeededRow(e) = e.key
    BY DEF SeededRow
  <1>7. \A e \in Range(Entries) : e.table = "skills" => SeededRow(e) \in AllSkills
    BY <1>3, <1>4, <1>6 DEF AllSkills
  <1> QED
    BY <1>1, <1>2, <1>3, <1>4, <1>5, <1>6, <1>7

\* The empty database is at revision 0.
LEMMA EmptyIsDb ==
  /\ RowsAt([t \in {} |-> {}], 0)
  /\ EmptyDb = Db(TablesAt(0), TypesAt(0), {}, [t \in {} |-> {}])
  <1>1. Names(0) = {} /\ TypeNames(0) = {}
    BY DEF Names, TypeNames
  <1>2. TablesAt(0) = [t \in {} |-> {}] /\ TypesAt(0) = [t \in {} |-> {}]
    BY <1>1 DEF TablesAt, TypesAt, Part, TypePart
  <1>3. RowsAt([t \in {} |-> {}], 0)
    BY <1>1 DEF RowsAt
  <1> QED
    BY <1>2, <1>3 DEF EmptyDb, Db

\* It holds in the beginning.
LEMMA InitSchemaInv == SchemaInit => IInv
  <1> SUFFICES ASSUME SchemaInit PROVE IInv
    OBVIOUS
  <1>1. db.rows = [t \in {} |-> {}] /\ revision = 0 /\ visited = FALSE /\ db = EmptyDb
    BY DEF SchemaInit, EmptyDb
  <1>2. SchemaInv
    BY <1>1, EmptyIsDb DEF SchemaInv
  <1>3. SeedInv
    BY DEF SchemaInit, SeedInv, Seeding, Phases
  <1> QED
    BY <1>2, <1>3 DEF IInv

\* A command, in a state that satisfies the invariant.
LEMMA Commands ==
  ASSUME SchemaInv, NEW to \in 0..7
  PROVE  \E K, S : /\ Execute(db, revision, to) = Db(TablesAt(to), TypesAt(to), K, S)
                   /\ RowsAt(S, to)
                   /\ Carries(db.rows, S, revision, to)
  <1> DEFINE R == db.rows
  <1>1. revision \in 0..7 /\ RowsAt(R, revision) /\ db = Db(TablesAt(revision), TypesAt(revision), {}, R)
    BY DEF SchemaInv
  <1> HIDE DEF R
  <1>2. \E K, S : /\ Execute(Db(TablesAt(revision), TypesAt(revision), {}, R), revision, to)
                       = Db(TablesAt(to), TypesAt(to), K, S)
                  /\ RowsAt(S, to)
                  /\ Carries(R, S, revision, to)
    BY <1>1, Executed
  <1> QED
    BY <1>1, <1>2 DEF R

\* A command keeps the invariant: it touches no table that a run of the seed
\* has read or written.
LEMMA MigrateKeeps ==
  ASSUME IInv, NEW to \in 0..Latest, Migrate(to)
  PROVE  IInv'
  <1>0. to \in 0..7
    BY Revisions DEF Latest
  <1>1. PICK K, S : /\ Execute(db, revision, to) = Db(TablesAt(to), TypesAt(to), K, S)
                    /\ RowsAt(S, to)
                    /\ Carries(db.rows, S, revision, to)
    BY <1>0, Commands DEF IInv
  <1>2. db' = Db(TablesAt(to), TypesAt(to), {}, S) /\ revision' = to
    <2>1. ASSUME NEW e, e = Forget(Db(TablesAt(to), TypesAt(to), K, S))
          PROVE  e = Db(TablesAt(to), TypesAt(to), {}, S)
      BY <2>1 DEF Forget, Db
    <2>2. db' = Forget(Execute(db, revision, to)) /\ revision' = to
      BY DEF Migrate
    <2> QED
      BY <1>1, <2>1, <2>2
  <1>3. db'.rows = S
    BY <1>2 DEF Db
  <1>4. SchemaInv'
    <2>1. visited' => to >= 1 /\ "visit" \in S["analytics_events"]
      <3>1. visited' => visited /\ to > 0
        BY DEF Migrate
      <3> QED
        BY <1>0, <1>1, <3>1 DEF IInv, SchemaInv, Carries
    <2> QED
      BY <1>0, <1>1, <1>2, <1>3, <2>1 DEF SchemaInv
  <1>5. SeedInv'
    <2>1. UNCHANGED <<seeder, added>>
      BY DEF Migrate
    <2>2. ASSUME NEW w \in Seeder, Seeding(w), NEW i \in 1..(seeder[w].entry - 1)
          PROVE  Planted(w, i)'
      <3>1. seeder[w].entry \in 1..8 /\ Planted(w, i)
        BY <2>2 DEF IInv, SeedInv
      <3>2. Entries[i].table \in TouchedBy(w)
        BY <2>2, <3>1 DEF TouchedBy
      <3>3. Entries[i].table \notin {o.name : o \in Operations(revision, to)}
        BY <3>2 DEF Migrate, AccessExclusive
      <3>4. Entries[i].table \in DOMAIN S /\ S[Entries[i].table] = db.rows[Entries[i].table]
        BY <1>1, <3>1, <3>3 DEF Carries, Planted
      <3>5. Exists(Entries[i]) => Exists(Entries[i])'
        BY <1>3, <3>4 DEF Exists
      <3> QED
        BY <1>3, <2>1, <3>1, <3>4, <3>5 DEF Planted
    <2> QED
      BY <2>1, <2>2 DEF IInv, SeedInv, Seeding
  <1> QED
    BY <1>4, <1>5 DEF IInv

\* While the schema rests and the rows only grow, what was planted stays so.
LEMMA PlantedStays ==
  ASSUME NEW w \in Seeder, NEW i \in 1..7, Planted(w, i), DOMAIN db.rows \subseteq DOMAIN db'.rows,
         \A t \in DOMAIN db.rows : db.rows[t] \subseteq db'.rows[t],
         added[w] \subseteq added'[w]
  PROVE  Planted(w, i)'
  <1>1. Entries[i].table \in DOMAIN db.rows /\ Entries[i].table \in DOMAIN db'.rows
        /\ db.rows[Entries[i].table] \subseteq db'.rows[Entries[i].table]
    BY DEF Planted
  <1>2. Exists(Entries[i]) => Exists(Entries[i])'
    BY <1>1 DEF Exists
  <1> QED
    BY <1>1, <1>2 DEF Planted

\* A statement is carried out only on a table that exists.
LEMMA WorksInDomain ==
  ASSUME SchemaInv, NEW t, Works(t)
  PROVE  t \in DOMAIN db.rows /\ t \in Names(revision)
  <1>1. DOMAIN db.tables = Names(revision) /\ DOMAIN db.rows = Names(revision)
    BY DEF SchemaInv, RowsAt, Db, TablesAt, Part
  <1> QED
    BY <1>1 DEF Works

\* A run of the seed starts with nothing planted.
LEMMA SeedStartKeeps ==
  ASSUME IInv, NEW w \in Seeder, SeedStart(w)
  PROVE  IInv'
  <1>1. SchemaInv'
    BY DEF IInv, SchemaInv, SeedStart
  <1>2. /\ seeder' = [seeder EXCEPT ![w] = [phase |-> "select", entry |-> 1]]
        /\ db' = db /\ added' = added
        /\ seeder \in [Seeder -> [phase : Phases, entry : 1..8]]
        /\ added \in [Seeder -> SUBSET Range(Entries)]
    BY DEF SeedStart, IInv, SeedInv
  <1>3. seeder' \in [Seeder -> [phase : Phases, entry : 1..8]]
    BY <1>2 DEF Phases
  <1>4. ASSUME NEW v \in Seeder
        PROVE  /\ seeder'[v].phase = "insert" => seeder'[v].entry <= 7
               /\ Seeding(v)' => \A i \in 1..(seeder'[v].entry - 1) : Planted(v, i)'
    <2>1. CASE v = w
      <3>1. seeder'[v].phase = "select" /\ seeder'[v].entry = 1
        BY <1>2, <2>1
      <3> QED
        BY <3>1
    <2>2. CASE v # w
      <3>1. seeder'[v] = seeder[v]
        BY <1>2, <2>2
      <3>2. \A i : Planted(v, i)' = Planted(v, i)
        BY <1>2 DEF Planted, Exists
      <3> QED
        BY <3>1, <3>2 DEF IInv, SeedInv, Seeding
    <2> QED
      BY <2>1, <2>2
  <1>5. SeedInv'
    BY <1>2, <1>3, <1>4 DEF SeedInv
  <1> QED
    BY <1>1, <1>5 DEF IInv

\* A run that fails takes its rows with it.
LEMMA SeedFailsKeeps ==
  ASSUME IInv, NEW w \in Seeder, SeedFails(w)
  PROVE  IInv'
  <1>1. SchemaInv'
    BY DEF IInv, SchemaInv, SeedFails
  <1>2. /\ seeder' = [seeder EXCEPT ![w] = [phase |-> "failed", entry |-> 1]]
        /\ db' = db /\ added' = [added EXCEPT ![w] = {}]
        /\ seeder \in [Seeder -> [phase : Phases, entry : 1..8]]
        /\ added \in [Seeder -> SUBSET Range(Entries)]
    BY DEF SeedFails, IInv, SeedInv
  <1>3. /\ seeder' \in [Seeder -> [phase : Phases, entry : 1..8]]
        /\ added' \in [Seeder -> SUBSET Range(Entries)]
    BY <1>2 DEF Phases
  <1>4. ASSUME NEW v \in Seeder
        PROVE  /\ seeder'[v].phase = "insert" => seeder'[v].entry <= 7
               /\ Seeding(v)' => \A i \in 1..(seeder'[v].entry - 1) : Planted(v, i)'
    <2>1. CASE v = w
      <3>1. seeder'[v].phase = "failed"
        BY <1>2, <2>1
      <3> QED
        BY <3>1 DEF Seeding
    <2>2. CASE v # w
      <3>1. seeder'[v] = seeder[v] /\ added'[v] = added[v]
        BY <1>2, <2>2
      <3>2. \A i : Planted(v, i)' = Planted(v, i)
        BY <1>2, <3>1 DEF Planted, Exists
      <3> QED
        BY <3>1, <3>2 DEF IInv, SeedInv, Seeding
    <2> QED
      BY <2>1, <2>2
  <1>5. SeedInv'
    BY <1>3, <1>4 DEF SeedInv
  <1> QED
    BY <1>1, <1>5 DEF IInv

\* An entry is passed once it is planted.
LEMMA Advances ==
  ASSUME IInv, NEW w \in Seeder, Seeding(w), NEW n \in 1..7, n = seeder[w].entry,
         seeder' = Advance(w), db' = db, Planted(w, n)', added' \in [Seeder -> SUBSET Range(Entries)],
         \A v \in Seeder : added[v] \subseteq added'[v], \A v \in Seeder \ {w} : added'[v] = added[v]
  PROVE  SeedInv'
  <1>1. seeder \in [Seeder -> [phase : Phases, entry : 1..8]]
    BY DEF IInv, SeedInv
  <1>3. /\ seeder' \in [Seeder -> [phase : Phases, entry : 1..8]]
        /\ seeder'[w].phase = "select" /\ seeder'[w].entry = n + 1
        /\ \A v \in Seeder \ {w} : seeder'[v] = seeder[v]
    BY <1>1 DEF Advance, Phases
  <1>4. ASSUME NEW v \in Seeder
        PROVE  /\ seeder'[v].phase = "insert" => seeder'[v].entry <= 7
               /\ Seeding(v)' => \A i \in 1..(seeder'[v].entry - 1) : Planted(v, i)'
    <2>1. CASE v = w
      <3>1. ASSUME NEW i \in 1..n
            PROVE  Planted(w, i)'
        <4>1. CASE i = n
          BY <4>1
        <4>2. CASE i # n
          <5>1. i \in 1..(seeder[w].entry - 1) /\ i \in 1..7
            BY <4>2
          <5>2. Planted(w, i)
            BY <5>1 DEF IInv, SeedInv
          <5> QED
            BY <5>1, <5>2, PlantedStays
        <4> QED
          BY <4>1, <4>2
      <3>2. seeder'[w].entry - 1 = n
        BY <1>3
      <3> QED
        BY <1>3, <2>1, <3>1, <3>2
    <2>2. CASE v # w
      <3>1. seeder'[v] = seeder[v] /\ added'[v] = added[v]
        BY <1>3, <2>2
      <3>2. \A i : Planted(v, i)' = Planted(v, i)
        BY <3>1 DEF Planted, Exists
      <3> QED
        BY <3>1, <3>2 DEF IInv, SeedInv, Seeding
    <2> QED
      BY <2>1, <2>2
  <1> QED
    BY <1>3, <1>4 DEF SeedInv

\* A run finds the entry in the table, or goes on to insert it.
LEMMA SeedSelectKeeps ==
  ASSUME IInv, NEW w \in Seeder, SeedSelect(w)
  PROVE  IInv'
  <1>0. PICK n \in 1..7 : n = seeder[w].entry
    BY EntryFacts DEF SeedSelect, SeedInsert, IInv, SeedInv
  <1> DEFINE e == Entries[n]
  <1>1. SchemaInv'
    BY DEF IInv, SchemaInv, SeedSelect
  <1>2. /\ seeder[w].phase = "select" /\ Seeding(w)
        /\ Works(e.table) /\ db' = db /\ added' = added
        /\ seeder \in [Seeder -> [phase : Phases, entry : 1..8]]
        /\ added \in [Seeder -> SUBSET Range(Entries)]
    BY <1>0 DEF SeedSelect, IInv, SeedInv, Seeding
  <1>3. e.table \in DOMAIN db.rows
    BY <1>2, WorksInDomain DEF IInv
  <1>4. CASE Exists(e)
    <2>1. seeder' = Advance(w)
      BY <1>0, <1>4 DEF SeedSelect
    <2>2. Planted(w, n)'
      BY <1>2, <1>3, <1>4 DEF Planted, Exists
    <2>3. SeedInv'
      BY <1>0, <1>2, <2>1, <2>2, Advances
    <2> QED
      BY <1>1, <2>3 DEF IInv
  <1>5. CASE ~Exists(e)
    <2>1. seeder' = [seeder EXCEPT ![w].phase = "insert"]
      BY <1>0, <1>5 DEF SeedSelect
    <2>2. /\ seeder' \in [Seeder -> [phase : Phases, entry : 1..8]]
          /\ seeder'[w].phase = "insert" /\ seeder'[w].entry = seeder[w].entry
          /\ \A v \in Seeder \ {w} : seeder'[v] = seeder[v]
      BY <1>2, <2>1 DEF Phases
    <2>3. \A v, i : Planted(v, i)' = Planted(v, i)
      BY <1>2 DEF Planted, Exists
    <2>4. ASSUME NEW v \in Seeder
          PROVE  /\ seeder'[v].phase = "insert" => seeder'[v].entry <= 7
                 /\ Seeding(v)' => \A i \in 1..(seeder'[v].entry - 1) : Planted(v, i)'
      <3>1. CASE v = w
        BY <1>0, <1>2, <2>2, <2>3, <3>1 DEF IInv, SeedInv
      <3>2. CASE v # w
        BY <2>2, <2>3, <3>2 DEF IInv, SeedInv, Seeding
      <3> QED
        BY <3>1, <3>2
    <2>5. SeedInv'
      BY <1>2, <2>2, <2>4 DEF SeedInv
    <2> QED
      BY <1>1, <2>5 DEF IInv
  <1> QED
    BY <1>4, <1>5

\* A run inserts the entry.
LEMMA SeedInsertKeeps ==
  ASSUME IInv, NEW w \in Seeder, SeedInsert(w)
  PROVE  IInv'
  <1>0. PICK n \in 1..7 : n = seeder[w].entry
    BY EntryFacts DEF SeedSelect, SeedInsert, IInv, SeedInv
  <1> DEFINE e == Entries[n]
  <1>1. SchemaInv'
    BY DEF IInv, SchemaInv, SeedInsert
  <1>2. /\ seeder[w].phase = "insert" /\ Seeding(w)
        /\ Works(e.table) /\ db' = db
        /\ added' = [added EXCEPT ![w] = @ \cup {e}]
        /\ added \in [Seeder -> SUBSET Range(Entries)]
        /\ seeder' = Advance(w)
    BY <1>0 DEF SeedInsert, IInv, SeedInv, Seeding
  <1>3. e.table \in DOMAIN db.rows /\ e \in Range(Entries)
    BY <1>2, WorksInDomain, EntryFacts DEF IInv
  <1>4. /\ added' \in [Seeder -> SUBSET Range(Entries)]
        /\ \A v \in Seeder : added[v] \subseteq added'[v]
        /\ \A v \in Seeder \ {w} : added'[v] = added[v]
        /\ e \in added'[w]
    BY <1>2, <1>3
  <1>5. Planted(w, n)'
    BY <1>2, <1>3, <1>4 DEF Planted
  <1>6. SeedInv'
    BY <1>0, <1>2, <1>4, <1>5, Advances
  <1> QED
    BY <1>1, <1>6 DEF IInv

\* The rows that a commit or an event leaves.
Planting(R, entries) ==
    [t \in DOMAIN R |-> R[t] \cup {SeededRow(e) : e \in {e \in entries : e.table = t}}]

\* The database after a commit of the seed.
LEMMA WithRowsDb ==
  ASSUME NEW T, NEW Y, NEW M, NEW R, NEW entries
  PROVE  WithRows(Db(T, Y, M, R), entries) = Db(T, Y, M, Planting(R, entries))
  <1>1. ASSUME NEW Q, NEW w, w = [Db(T, Y, M, R) EXCEPT !.rows = Q]
        PROVE  w = Db(T, Y, M, Q)
    BY <1>1 DEF Db
  <1>2. WithRows(Db(T, Y, M, R), entries) = [Db(T, Y, M, R) EXCEPT !.rows = Planting(R, entries)]
    BY DEF WithRows, Db, Planting
  <1> QED
    BY <1>1, <1>2

\* The database after an event.
LEMMA WithEventDb ==
  ASSUME NEW T, NEW Y, NEW M, NEW R, NEW event
  PROVE  WithEvent(Db(T, Y, M, R), event)
            = Db(T, Y, M, [R EXCEPT !["analytics_events"] = @ \cup {event}])
  <1>1. ASSUME NEW w, w = WithEvent(Db(T, Y, M, R), event)
        PROVE  w = Db(T, Y, M, [R EXCEPT !["analytics_events"] = @ \cup {event}])
    BY <1>1 DEF Db, WithEvent
  <1> QED
    BY <1>1

\* Rows of the seed are as the revision wants them.
LEMMA PlantingFits ==
  ASSUME NEW n \in 0..7, NEW R, RowsAt(R, n), NEW entries, entries \subseteq Range(Entries)
  PROVE  RowsAt(Planting(R, entries), n)
  <1> DEFINE Q == Planting(R, entries)
  <1>1. DOMAIN Q = Names(n) /\ DOMAIN R = Names(n)
    BY DEF RowsAt, Planting
  <1>2. n >= 1 => Q["skills"] \subseteq AllSkills
    <2>1. n >= 1 => "skills" \in Names(n) /\ R["skills"] \subseteq AllSkills
      BY DEF Names, InitialNames, RowsAt
    <2>2. {SeededRow(e) : e \in {e \in entries : e.table = "skills"}} \subseteq AllSkills
      BY EntryFacts
    <2> QED
      BY <1>1, <2>1, <2>2 DEF Planting
  <1>3. n >= 5 => \A p \in Q["projects"] : p.status = SeededStatus(p.slug)
    <2>1. n >= 5 => /\ "projects" \in Names(n)
                    /\ \A p \in R["projects"] : p.status = SeededStatus(p.slug)
      BY DEF Names, InitialNames, RowsAt
    <2>2. \A p \in {SeededRow(e) : e \in {e \in entries : e.table = "projects"}} :
             p.status = SeededStatus(p.slug)
      BY EntryFacts
    <2> QED
      BY <1>1, <2>1, <2>2 DEF Planting
  <1>4. n = 7 => "demo" \notin Q["analytics_events"]
    <2>1. n = 7 => "analytics_events" \in Names(n) /\ "demo" \notin R["analytics_events"]
      BY DEF Names, InitialNames, RowsAt
    <2>2. {SeededRow(e) : e \in {e \in entries : e.table = "analytics_events"}} = {}
      BY EntryFacts
    <2> QED
      BY <1>1, <2>1, <2>2 DEF Planting
  <1> HIDE DEF Q
  <1> QED
    BY <1>1, <1>2, <1>3, <1>4 DEF RowsAt, Q

\* What a commit leaves of the rows and of what was planted.
LEMMA Committed ==
  ASSUME IInv, NEW w \in Seeder, SeedCommit(w)
  PROVE  /\ db' = Db(TablesAt(revision), TypesAt(revision), {}, Planting(db.rows, added[w]))
         /\ db'.rows = Planting(db.rows, added[w])
         /\ DOMAIN db'.rows = DOMAIN db.rows
         /\ \A t \in DOMAIN db.rows : db.rows[t] \subseteq db'.rows[t]
         /\ \A e \in added[w] : e.table \in DOMAIN db.rows => Exists(e)'
  <1> DEFINE R == db.rows
             Q == Planting(R, added[w])
  <1>1. db = Db(TablesAt(revision), TypesAt(revision), {}, R) /\ db' = WithRows(db, added[w])
    BY DEF IInv, SchemaInv, SeedCommit
  <1> HIDE DEF R
  <1>2. db' = Db(TablesAt(revision), TypesAt(revision), {}, Q)
    <2>1. WithRows(Db(TablesAt(revision), TypesAt(revision), {}, R), added[w])
            = Db(TablesAt(revision), TypesAt(revision), {}, Q)
      BY WithRowsDb
    <2> QED
      BY <1>1, <2>1
  <1>3. db'.rows = Q
    BY <1>2 DEF Db
  <1>4. DOMAIN Q = DOMAIN R /\ \A t \in DOMAIN R : R[t] \subseteq Q[t]
    BY DEF Planting
  <1>5. ASSUME NEW e \in added[w], e.table \in DOMAIN R
        PROVE  Exists(e)'
    <2>1. SeededRow(e) \in Q[e.table]
      BY <1>5 DEF Planting
    <2>2. e \in Range(Entries)
      BY DEF IInv, SeedInv
    <2>3. e.table = "projects" => SeededRow(e).slug = e.key
      BY <2>2, EntryFacts
    <2>4. e.table # "projects" => SeededRow(e) = e.key
      BY <2>2, EntryFacts
    <2> HIDE DEF Q
    <2> QED
      BY <1>3, <2>1, <2>3, <2>4 DEF Exists
  <1> QED
    BY <1>2, <1>3, <1>4, <1>5 DEF R

\* A commit plants the rows of the run, and takes nothing from the others.
LEMMA SeedCommitKeeps ==
  ASSUME IInv, NEW w \in Seeder, SeedCommit(w)
  PROVE  IInv'
  <1>1. SchemaInv'
    <2>1. /\ revision \in 0..7 /\ RowsAt(db.rows, revision)
          /\ revision' = revision /\ visited' = visited
          /\ visited => revision >= 1 /\ "visit" \in db.rows["analytics_events"]
          /\ added[w] \subseteq Range(Entries)
      BY DEF IInv, SchemaInv, SeedInv, SeedCommit
    <2>2. RowsAt(Planting(db.rows, added[w]), revision)
      BY <2>1, PlantingFits
    <2>3. visited => "visit" \in db'.rows["analytics_events"]
      <3>1. visited => "analytics_events" \in DOMAIN db.rows
        BY <2>1 DEF RowsAt, Names, InitialNames
      <3> QED
        BY <2>1, <3>1, Committed
    <2>4. db' = Db(TablesAt(revision), TypesAt(revision), {}, db'.rows)
          /\ RowsAt(db'.rows, revision)
      BY <2>2, Committed
    <2> QED
      BY <2>1, <2>3, <2>4 DEF SchemaInv
  <1>2. /\ seeder' = [seeder EXCEPT ![w] = [phase |-> "done", entry |-> 1]]
        /\ added' = [added EXCEPT ![w] = {}]
        /\ seeder \in [Seeder -> [phase : Phases, entry : 1..8]]
        /\ added \in [Seeder -> SUBSET Range(Entries)]
    BY DEF SeedCommit, IInv, SeedInv
  <1>3. /\ seeder' \in [Seeder -> [phase : Phases, entry : 1..8]]
        /\ added' \in [Seeder -> SUBSET Range(Entries)]
    BY <1>2 DEF Phases
  <1>4. ASSUME NEW v \in Seeder
        PROVE  /\ seeder'[v].phase = "insert" => seeder'[v].entry <= 7
               /\ Seeding(v)' => \A i \in 1..(seeder'[v].entry - 1) : Planted(v, i)'
    <2>1. CASE v = w
      <3>1. seeder'[v].phase = "done"
        BY <1>2, <2>1
      <3> QED
        BY <3>1 DEF Seeding
    <2>2. CASE v # w
      <3>1. seeder'[v] = seeder[v] /\ added'[v] = added[v] /\ seeder[v].entry \in 1..8
        BY <1>2, <2>2
      <3>2. ASSUME Seeding(v), NEW i \in 1..(seeder[v].entry - 1)
            PROVE  Planted(v, i)'
        <4>1. i \in 1..7
          BY <3>1, <3>2
        <4>2. Planted(v, i)
          BY <3>2 DEF IInv, SeedInv
        <4> QED
          BY <3>1, <4>1, <4>2, Committed, PlantedStays
      <3> QED
        BY <3>1, <3>2 DEF IInv, SeedInv, Seeding
    <2> QED
      BY <2>1, <2>2
  <1>5. SeedInv'
    BY <1>3, <1>4 DEF SeedInv
  <1> QED
    BY <1>1, <1>5 DEF IInv

\* An event is recorded where its table is.
LEMMA Recorded ==
  ASSUME IInv, NEW event, "analytics_events" \in DOMAIN db.rows, db' = WithEvent(db, event),
         event = "demo" => revision # 7, revision' = revision, UNCHANGED <<seeder, added>>,
         visited' => visited \/ event = "visit"
  PROVE  IInv'
  <1> DEFINE R == db.rows
             Q == [R EXCEPT !["analytics_events"] = @ \cup {event}]
  <1>1. /\ db = Db(TablesAt(revision), TypesAt(revision), {}, R) /\ RowsAt(R, revision)
        /\ revision \in 0..7 /\ "analytics_events" \in DOMAIN R
        /\ visited => "visit" \in R["analytics_events"]
    BY DEF IInv, SchemaInv
  <1> HIDE DEF R
  <1>2. db' = Db(TablesAt(revision), TypesAt(revision), {}, Q)
    <2>1. WithEvent(Db(TablesAt(revision), TypesAt(revision), {}, R), event)
            = Db(TablesAt(revision), TypesAt(revision), {}, Q)
      BY WithEventDb
    <2> QED
      BY <1>1, <2>1
  <1>3. db'.rows = Q
    BY <1>2 DEF Db
  <1>4. /\ DOMAIN Q = DOMAIN R /\ \A t \in DOMAIN R : R[t] \subseteq Q[t]
        /\ \A t \in DOMAIN R \ {"analytics_events"} : Q[t] = R[t]
        /\ Q["analytics_events"] = R["analytics_events"] \cup {event}
    BY <1>1
  <1> HIDE DEF Q
  <1>5. RowsAt(Q, revision)
    BY <1>1, <1>4 DEF RowsAt, Names, InitialNames
  <1>6. revision >= 1
    BY <1>1 DEF RowsAt, Names, InitialNames
  <1>7. SchemaInv'
    BY <1>1, <1>2, <1>3, <1>4, <1>5, <1>6 DEF SchemaInv
  <1>8. ASSUME NEW v \in Seeder, Seeding(v), NEW i \in 1..(seeder[v].entry - 1)
        PROVE  Planted(v, i)'
    <2>1. Planted(v, i) /\ i \in 1..7
      BY <1>8 DEF IInv, SeedInv
    <2>2. DOMAIN db.rows \subseteq DOMAIN db'.rows /\ \A t \in DOMAIN db.rows : db.rows[t] \subseteq db'.rows[t]
      BY <1>3, <1>4 DEF R
    <2> QED
      BY <2>1, <2>2, PlantedStays
  <1>9. SeedInv'
    BY <1>8 DEF IInv, SeedInv, Seeding
  <1> QED
    BY <1>7, <1>9 DEF IInv

\* Every step keeps the invariant.
LEMMA SchemaStep == IInv /\ [SchemaNext]_schemaVars => IInv'
  <1> SUFFICES ASSUME IInv, [SchemaNext]_schemaVars PROVE IInv'
    OBVIOUS
  <1>1. CASE \E to \in 0..Latest : Migrate(to)
    BY <1>1, MigrateKeeps
  <1>2. CASE \E w \in Seeder : SeedStart(w)
    BY <1>2, SeedStartKeeps
  <1>3. CASE \E w \in Seeder : SeedSelect(w)
    BY <1>3, SeedSelectKeeps
  <1>4. CASE \E w \in Seeder : SeedInsert(w)
    BY <1>4, SeedInsertKeeps
  <1>5. CASE \E w \in Seeder : SeedCommit(w)
    BY <1>5, SeedCommitKeeps
  <1>6. CASE \E w \in Seeder : SeedFails(w)
    BY <1>6, SeedFailsKeeps
  <1>7. CASE RecordVisit
    <2>1. "analytics_events" \in DOMAIN db.rows
      BY <1>7, WorksInDomain DEF RecordVisit, IInv
    <2> QED
      BY <1>7, <2>1, Recorded DEF RecordVisit
  <1>8. CASE PlantDemo
    <2>1. "analytics_events" \in DOMAIN db.rows /\ revision # 7
      BY <1>8, Revisions DEF PlantDemo, IInv, SchemaInv, RowsAt, Names, InitialNames, Latest
    <2> QED
      BY <1>8, <2>1, Recorded DEF PlantDemo
  <1>9. CASE UNCHANGED schemaVars
    BY <1>9 DEF schemaVars, IInv, SchemaInv, SeedInv, Seeding, Planted, Exists
  <1> QED
    BY <1>1, <1>2, <1>3, <1>4, <1>5, <1>6, <1>7, <1>8, <1>9 DEF SchemaNext

-----------------------------------------------------------------------------
(* The theorems.                                                           *)

\* The inductive invariant holds throughout, for any number of runs of the
\* seed: the schema is that of its revision, the rows are as that revision
\* wants them, and the runs lose nothing that they have passed.
THEOREM SchemaInvariance == SchemaSpec => []IInv
  BY InitSchemaInv, SchemaStep, PTL DEF SchemaSpec

\* However the operator went up and down, the schema is the one that going up
\* to its revision on an empty database gives, and every command, to any
\* revision, would be carried out.
THEOREM SchemaOfItsRevision == SchemaSpec => []SchemaIsItsRevision
  <1>1. IInv => SchemaIsItsRevision
    <2> SUFFICES ASSUME IInv PROVE SchemaIsItsRevision
      OBVIOUS
    <2>1. /\ revision \in 0..7
          /\ db = Db(TablesAt(revision), TypesAt(revision), {}, db.rows)
      BY DEF IInv, SchemaInv
    <2>2. \A to \in 0..Latest : Execute(db, revision, to).ok
      <3>1. ASSUME NEW to \in 0..Latest
            PROVE  Execute(db, revision, to).ok
        <4>1. to \in 0..7
          BY Revisions DEF Latest
        <4>2. PICK K, S : Execute(db, revision, to) = Db(TablesAt(to), TypesAt(to), K, S)
          BY <4>1, Commands DEF IInv
        <4> QED
          BY <4>2 DEF Db
      <3> QED
        BY <3>1
    <2>3. PICK K, S : Execute(EmptyDb, 0, revision) = Db(TablesAt(revision), TypesAt(revision), K, S)
      <3> DEFINE R == [t \in {} |-> {}]
      <3>1. 0 \in 0..7 /\ RowsAt(R, 0)
        BY EmptyIsDb
      <3>a. EmptyDb = Db(TablesAt(0), TypesAt(0), {}, R)
        BY EmptyIsDb
      <3> HIDE DEF R
      <3>2. \E K, S : Execute(Db(TablesAt(0), TypesAt(0), {}, R), 0, revision)
                        = Db(TablesAt(revision), TypesAt(revision), K, S)
        <4>1. \E K, S : /\ Execute(Db(TablesAt(0), TypesAt(0), {}, R), 0, revision)
                              = Db(TablesAt(revision), TypesAt(revision), K, S)
                        /\ RowsAt(S, revision)
                        /\ Carries(R, S, 0, revision)
          BY <2>1, <3>1, Executed
        <4> QED
          BY <4>1
      <3> QED
        BY <3>2, <3>a
    <2>4. /\ Execute(EmptyDb, 0, revision).tables = TablesAt(revision)
          /\ Execute(EmptyDb, 0, revision).types = TypesAt(revision)
      BY <2>3 DEF Db
    <2>5. db.tables = TablesAt(revision) /\ db.types = TypesAt(revision)
      BY <2>1 DEF Db
    <2> QED
      BY <2>2, <2>4, <2>5 DEF SchemaIsItsRevision
  <1> QED
    BY <1>1, SchemaInvariance, PTL

\* At the latest revision the tables and the enum types are those that the
\* models of the application describe.
THEOREM LatestIsTheModels == SchemaSpec => []LatestMatchesModels
  <1>1. TablesAt(7) = Models
    <2>1. \A t \in Names(7) : TableAt(t, 7) = Models[t]
      BY DEF TableAt
    <2>2. Models = [t \in DOMAIN Models |-> Models[t]]
      BY DEF Models
    <2> QED
      BY <2>1, <2>2, ModelNames DEF TablesAt, Part
  <1>2. TypesAt(7) = ModelLabels
    BY DEF TypesAt, TypePart, TypeNames, TypeAt, ModelLabels
  <1>3. IInv => LatestMatchesModels
    <2> SUFFICES ASSUME IInv, revision = 7 PROVE db.tables = Models /\ db.types = ModelLabels
      BY Revisions DEF LatestMatchesModels, Latest
    <2>1. db = Db(TablesAt(7), TypesAt(7), {}, db.rows)
      BY DEF IInv, SchemaInv
    <2> QED
      BY <1>1, <1>2, <2>1 DEF Db
  <1> QED
    BY <1>3, SchemaInvariance, PTL

\* No migration loses a recorded visit while its table is there, and at the
\* latest revision no seeded event is among them.
THEOREM VisitsAreKept == SchemaSpec => []EventsAreReal
  <1>1. IInv => EventsAreReal
    BY Revisions DEF IInv, SchemaInv, RowsAt, EventsAreReal, Latest
  <1> QED
    BY <1>1, SchemaInvariance, PTL

\* A project has the status that the seed gives it, whether the seed or the
\* migration set it.
THEOREM StatusesAreSeeded == SchemaSpec => []StatusAsSeeded
  <1>1. IInv => StatusAsSeeded
    <2> SUFFICES ASSUME IInv, "projects" \in DOMAIN db.tables,
                        "status" \in db.tables["projects"].columns
                 PROVE  \A p \in db.rows["projects"] : p.status = SeededStatus(p.slug)
      BY DEF StatusAsSeeded
    <2>1. revision \in 0..7 /\ db.tables = TablesAt(revision) /\ RowsAt(db.rows, revision)
      BY DEF IInv, SchemaInv, Db
    <2>2. CASE revision >= 5
      BY <2>1, <2>2 DEF RowsAt
    <2>3. CASE revision < 5
      <3>1. TablesAt(revision)["projects"] = TableAt("projects", revision)
        BY <2>1 DEF TablesAt, Part
      <3>2. TableAt("projects", revision)
              = Table(ProjectColumns \ {"status"}, [category |-> "project_category"], {})
        BY <2>1, <2>3, ProjectsAt
      <3>3. "status" \notin db.tables["projects"].columns
        BY <2>1, <3>1, <3>2 DEF Table
      <3> QED
        BY <3>3
    <2> QED
      BY <2>1, <2>2, <2>3
  <1> QED
    BY <1>1, SchemaInvariance, PTL

\* A run of the seed that ends well leaves every entry in its table, also
\* next to another run and to migrations; one that fails leaves no row.
THEOREM SeedLeavesNothingOut == SchemaSpec => SeedIsComplete
  <1>1. ASSUME IInv, [SchemaNext]_schemaVars, NEW w \in Seeder
        PROVE  /\ seeder'[w].phase = "done" /\ seeder[w].phase # "done"
                    => \A i \in DOMAIN Entries : Exists(Entries[i])'
               /\ seeder'[w].phase = "failed" /\ seeder[w].phase # "failed"
                    => db' = db
    <2>0. seeder \in [Seeder -> [phase : Phases, entry : 1..8]]
      BY <1>1 DEF IInv, SeedInv
    <2>1. CASE UNCHANGED seeder
      BY <2>1
    <2>2. ASSUME NEW v \in Seeder, SeedStart(v) \/ SeedSelect(v) \/ SeedInsert(v)
          PROVE  /\ seeder'[w].phase \in {"done", "failed"} => seeder'[w].phase = seeder[w].phase
      <3>1. v # w => seeder'[w] = seeder[w]
        BY <2>0, <2>2 DEF SeedStart, SeedSelect, SeedInsert, Advance
      <3>2. v = w => seeder'[w].phase \in {"select", "insert"}
        BY <2>0, <2>2 DEF SeedStart, SeedSelect, SeedInsert, Advance
      <3> QED
        BY <3>1, <3>2
    <2>3. ASSUME NEW v \in Seeder, SeedFails(v)
          PROVE  db' = db /\ (seeder'[w].phase = "done" => seeder[w].phase = "done")
      BY <2>0, <2>3 DEF SeedFails
    <2>4. ASSUME NEW v \in Seeder, SeedCommit(v)
          PROVE  /\ seeder'[w].phase = "done" /\ seeder[w].phase # "done"
                      => \A i \in DOMAIN Entries : Exists(Entries[i])'
                 /\ seeder'[w].phase = "failed" => seeder[w].phase = "failed"
      <3>1. CASE v # w
        BY <2>0, <2>4, <3>1 DEF SeedCommit
      <3>2. CASE v = w
        <4>1. seeder'[w].phase = "done"
          BY <2>0, <2>4, <3>2 DEF SeedCommit
        <4>2. ASSUME NEW i \in DOMAIN Entries
              PROVE  Exists(Entries[i])'
          <5>1. i \in 1..7 /\ Seeding(w) /\ seeder[w].entry > 7
            BY <2>4, <3>2, EntryFacts DEF SeedCommit, Seeding
          <5>2. Planted(w, i)
            <6>1. seeder[w].entry \in 1..8
              BY <2>0
            <6> QED
              BY <1>1, <5>1, <6>1 DEF IInv, SeedInv
          <5>3. /\ DOMAIN db'.rows = DOMAIN db.rows
                /\ \A t \in DOMAIN db.rows : db.rows[t] \subseteq db'.rows[t]
                /\ \A e \in added[w] : e.table \in DOMAIN db.rows => Exists(e)'
            BY <1>1, <2>4, <3>2, Committed
          <5>4. Exists(Entries[i]) => Exists(Entries[i])'
            BY <5>2, <5>3 DEF Planted, Exists
          <5> QED
            BY <5>2, <5>3, <5>4 DEF Planted
        <4> QED
          BY <4>1, <4>2
      <3> QED
        BY <3>1, <3>2
    <2>5. UNCHANGED seeder \/ \E v \in Seeder : SeedStart(v) \/ SeedSelect(v) \/ SeedInsert(v)
                                   \/ SeedCommit(v) \/ SeedFails(v)
      BY <1>1 DEF SchemaNext, Migrate, RecordVisit, PlantDemo, schemaVars
    <2> QED
      BY <2>1, <2>2, <2>3, <2>4, <2>5
  <1>2. IInv /\ [SchemaNext]_schemaVars
          => [\A w \in Seeder :
                /\ seeder'[w].phase = "done" /\ seeder[w].phase # "done"
                      => \A i \in DOMAIN Entries : Exists(Entries[i])'
                /\ seeder'[w].phase = "failed" /\ seeder[w].phase # "failed"
                      => db' = db]_schemaVars
    BY <1>1
  <1> QED
    BY <1>2, SchemaInvariance, PTL DEF SchemaSpec, SeedIsComplete
=============================================================================
