-------------------------- MODULE GovernanceProofs --------------------------
(***************************************************************************)
(* What holds of the two engines for every tree and every day.             *)
(***************************************************************************)
EXTENDS Governance, FiniteSetTheorems, WellFoundedInduction, TLAPS

(* A set of positions has a last one: of the tails of the set that start at *)
(* a member, a least in the well-founded order of strict inclusion starts   *)
(* at it.                                                                   *)
LEMMA LastDeclaration ==
    ASSUME NEW n \in Nat, NEW A \in SUBSET (1..n), A # {}
    PROVE  \E k \in A : \A j \in A : j <= k
<1>. DEFINE Onwards(k) == {j \in A : k <= j}
            T == {Onwards(k) : k \in A}
            R == StrictSubsetOrdering(1..n)
<1>1. IsWellFoundedOn(R, SUBSET (1..n))
  <2>1. IsFiniteSet(1..n)
    BY FS_Interval
  <2>2. FiniteSubsetsOf(1..n) = SUBSET (1..n)
    BY <2>1, FS_FiniteSubsetsOfFinite
  <2>. QED  BY <2>2, FS_StrictSubsetOrderingWellFounded
<1>2. T \subseteq SUBSET (1..n) /\ T # {}
  OBVIOUS
<1>3. PICK s \in T : \A r \in T : <<r, s>> \notin R
  <2>. HIDE DEF T, R
  <2>. QED  BY <1>1, <1>2, WFMin
<1>4. PICK k \in A : s = Onwards(k)
  OBVIOUS
<1>5. ASSUME NEW j \in A, ~(j <= k)
      PROVE  FALSE
  <2>1. A \subseteq Int
    OBVIOUS
  <2>2. k \in s /\ k \notin Onwards(j)
    BY <1>4, <1>5, <2>1
  <2>3. ASSUME NEW i \in Onwards(j)
        PROVE  i \in Onwards(k)
    <3>1. j \in Int /\ k \in Int /\ i \in A /\ i \in Int /\ j <= i
      BY <2>1
    <3>2. k <= i
      BY <3>1, <1>5
    <3>. QED  BY <3>1, <3>2
  <2>4. <<Onwards(j), s>> \in R
    BY <2>2, <2>3, <1>2, <1>4 DEF StrictSubsetOrdering
  <2>. QED  BY <1>3, <2>4
<1>. QED  BY <1>5

(* The rank of every class: the sensitive ones are the two Rego lists. *)
LEMMA SensitiveClasses ==
    ASSUME NEW c \in Classes
    PROVE  IsSensitive(c) <=> c \in sensitive_classes
<1>1. Rank("confidential") = 3
  BY DEF Rank, Classification
<1>2. /\ Rank("public") = 1 /\ Rank("internal") = 2
      /\ Rank("pii") = 4 /\ Rank("none") = 0 /\ Rank("absent") = 0
  BY DEF Rank, Classification
<1> QED
  BY <1>1, <1>2 DEF IsSensitive, Classes, sensitive_classes

(* With every catalog declared once, both engines name the same owner. *)
LEMMA OwnersAgree ==
    ASSUME UniqueCatalogs,
           NEW a, a.object \in Object, a.principal \in Principal
    PROVE  rego_is_owner(a) <=> a.principal = OwnerOf(a.object)
<1> DEFINE named ==
             {i \in DOMAIN Catalogs : Catalogs[i].name = CatalogOf[a.object]}
<1>1. CASE named = {}
  <2>1. OwnerOf(a.object) = Nobody
    BY <1>1 DEF OwnerOf
  <2>2. ~rego_is_owner(a)
    BY <1>1 DEF rego_is_owner
  <2> QED
    BY <2>1, <2>2, PrincipalAssumption
<1>2. CASE named # {}
  <2>1. PICK i \in named : TRUE
    BY <1>2
  <2>2. named = {i}
    BY <2>1 DEF UniqueCatalogs
  <2>3. i \in Nat
    BY <2>1, CatalogAssumption
  <2>4. (CHOOSE k \in named : \A j \in named : j <= k) = i
    BY <2>2, <2>3
  <2>5. OwnerOf(a.object) = Catalogs[i].owner
    BY <1>2, <2>4 DEF OwnerOf
  <2>6. rego_is_owner(a) <=> /\ Catalogs[i].owner # Nobody
                             /\ Catalogs[i].owner = a.principal
    BY <2>2 DEF rego_is_owner
  <2> QED
    BY <2>5, <2>6, PrincipalAssumption
<1> QED
  BY <1>1, <1>2
-----------------------------------------------------------------------------
(* On a row of the access matrix and on the grant it was written from, the  *)
(* two engines find the same violations.                                   *)
LEMMA RulesAgree ==
    ASSUME UniqueCatalogs,
           NEW class \in [Object -> Classes],
           NEW g \in Grant,
           NEW a, a.object = g.object, a.principal = g.principal,
           a.privileges = g.privileges, a.class = class[g.object],
           NEW rule \in HighRules
    PROVE  rego_violates(rule, a) <=> Flagged(rule, class, g)
<1>1. /\ g.object \in Object /\ g.principal \in Principal
      /\ class[g.object] \in Classes
  BY DEF Grant
<1>2. rego_is_owner(a) <=> g.principal = OwnerOf(g.object)
  BY <1>1, OwnersAgree
<1>3. IsSensitive(class[g.object]) <=> a.class \in sensitive_classes
  BY <1>1, SensitiveClasses
<1>4. CASE rule = "PUBLIC_PRINCIPAL"
  BY <1>4 DEF rego_violates, Flagged
<1>5. CASE rule = "PII_BROAD_READ"
  BY <1>5 DEF rego_violates, Flagged
<1>6. CASE rule = "PII_WRITE"
  BY <1>6 DEF rego_violates, Flagged, rego_write_privileges
<1>7. CASE rule = "SENSITIVE_ALL_PRIVILEGES"
  BY <1>7, <1>2, <1>3 DEF rego_violates, Flagged, Trusted
<1> QED
  BY <1>4, <1>5, <1>6, <1>7 DEF HighRules

(* A HIGH finding is about a grant, and so about a principal. *)
LEMMA HighFindings ==
    ASSUME NEW t \in Tree, NEW f \in FindingKey, f.rule \in HighRules
    PROVE  f \in Analyze(t) <=>
             \E g \in t.grants : /\ Flagged(f.rule, t.class, g)
                                /\ f.object = g.object
                                /\ f.principal = g.principal
BY DEF Analyze, HighRules, ObjectFlagged

(* What Rego denies on a pack of the day, in terms of the tree: the rows of *)
(* the access matrix are the grants, and an exception counts for a finding  *)
(* the analyzer has reported.                                               *)
Row(t, g) == [object |-> g.object, principal |-> g.principal,
              privileges |-> g.privileges, class |-> t.class[g.object]]

LEMMA DenyOnFresh ==
    ASSUME NEW t \in Tree, NEW today \in Nat, NEW f \in FindingKey
    PROVE  f \in Deny(Context(t, today)) <=>
             /\ f.rule \in HighRules /\ ~(f \in Analyze(t) /\ Accepted(t, f, today))
             /\ \E g \in t.grants : /\ rego_violates(f.rule, Row(t, g))
                                   /\ f.object = g.object
                                   /\ f.principal = g.principal
<1>. DEFINE ctx == Context(t, today)
<1>1. t.grants \subseteq Grant
  BY DEF Tree
<1>2. ctx.access = {Row(t, g) : g \in t.grants}
  BY DEF Context, Row
<1>3. ASSUME NEW a, a.object = f.object, a.principal = f.principal
      PROVE  rego_accepted(ctx, f.rule, a) <=> f \in Analyze(t) /\ Accepted(t, f, today)
  <2>1. ASSUME f \in Analyze(t), Accepted(t, f, today)
        PROVE  rego_accepted(ctx, f.rule, a)
    <3>1. [key |-> f, accepted |-> Accepted(t, f, today)] \in ctx.findings
      BY <2>1 DEF Context
    <3>. QED  BY <2>1, <3>1, <1>3 DEF rego_accepted
  <2>2. ASSUME rego_accepted(ctx, f.rule, a)
        PROVE  f \in Analyze(t) /\ Accepted(t, f, today)
    <3>1. PICK r \in ctx.findings :
                 /\ r.key.rule = f.rule /\ r.key.object = f.object
                 /\ r.key.principal = f.principal /\ r.accepted
      BY <2>2, <1>3 DEF rego_accepted
    <3>2. PICK h \in Analyze(t) : r = [key |-> h, accepted |-> Accepted(t, h, today)]
      BY <3>1 DEF Context
    <3>3. h \in FindingKey
      BY DEF Analyze
    <3>4. h = f
      BY <3>1, <3>2, <3>3 DEF FindingKey
    <3>. QED  BY <3>1, <3>2, <3>4
  <2>. QED  BY <2>1, <2>2
<1>4. ASSUME f \in Deny(ctx)
      PROVE  /\ f.rule \in HighRules /\ ~(f \in Analyze(t) /\ Accepted(t, f, today))
             /\ \E g \in t.grants : /\ rego_violates(f.rule, Row(t, g))
                                   /\ f.object = g.object /\ f.principal = g.principal
  <2>1. PICK a \in ctx.access : /\ f.object = a.object /\ f.principal = a.principal
                                /\ rego_violates(f.rule, a) /\ ~rego_accepted(ctx, f.rule, a)
    BY <1>4 DEF Deny
  <2>2. PICK g \in t.grants : a = Row(t, g)
    BY <1>2, <2>1
  <2>3. f.object = g.object /\ f.principal = g.principal
    BY <2>1, <2>2 DEF Row
  <2>4. f.rule \in HighRules
    BY <1>4 DEF Deny
  <2>. QED  BY <2>1, <2>2, <2>3, <2>4, <1>3
<1>5. ASSUME f.rule \in HighRules, ~(f \in Analyze(t) /\ Accepted(t, f, today)),
             NEW g \in t.grants, rego_violates(f.rule, Row(t, g)),
             f.object = g.object, f.principal = g.principal
      PROVE  f \in Deny(ctx)
  <2>1. /\ Row(t, g) \in ctx.access
        /\ Row(t, g).object = f.object /\ Row(t, g).principal = f.principal
    BY <1>2, <1>5 DEF Row
  <2>2. ~rego_accepted(ctx, f.rule, Row(t, g))
    BY <1>3, <1>5, <2>1
  <2>3. f \in [rule : HighRules, object : Object, principal : Principal]
    BY <1>1, <1>5 DEF FindingKey, Grant
  <2>. QED  BY <1>5, <2>1, <2>2, <2>3 DEF Deny
<1>. QED  BY <1>4, <1>5

(* The Rego policy, run on a grounding pack written on the day it is run,   *)
(* denies exactly what the analyzer gates on: no rule, privilege, owner or  *)
(* exception is read differently by the two engines, whatever the tree.     *)
THEOREM EnginesAgreeOnFresh ==
    ASSUME UniqueCatalogs, NEW t \in Tree, NEW today \in Nat
    PROVE  Deny(Context(t, today)) = Gating(t, today)
<1>1. t.grants \subseteq Grant /\ t.class \in [Object -> Classes]
  BY DEF Tree
<1>2. Deny(Context(t, today)) \subseteq FindingKey /\ Gating(t, today) \subseteq FindingKey
  BY DEF Deny, Gating, Analyze, FindingKey, AllRules
<1>3. ASSUME NEW f \in FindingKey
      PROVE  f \in Deny(Context(t, today)) <=> f \in Gating(t, today)
  <2>1. ASSUME NEW g \in t.grants, f.rule \in HighRules
        PROVE  rego_violates(f.rule, Row(t, g)) <=> Flagged(f.rule, t.class, g)
    BY <1>1, <2>1, RulesAgree DEF Row
  <2>2. f \in Deny(Context(t, today)) <=>
          /\ f.rule \in HighRules /\ ~(f \in Analyze(t) /\ Accepted(t, f, today))
          /\ f \in Analyze(t)
    BY <2>1, DenyOnFresh, HighFindings
  <2>. QED  BY <2>2 DEF Gating
<1>. QED  BY <1>2, <1>3

(* Declared more than once, but never by two owners: whoever the analyzer   *)
(* takes for the owner is one to Rego, and Rego knows another only where    *)
(* the analyzer, going by the last declaration, knows none.                 *)
LEMMA OwnersDiffer ==
    ASSUME ~rego_conflict,
           NEW a, a.object \in Object, a.principal \in Principal
    PROVE  /\ a.principal = OwnerOf(a.object) => rego_is_owner(a)
           /\ rego_is_owner(a) /\ a.principal # OwnerOf(a.object)
                => OwnerOf(a.object) = Nobody
<1>. DEFINE named == {i \in DOMAIN Catalogs : Catalogs[i].name = CatalogOf[a.object]}
<1>1. CASE named = {}
  BY <1>1, PrincipalAssumption DEF OwnerOf, rego_is_owner
<1>2. CASE named # {}
  <2>. DEFINE last == CHOOSE k \in named : \A j \in named : j <= k
  <2>1. Len(Catalogs) \in Nat /\ named \in SUBSET (1..Len(Catalogs))
    BY CatalogAssumption
  <2>2. last \in named
    <3>. HIDE DEF named
    <3>1. \E k \in named : \A j \in named : j <= k
      BY <1>2, <2>1, LastDeclaration
    <3>. QED  BY <3>1
  <2>3. OwnerOf(a.object) = Catalogs[last].owner
    BY <1>2 DEF OwnerOf
  <2>4. a.principal # Nobody
    BY PrincipalAssumption
  <2>5. ASSUME a.principal = Catalogs[last].owner
        PROVE  rego_is_owner(a)
    BY <2>2, <2>4, <2>5 DEF rego_is_owner
  <2>6. ASSUME rego_is_owner(a), a.principal # Catalogs[last].owner
        PROVE  Catalogs[last].owner = Nobody
    <3>1. PICK i \in named : Catalogs[i].owner = a.principal
      BY <2>6 DEF rego_is_owner
    <3>. QED  BY <2>2, <2>4, <2>6, <3>1 DEF rego_conflict
  <2>. QED  BY <2>3, <2>5, <2>6
<1>. QED  BY <1>1, <1>2

(* The four rules read on a row and on its grant, owners being as above.    *)
LEMMA RulesDiffer ==
    ASSUME ~rego_conflict,
           NEW class \in [Object -> Classes],
           NEW g \in Grant,
           NEW a, a.object = g.object, a.principal = g.principal,
           a.privileges = g.privileges, a.class = class[g.object],
           NEW rule \in HighRules
    PROVE  /\ rego_violates(rule, a) => Flagged(rule, class, g)
           /\ Flagged(rule, class, g) /\ ~rego_violates(rule, a) =>
                /\ rule = "SENSITIVE_ALL_PRIVILEGES" /\ OwnerOf(g.object) = Nobody
                /\ rego_is_owner(a)
<1>1. /\ g.object \in Object /\ g.principal \in Principal
      /\ class[g.object] \in Classes
  BY DEF Grant
<1>2. /\ g.principal = OwnerOf(g.object) => rego_is_owner(a)
      /\ rego_is_owner(a) /\ g.principal # OwnerOf(g.object) => OwnerOf(g.object) = Nobody
  BY <1>1, OwnersDiffer
<1>3. IsSensitive(class[g.object]) <=> a.class \in sensitive_classes
  BY <1>1, SensitiveClasses
<1>4. CASE rule = "PUBLIC_PRINCIPAL"
  BY <1>4 DEF rego_violates, Flagged
<1>5. CASE rule = "PII_BROAD_READ"
  BY <1>5 DEF rego_violates, Flagged
<1>6. CASE rule = "PII_WRITE"
  BY <1>6 DEF rego_violates, Flagged, rego_write_privileges
<1>7. CASE rule = "SENSITIVE_ALL_PRIVILEGES"
  BY <1>7, <1>2, <1>3 DEF rego_violates, Flagged, Trusted
<1>. QED  BY <1>4, <1>5, <1>6, <1>7 DEF HighRules

(* Whatever is declared twice, as long as no catalog has two owners, Rego   *)
(* never denies what the analyzer lets pass, and lets pass what it gates on *)
(* only where a principal that an earlier declaration of a catalog names as *)
(* its owner has ALL_PRIVILEGES on sensitive data, and the last names none. *)
THEOREM DisagreementIsOwnership ==
    ASSUME ~rego_conflict, NEW t \in Tree, NEW today \in Nat
    PROVE  /\ Deny(Context(t, today)) \subseteq Gating(t, today)
           /\ \A f \in Gating(t, today) \ Deny(Context(t, today)) :
                 /\ f.rule = "SENSITIVE_ALL_PRIVILEGES" /\ OwnerOf(f.object) = Nobody
                 /\ rego_is_owner([object |-> f.object, principal |-> f.principal])
<1>1. t.grants \subseteq Grant /\ t.class \in [Object -> Classes]
  BY DEF Tree
<1>2. ASSUME NEW rule \in HighRules, NEW g \in t.grants
      PROVE  /\ rego_violates(rule, Row(t, g)) => Flagged(rule, t.class, g)
             /\ Flagged(rule, t.class, g) /\ ~rego_violates(rule, Row(t, g)) =>
                  /\ rule = "SENSITIVE_ALL_PRIVILEGES" /\ OwnerOf(g.object) = Nobody
                  /\ rego_is_owner([object |-> g.object, principal |-> g.principal])
  <2>1. rego_is_owner(Row(t, g)) =>
          rego_is_owner([object |-> g.object, principal |-> g.principal])
    BY DEF rego_is_owner, Row
  <2>. QED  BY <1>1, <2>1, RulesDiffer DEF Row
<1>3. ASSUME NEW f \in Deny(Context(t, today))
      PROVE  f \in Gating(t, today)
  <2>1. f \in FindingKey
    BY <1>3 DEF Deny, FindingKey, AllRules
  <2>. QED  BY <1>2, <1>3, <2>1, DenyOnFresh, HighFindings DEF Gating
<1>4. ASSUME NEW f \in Gating(t, today), f \notin Deny(Context(t, today))
      PROVE  /\ f.rule = "SENSITIVE_ALL_PRIVILEGES" /\ OwnerOf(f.object) = Nobody
             /\ rego_is_owner([object |-> f.object, principal |-> f.principal])
  <2>1. f \in FindingKey /\ f.rule \in HighRules /\ f \in Analyze(t) /\ ~Accepted(t, f, today)
    BY DEF Gating, Analyze
  <2>2. PICK g \in t.grants : /\ Flagged(f.rule, t.class, g)
                             /\ f.object = g.object /\ f.principal = g.principal
    BY <2>1, HighFindings
  <2>3. ~rego_violates(f.rule, Row(t, g))
    BY <1>4, <2>1, <2>2, DenyOnFresh
  <2>. QED  BY <1>2, <2>1, <2>2, <2>3
<1>. QED  BY <1>3, <1>4

(* Time alone never accepts a finding: what gates today gates on every      *)
(* later day, until somebody changes the tree.                             *)
THEOREM TimeOnlyGates ==
    ASSUME NEW t \in Tree, NEW d \in Nat, NEW e \in Nat, d <= e
    PROVE  Gating(t, d) \subseteq Gating(t, e)
<1>1. ASSUME NEW x \in t.exceptions, ~IsExpired(x, e)
      PROVE  ~IsExpired(x, d)
  <2>1. x.expires.day \in Nat
    BY DEF Tree, ExceptionRecord, Expiry
  <2> QED
    BY <1>1, <2>1 DEF IsExpired
<1> QED
  BY <1>1 DEF Gating, Accepted
=============================================================================
