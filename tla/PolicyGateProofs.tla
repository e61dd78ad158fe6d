-------------------------- MODULE PolicyGateProofs --------------------------
(***************************************************************************)
(* The policy gate, for every configuration, calendar and number of        *)
(* commits: the state keeps its type, the two engines agree on every main  *)
(* ever reached, nothing but a commit accepts a finding, and a green badge *)
(* speaks for main as it stands.                                           *)
(***************************************************************************)
EXTENDS PolicyGate, GovernanceProofs

(* The analyzer's pack of a tree is a pack. *)
LEMMA ContextIsPack ==
    ASSUME NEW t \in Tree, NEW d
    PROVE  IsPack(Context(t, d))
<1>1. ASSUME NEW g \in t.grants
      PROVE  /\ g.object \in Object /\ g.principal \in Principal
             /\ g.privileges \subseteq STRING /\ t.class[g.object] \in Classes
  BY DEF Tree, Grant
<1>2. ASSUME NEW f \in Analyze(t)
      PROVE  f \in FindingKey /\ Accepted(t, f, d) \in BOOLEAN
  BY DEF Analyze, Accepted
<1>3. \A a \in Context(t, d).access :
          /\ a.object \in Object /\ a.principal \in Principal
          /\ a.privileges \subseteq STRING /\ a.class \in Classes
  BY <1>1 DEF Context
<1>4. \A f \in Context(t, d).findings :
          f.key \in FindingKey /\ f.accepted \in BOOLEAN
  BY <1>2 DEF Context
<1> QED
  BY <1>3, <1>4 DEF IsPack

(* An edit of a tree is a tree, and an edit of a commit is a commit. *)
LEMMA EditsAreTrees ==
    ASSUME NEW t \in Tree
    PROVE  EditedTrees(t) \subseteq Tree
<1>1. /\ t.class \in [Object -> Classes] /\ t.grants \subseteq Grant
      /\ t.exceptions \subseteq ExceptionRecord
  BY DEF Tree
<1>2. t = [class |-> t.class, grants |-> t.grants,
           exceptions |-> t.exceptions]
  BY DEF Tree
<1>3. ASSUME NEW g \in OfferedGrants
      PROVE  /\ [t EXCEPT !.grants = @ \cup {g}] \in Tree
             /\ [t EXCEPT !.grants = @ \ {g}] \in Tree
  BY <1>1, <1>2, GateAssumption DEF Tree
<1>4. ASSUME NEW e \in OfferedExceptions
      PROVE  /\ [t EXCEPT !.exceptions = @ \cup {e}] \in Tree
             /\ [t EXCEPT !.exceptions = @ \ {e}] \in Tree
  BY <1>1, <1>2, GateAssumption DEF Tree
<1>5. ASSUME NEW c \in OfferedClasses
      PROVE  [t EXCEPT !.class[c[1]] = c[2]] \in Tree
  <2>1. c[1] \in Object /\ c[2] \in Classes
    BY GateAssumption
  <2>2. [t.class EXCEPT ![c[1]] = c[2]] \in [Object -> Classes]
    BY <1>1, <2>1
  <2> QED
    BY <1>1, <1>2, <2>2 DEF Tree
<1> QED
  BY <1>3, <1>4, <1>5 DEF EditedTrees

LEMMA EditsAreCommits ==
    ASSUME NEW c, IsCommit(c), NEW d \in Edits(c)
    PROVE  IsCommit(d)
<1>1. PICK t \in EditedTrees(c.tree) :
          \E x \in {c.context, Context(t, today)} :
              d = [tree |-> t, context |-> x]
  BY DEF Edits
<1>2. PICK x \in {c.context, Context(t, today)} :
          d = [tree |-> t, context |-> x]
  BY <1>1
<1>3. t \in Tree
  BY EditsAreTrees DEF IsCommit
<1>4. IsPack(x)
  BY <1>2, <1>3, ContextIsPack DEF IsCommit
<1> QED
  BY <1>2, <1>3, <1>4 DEF IsCommit

(* A merge of commits is a commit. *)
LEMMA MergesAreCommits ==
    ASSUME NEW b, NEW h, NEW o, IsCommit(b), IsCommit(h), IsCommit(o)
    PROVE  IsCommit(MergeOf(b, h, o))
<1> DEFINE m == MergeOf(b, h, o)
<1>1. /\ h.tree.class \in [Object -> Classes]
      /\ h.tree.grants \in SUBSET Grant
      /\ h.tree.exceptions \in SUBSET ExceptionRecord
      /\ o.tree.class \in [Object -> Classes]
      /\ o.tree.grants \in SUBSET Grant
      /\ o.tree.exceptions \in SUBSET ExceptionRecord
  BY DEF IsCommit, Tree
<1>2. /\ Picked(b.tree.class, h.tree.class, o.tree.class)
             \in [Object -> Classes]
      /\ Picked(b.tree.grants, h.tree.grants, o.tree.grants) \in SUBSET Grant
      /\ Picked(b.tree.exceptions, h.tree.exceptions, o.tree.exceptions)
             \in SUBSET ExceptionRecord
  BY <1>1 DEF Picked
<1>3. m.tree \in Tree
  BY <1>2 DEF MergeOf, Tree
<1>4. m.context = Picked(b.context, h.context, o.context)
  BY DEF MergeOf
<1>5. IsPack(m.context)
  BY <1>4 DEF Picked, IsCommit
<1> QED
  BY <1>3, <1>5 DEF IsCommit

(* What a trigger and a push store has its type. *)
LEMMA TriggeredIsTyped ==
    ASSUME NEW b, NEW h, IsCommit(b), IsCommit(h), IsCommit(main),
           pr' = Triggered(b, h)
    PROVE  /\ IsCommit(pr'.base) /\ IsCommit(pr'.head)
           /\ IsCommit(pr'.onto) /\ IsCommit(pr'.merge)
           /\ pr'.check \in {"none", "queued", "green", "red"}
           /\ pr'.day \in Nat
<1>1. /\ pr'.base = b /\ pr'.head = h /\ pr'.onto = main
      /\ pr'.merge = MergeOf(b, h, main)
      /\ pr'.check \in {"none", "queued"} /\ pr'.day = 0
  BY DEF Triggered
<1> QED
  BY <1>1, MergesAreCommits

LEMMA PushedIsTyped ==
    ASSUME NEW c, IsCommit(c), queued.open => IsCommit(queued.commit),
           Pushed(c)
    PROVE  IsCommit(main') /\ (queued'.open => IsCommit(queued'.commit))
<1>1. CASE Triggers(main, c)
  BY <1>1 DEF Pushed
<1>2. CASE ~Triggers(main, c)
  BY <1>2 DEF Pushed
<1> QED
  BY <1>1, <1>2

LEMMA VerdictIsTyped ==
    ASSUME NEW c, NEW d
    PROVE  Verdict(c, d) \in {"green", "red"}
BY DEF Verdict

-----------------------------------------------------------------------------
LEMMA TypeInit == Init => TypeOK
<1> SUFFICES ASSUME Init PROVE TypeOK
  OBVIOUS
<1>1. FirstTree \in Tree
  BY GateAssumption
<1>2. IsCommit(main)
  BY <1>1, ContextIsPack DEF Init, IsCommit
<1>3. /\ badge.verdict = Verdict(main, 0) /\ badge.commit = main
      /\ pr.open = FALSE /\ queued.open = FALSE
  BY DEF Init, Closed
<1> QED
  BY <1>2, <1>3, VerdictIsTyped DEF Init, TypeOK

(* Every action keeps the type: new commits are edits or merges of old      *)
(* ones, and verdicts are verdicts.                                        *)
LEMMA TypeStep == TypeOK /\ [Next]_vars => TypeOK'
<1> SUFFICES ASSUME TypeOK, [Next]_vars PROVE TypeOK'
  OBVIOUS
<1> USE DEF TypeOK
<1>1. CASE OpenPullRequest
  <2>1. PICK h \in Edits(main) : pr' = Triggered(main, h)
    BY <1>1 DEF OpenPullRequest
  <2>2. IsCommit(h)
    BY EditsAreCommits
  <2> QED
    BY <1>1, <2>1, <2>2, TriggeredIsTyped
    DEF OpenPullRequest, Commits, IsCommit, IsPack
<1>2. CASE AmendPullRequest
  <2>1. PICK h \in Edits(pr.head) : pr' = Triggered(pr.base, h)
    BY <1>2 DEF AmendPullRequest
  <2>2. IsCommit(pr.head) /\ IsCommit(pr.base)
    BY <1>2 DEF AmendPullRequest
  <2>3. IsCommit(h)
    BY <2>2, EditsAreCommits
  <2> QED
    BY <1>2, <2>1, <2>2, <2>3, TriggeredIsTyped
    DEF AmendPullRequest, Commits, IsCommit, IsPack
<1>3. CASE UpdatePullRequest
  <2>1. IsCommit(MergeOf(pr.base, pr.head, main))
    BY <1>3, MergesAreCommits DEF UpdatePullRequest
  <2> QED
    BY <1>3, <2>1, TriggeredIsTyped DEF UpdatePullRequest, IsCommit, IsPack
<1>4. CASE CheckPullRequest
  <2>1. Verdict(pr.merge, today) \in {"green", "red"}
    BY VerdictIsTyped
  <2>2. pr' = [pr EXCEPT !.check = Verdict(pr.merge, today), !.day = today]
    BY <1>4 DEF CheckPullRequest
  <2> QED
    BY <1>4, <2>1, <2>2 DEF CheckPullRequest, IsCommit, IsPack
<1>5. CASE MergePullRequest
  <2>1. IsCommit(MergeOf(pr.base, pr.head, main))
    BY <1>5, MergesAreCommits DEF MergePullRequest
  <2>2. IsCommit(main') /\ (queued'.open => IsCommit(queued'.commit))
    BY <1>5, <2>1, PushedIsTyped DEF MergePullRequest
  <2> QED
    BY <1>5, <2>2 DEF MergePullRequest, Closed, IsCommit, IsPack
<1>6. CASE ClosePullRequest
  BY <1>6 DEF ClosePullRequest, Closed, IsCommit, IsPack
<1>7. CASE PushDirectly
  <2>1. PICK c \in Edits(main) : Pushed(c)
    BY <1>7 DEF PushDirectly
  <2>2. IsCommit(c)
    BY EditsAreCommits
  <2>3. IsCommit(main') /\ (queued'.open => IsCommit(queued'.commit))
    BY <2>1, <2>2, PushedIsTyped
  <2> QED
    BY <1>7, <2>3 DEF PushDirectly, Commits, IsCommit, IsPack
<1>8. CASE RunOnPush
  <2>1. /\ badge'.verdict = Verdict(queued.commit, today)
        /\ badge'.commit = queued.commit /\ queued'.open = FALSE
    BY <1>8 DEF RunOnPush, Closed
  <2> QED
    BY <1>8, <2>1, VerdictIsTyped DEF RunOnPush, IsCommit, IsPack
<1>9. CASE DayPasses
  BY <1>9 DEF DayPasses, IsCommit, IsPack
<1>10. CASE UNCHANGED vars
  BY <1>10 DEF vars, IsCommit, IsPack
<1> QED
  BY <1>1, <1>2, <1>3, <1>4, <1>5, <1>6, <1>7, <1>8, <1>9, <1>10
  DEF Next

(* The gate's state always has its type. *)
THEOREM GateTypeCorrect == Spec => []TypeOK
BY TypeInit, TypeStep, PTL DEF Spec

(* On every main ever reached, and on every day, OPA run on a pack written  *)
(* that day denies what the analyzer gates on, provided every catalog name  *)
(* is declared once.                                                       *)
THEOREM EnginesAlwaysAgree ==
    ASSUME UniqueCatalogs
    PROVE  Spec => []EnginesAgree
<1>1. TypeOK => EnginesAgree
  BY EnginesAgreeOnFresh DEF TypeOK, IsCommit, EnginesAgree
<1> QED
  BY <1>1, GateTypeCorrect, PTL

(* No lapse comes unannounced: what gates WarnWithin + 1 days from now and  *)
(* is accepted today rests on an exception today's warning lists.           *)
THEOREM LapsesAreAnnounced == Spec => []LapseIsAnnounced
<1>1. ASSUME TypeOK, NEW f \in Gating(main.tree, today + WarnWithin + 1),
             f \notin Gating(main.tree, today)
      PROVE  \E e \in Expiring(main.tree, WarnWithin, today) :
                 e.finding = f /\ ~IsExpired(e, today)
  <2>1. ~Accepted(main.tree, f, today + WarnWithin + 1)
        /\ Accepted(main.tree, f, today)
    BY <1>1 DEF Gating
  <2>2. PICK e \in main.tree.exceptions :
               e.finding = f /\ ~IsExpired(e, today)
    BY <2>1 DEF Accepted
  <2>3. IsExpired(e, today + WarnWithin + 1)
    BY <2>1, <2>2 DEF Accepted
  <2>4. e.expires.day \in Nat /\ today \in Nat /\ WarnWithin \in Nat
    BY <1>1, GateAssumption DEF TypeOK, IsCommit, Tree, ExceptionRecord, Expiry
  <2>5. e.expires.form = "date"
        /\ e.expires.day < today + WarnWithin + 1
    BY <2>2, <2>3 DEF IsExpired
  <2>6. e.expires.day - today <= WarnWithin
    BY <2>4, <2>5
  <2> QED
    BY <2>2, <2>5, <2>6 DEF Expiring
<1>2. TypeOK => LapseIsAnnounced
  BY <1>1 DEF LapseIsAnnounced
<1> QED
  BY <1>2, GateTypeCorrect, PTL

-----------------------------------------------------------------------------
(* What a pull request's check has judged is the merge of its branch onto the *)
(* main it was triggered on.                                                  *)
Judged ==
    pr.open =>
        /\ DOMAIN pr = {"open", "base", "head", "onto", "merge", "check", "day"}
        /\ pr.merge = MergeOf(pr.base, pr.head, pr.onto)
        /\ pr.check = "green" => GatePasses(pr.merge, pr.day)

LEMMA TriggeredIsUnjudged ==
    ASSUME NEW b, NEW h, pr' = Triggered(b, h)
    PROVE  Judged'
<1>1. /\ DOMAIN pr' = {"open", "base", "head", "onto", "merge", "check", "day"}
      /\ pr'.base = b /\ pr'.head = h /\ pr'.onto = main
      /\ pr'.merge = MergeOf(b, h, main) /\ pr'.check # "green"
  BY DEF Triggered
<1>. QED  BY <1>1 DEF Judged

LEMMA JudgedStep == Judged /\ [Next]_vars => Judged'
<1>. SUFFICES ASSUME Judged, [Next]_vars
              PROVE  Judged'
  OBVIOUS
<1>1. CASE OpenPullRequest \/ AmendPullRequest \/ UpdatePullRequest
  BY <1>1, TriggeredIsUnjudged DEF OpenPullRequest, AmendPullRequest, UpdatePullRequest
<1>2. CASE CheckPullRequest
  <2>1. pr.open /\ pr' = [pr EXCEPT !.check = Verdict(pr.merge, today), !.day = today]
    BY <1>2 DEF CheckPullRequest
  <2>2. /\ DOMAIN pr' = DOMAIN pr /\ pr'.merge = pr.merge
        /\ pr'.base = pr.base /\ pr'.head = pr.head /\ pr'.onto = pr.onto
        /\ pr'.check = Verdict(pr.merge, today) /\ pr'.day = today
    BY <2>1 DEF Judged
  <2>3. pr'.check = "green" => GatePasses(pr'.merge, pr'.day)
    BY <2>2 DEF Verdict
  <2>. QED  BY <2>1, <2>2, <2>3 DEF Judged
<1>3. CASE MergePullRequest \/ ClosePullRequest
  BY <1>3 DEF MergePullRequest, ClosePullRequest, Closed, Judged
<1>4. CASE PushDirectly \/ RunOnPush \/ DayPasses \/ UNCHANGED vars
  BY <1>4 DEF PushDirectly, RunOnPush, DayPasses, vars, Judged
<1>. QED  BY <1>1, <1>2, <1>3, <1>4 DEF Next

(* A pull request merged on the day of its check onto the main it was judged  *)
(* with leaves a passing main, whatever was pushed and merged before it.      *)
THEOREM GreenMergesStayGreen == Spec => GreenMergeStaysGreen
<1>1. Init => Judged
  BY DEF Init, Closed, Judged
<1>2. Judged /\ [Next]_vars
          => ((/\ pr.open /\ ~pr'.open /\ main' # main
               /\ pr.day = today /\ pr.onto = main)
              => GatePasses(main', today))
  <2>. SUFFICES ASSUME Judged, [Next]_vars, pr.open, ~pr'.open, main' # main,
                       pr.day = today, pr.onto = main
                PROVE  GatePasses(main', today)
    OBVIOUS
  <2>1. MergePullRequest
    BY DEF Next, OpenPullRequest, AmendPullRequest, UpdatePullRequest, CheckPullRequest,
       ClosePullRequest, PushDirectly, RunOnPush, DayPasses, vars
  <2>2. pr.check = "green" /\ main' = MergeOf(pr.base, pr.head, main)
    BY <2>1 DEF MergePullRequest, Pushed
  <2>. QED  BY <2>2 DEF Judged
<1>. QED  BY <1>1, <1>2, JudgedStep, PTL DEF Spec, GreenMergeStaysGreen
-----------------------------------------------------------------------------
(* The badge's verdict is that of its commit on the day it was judged.  That  *)
(* commit is main unless a newer one waits, and then that is main: whatever   *)
(* lands without a run is no change at all.                                   *)
Whole(c) ==
    /\ c = [tree |-> c.tree, context |-> c.context]
    /\ c.tree = [class |-> c.tree.class, grants |-> c.tree.grants,
                 exceptions |-> c.tree.exceptions]

Newest ==
    /\ Whole(main)
    /\ IF queued.open THEN queued.commit = main ELSE badge.commit = main
    /\ \E d \in 0..today : badge.verdict = Verdict(badge.commit, d)

LEMMA TreesAreWhole ==
    ASSUME NEW t \in Tree
    PROVE  t = [class |-> t.class, grants |-> t.grants, exceptions |-> t.exceptions]
BY DEF Tree

(* A push that triggers nothing has changed nothing. *)
LEMMA PushIsNewest ==
    ASSUME Newest, NEW c, Whole(c), Pushed(c), UNCHANGED <<badge, today>>
    PROVE  Newest'
<1>1. Whole(main)'
  BY DEF Pushed, Whole
<1>2. CASE Triggers(main, c)
  BY <1>1, <1>2 DEF Pushed, Newest
<1>3. CASE ~Triggers(main, c)
  <2>1. c = main
    BY <1>3 DEF Triggers, Newest, Whole
  <2>. QED  BY <1>1, <1>3, <2>1 DEF Pushed, Newest
<1>. QED  BY <1>2, <1>3

LEMMA NewestInit == Init => Newest
<1>. SUFFICES ASSUME Init
              PROVE  Newest
  OBVIOUS
<1>1. Whole(main)
  BY TreesAreWhole, GateAssumption DEF Init, Whole
<1>2. badge.commit = main /\ badge.verdict = Verdict(badge.commit, 0)
  BY DEF Init
<1>3. ~queued.open /\ 0 \in 0..today
  BY DEF Init, Closed
<1>. QED  BY <1>1, <1>2, <1>3 DEF Newest

LEMMA NewestStep == TypeOK /\ Newest /\ [Next]_vars => Newest'
<1>. SUFFICES ASSUME TypeOK, Newest, [Next]_vars
              PROVE  Newest'
  OBVIOUS
<1>1. CASE OpenPullRequest \/ AmendPullRequest \/ UpdatePullRequest \/ CheckPullRequest
             \/ ClosePullRequest \/ UNCHANGED vars
  <2>1. UNCHANGED <<main, queued, badge, today>>
    BY <1>1 DEF OpenPullRequest, AmendPullRequest, UpdatePullRequest, CheckPullRequest,
       ClosePullRequest, vars
  <2>. QED  BY <2>1 DEF Newest, Whole
<1>2. CASE MergePullRequest
  <2>1. Whole(MergeOf(pr.base, pr.head, main))
    BY DEF MergeOf, Whole
  <2>. QED  BY <1>2, <2>1, PushIsNewest DEF MergePullRequest
<1>3. CASE PushDirectly
  <2>1. PICK c \in Edits(main) : Pushed(c)
    BY <1>3 DEF PushDirectly
  <2>2. PICK t \in EditedTrees(main.tree) :
             \E x \in {main.context, Context(t, today)} : c = [tree |-> t, context |-> x]
    BY <2>1 DEF Edits
  <2>3. t \in Tree
    BY EditsAreTrees DEF TypeOK, IsCommit
  <2>4. Whole(c)
    BY <2>2, <2>3, TreesAreWhole DEF Whole
  <2>. QED  BY <1>3, <2>1, <2>4, PushIsNewest DEF PushDirectly
<1>4. CASE RunOnPush
  <2>1. /\ badge'.commit = main /\ ~queued'.open /\ main' = main /\ today' = today
        /\ badge'.verdict = Verdict(badge'.commit, today)
    BY <1>4 DEF RunOnPush, Newest, Closed
  <2>2. today \in 0..today'
    BY <2>1 DEF TypeOK
  <2>. QED  BY <2>1, <2>2 DEF Newest, Whole
<1>5. CASE DayPasses
  <2>1. UNCHANGED <<main, queued, badge>> /\ 0..today \subseteq 0..today'
    BY <1>5 DEF DayPasses, TypeOK
  <2>. QED  BY <2>1 DEF Newest, Whole
<1>. QED  BY <1>1, <1>2, <1>3, <1>4, <1>5 DEF Next

(* For every configuration, pushes by whatever file and merges however late:  *)
(* under a green badge with no run to come, only the calendar has made main   *)
(* fail.                                                                      *)
THEOREM GreenBadgesAreHonest == Spec => []GreenBadgeIsHonest
<1>1. TypeOK /\ Newest => GreenBadgeIsHonest
  <2>. SUFFICES ASSUME TypeOK, Newest, badge.verdict = "green", ~queued.open,
                       NEW f \in Gating(main.tree, today)
                PROVE  \E e \in main.tree.exceptions :
                          e.finding = f /\ e.expires.form = "date" /\ e.expires.day < today
    BY DEF GreenBadgeIsHonest
  <2>1. PICK d \in 0..today : badge.verdict = Verdict(main, d)
    BY DEF Newest
  <2>2. Gating(main.tree, d) = {}
    BY <2>1 DEF Verdict, GatePasses
  <2>3. Accepted(main.tree, f, d) /\ ~Accepted(main.tree, f, today)
    BY <2>2 DEF Gating
  <2>4. PICK e \in main.tree.exceptions : e.finding = f /\ ~IsExpired(e, d)
    BY <2>3 DEF Accepted
  <2>5. IsExpired(e, today)
    BY <2>3, <2>4 DEF Accepted
  <2>. QED  BY <2>4, <2>5 DEF IsExpired
<1>. QED  BY <1>1, GateTypeCorrect, NewestInit, NewestStep, PTL DEF Spec
=============================================================================
