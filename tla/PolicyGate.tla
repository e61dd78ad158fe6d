----------------------------- MODULE PolicyGate -----------------------------
(***************************************************************************)
(* The policy gate around the two engines: commits, pull requests, the     *)
(* workflow dbx-config-validate.yml and the calendar.                      *)
(*                                                                         *)
(* A commit holds a tree (Governance) and the grounding pack generated     *)
(* from some tree on some day.  The workflow runs on a pull request's      *)
(* merge commit and on pushes to main that touch its paths; there is no    *)
(* schedule.  A pull request is merged on the verdict it has, however old; *)
(* anybody who may push can push to main directly.                         *)
(***************************************************************************)
EXTENDS Governance

CONSTANTS
    FirstTree,          \* the tree of the first commit
    OfferedGrants,      \* the grants authors add and remove
    OfferedExceptions,  \* the ledger entries they add and remove
    OfferedClasses,     \* the classifications they set, <<object, class>>
    WarnWithin,         \* --warn-expiring
    MaxDay,             \* the calendar stops here
    MaxCommits          \* how many commits authors make

ASSUME GateAssumption ==
    /\ FirstTree \in Tree
    /\ OfferedGrants \subseteq Grant
    /\ OfferedExceptions \subseteq ExceptionRecord
    /\ OfferedClasses \subseteq Object \X Classes
    /\ WarnWithin \in Nat /\ MaxDay \in Nat
    /\ MaxCommits \in Nat

VARIABLES
    main,      \* the commit main points at
    pr,        \* the open pull request, or Closed
    queued,    \* the pushed commit the workflow has yet to judge, or Closed
    badge,     \* the newest run on main: its verdict and its commit
    today,
    commits    \* how many commits were made

vars == <<main, pr, queued, badge, today, commits>>

Closed == [open |-> FALSE]

-----------------------------------------------------------------------------
(* Commits. *)

(* One edit of the configuration or the ledger, or none. *)
EditedTrees(t) ==
    {t}
    \cup {[t EXCEPT !.grants = @ \cup {g}] : g \in OfferedGrants}
    \cup {[t EXCEPT !.grants = @ \ {g}] : g \in OfferedGrants}
    \cup {[t EXCEPT !.exceptions = @ \cup {e}] : e \in OfferedExceptions}
    \cup {[t EXCEPT !.exceptions = @ \ {e}] : e \in OfferedExceptions}
    \cup {[t EXCEPT !.class[c[1]] = c[2]] : c \in OfferedClasses}

(* An author commits an edit, with the pack regenerated or left as it was.  *)
Edits(c) ==
    UNION {{[tree |-> t, context |-> x] : x \in {c.context, Context(t, today)}}
              : t \in EditedTrees(c.tree)} \ {c}

(* Git merges file by file.  The infra files, the grants files, the ledger  *)
(* and the pack are different files; a file both sides changed conflicts.   *)
Picked(base, head, onto) == IF head # base THEN head ELSE onto

MergeOf(base, head, onto) ==
    [tree |->
        [class |-> Picked(base.tree.class, head.tree.class, onto.tree.class),
         grants |->
            Picked(base.tree.grants, head.tree.grants, onto.tree.grants),
         exceptions |->
            Picked(base.tree.exceptions, head.tree.exceptions,
                   onto.tree.exceptions)],
     context |-> Picked(base.context, head.context, onto.context)]

Clash(base, head, onto) == head # base /\ onto # base /\ head # onto

Conflicts(base, head, onto) ==
    \/ Clash(base.tree.class, head.tree.class, onto.tree.class)
    \/ Clash(base.tree.grants, head.tree.grants, onto.tree.grants)
    \/ Clash(base.tree.exceptions, head.tree.exceptions, onto.tree.exceptions)
    \/ Clash(base.context, head.context, onto.context)

-----------------------------------------------------------------------------
(* The workflow. *)

(* governance_report.py --check: the pack, regenerated now, is the one       *)
(* committed, the date it was written on aside.                            *)
PackInSync(c, day) == c.context = Context(c.tree, day)

(* policy_analyzer.py, make opa and governance_report.py --check, each of   *)
(* which stops the job when it fails.                                      *)
GatePasses(c, day) ==
    /\ Gating(c.tree, day) = {}
    /\ Deny(c.context) = {} /\ ~rego_conflict
    /\ PackInSync(c, day)

(* Mistake: a failing step reported as skipped. *)
VerdictSkips(c, day) == IF GatePasses(c, day) THEN "green" ELSE "skipped"

Verdict(c, day) == IF GatePasses(c, day) THEN "green" ELSE "red"

(* Mistake: a push trigger whose paths leave the ledger out. *)
TriggersWithoutLedger(old, new) ==
    \/ new.tree.class # old.tree.class
    \/ new.tree.grants # old.tree.grants
    \/ new.context # old.context

(* The paths of the push trigger name every file of a commit. *)
Triggers(old, new) ==
    \/ new.tree.class # old.tree.class
    \/ new.tree.grants # old.tree.grants
    \/ new.tree.exceptions # old.tree.exceptions
    \/ new.context # old.context

(* The run on a pull request checks out the merge commit made when the run  *)
(* was triggered, and there is none while the two conflict.                *)
Triggered(base, head) ==
    [open |-> TRUE, base |-> base, head |-> head, onto |-> main,
     merge |-> MergeOf(base, head, main),
     check |-> IF Conflicts(base, head, main) THEN "none" ELSE "queued",
     day |-> 0]

Pushed(c) ==
    /\ main' = c
    /\ queued' = IF Triggers(main, c) THEN [open |-> TRUE, commit |-> c]
                                      ELSE queued

-----------------------------------------------------------------------------
Init ==
    /\ main = [tree |-> FirstTree, context |-> Context(FirstTree, 0)]
    /\ pr = Closed
    /\ queued = Closed
    /\ badge = [verdict |-> Verdict(main, 0), commit |-> main]
    /\ today = 0
    /\ commits = 0

Commits == commits < MaxCommits /\ commits' = commits + 1

OpenPullRequest ==
    /\ ~pr.open
    /\ Commits
    /\ \E head \in Edits(main) : pr' = Triggered(main, head)
    /\ UNCHANGED <<main, queued, badge, today>>

(* A further commit on the branch triggers the check again. *)
AmendPullRequest ==
    /\ pr.open
    /\ Commits
    /\ \E head \in Edits(pr.head) : pr' = Triggered(pr.base, head)
    /\ UNCHANGED <<main, queued, badge, today>>

(* The branch takes main in, when they merge. *)
UpdatePullRequest ==
    /\ pr.open
    /\ pr.base # main
    /\ ~Conflicts(pr.base, pr.head, main)
    /\ pr' = Triggered(main, MergeOf(pr.base, pr.head, main))
    /\ UNCHANGED <<main, queued, badge, today, commits>>

(* Mistake: a check of the branch's head instead of the merge commit. *)
CheckHeadOnly ==
    /\ pr.open
    /\ pr.check = "queued"
    /\ pr' = [pr EXCEPT !.check = Verdict(pr.head, today), !.day = today]
    /\ UNCHANGED <<main, queued, badge, today, commits>>

CheckPullRequest ==
    /\ pr.open
    /\ pr.check = "queued"
    /\ pr' = [pr EXCEPT !.check = Verdict(pr.merge, today), !.day = today]
    /\ UNCHANGED <<main, queued, badge, today, commits>>

MergePullRequest ==
    /\ pr.open
    /\ pr.check = "green"
    /\ ~Conflicts(pr.base, pr.head, main)
    /\ Pushed(MergeOf(pr.base, pr.head, main))
    /\ pr' = Closed
    /\ UNCHANGED <<badge, today, commits>>

ClosePullRequest ==
    /\ pr.open
    /\ pr' = Closed
    /\ UNCHANGED <<main, queued, badge, today, commits>>

PushDirectly ==
    /\ Commits
    /\ \E c \in Edits(main) : Pushed(c)
    /\ UNCHANGED <<pr, badge, today>>

(* Only the newest push's verdict is kept: it is what the badge shows. *)
RunOnPush ==
    /\ queued.open
    /\ badge' = [verdict |-> Verdict(queued.commit, today),
                 commit |-> queued.commit]
    /\ queued' = Closed
    /\ UNCHANGED <<main, pr, today, commits>>

DayPasses ==
    /\ today < MaxDay
    /\ today' = today + 1
    /\ UNCHANGED <<main, pr, queued, badge, commits>>

Next ==
    \/ OpenPullRequest \/ AmendPullRequest \/ UpdatePullRequest
    \/ CheckPullRequest \/ MergePullRequest \/ ClosePullRequest
    \/ PushDirectly \/ RunOnPush
    \/ DayPasses

Spec == Init /\ [][Next]_vars

(* GitHub starts a triggered run, and days pass. *)
FairSpec == Spec /\ WF_vars(RunOnPush) /\ WF_vars(DayPasses)

-----------------------------------------------------------------------------
(* Commits are trees with packs of trees; runs and pull requests carry      *)
(* commits.                                                                *)
IsPack(x) ==
    /\ \A a \in x.access :
          /\ a.object \in Object /\ a.principal \in Principal
          /\ a.privileges \subseteq STRING /\ a.class \in Classes
    /\ \A f \in x.findings : f.key \in FindingKey /\ f.accepted \in BOOLEAN

IsCommit(c) == c.tree \in Tree /\ IsPack(c.context)

TypeOK ==
    /\ IsCommit(main)
    /\ pr.open =>
          /\ IsCommit(pr.base) /\ IsCommit(pr.head)
          /\ IsCommit(pr.onto) /\ IsCommit(pr.merge)
          /\ pr.check \in {"none", "queued", "green", "red"}
          /\ pr.day \in Nat
    /\ queued.open => IsCommit(queued.commit)
    /\ badge.verdict \in {"green", "red"} /\ IsCommit(badge.commit)
    /\ today \in Nat /\ commits \in Nat

(* On a pack written today, OPA denies exactly what the analyzer gates on,  *)
(* whatever the tree on main has become: README.md, "a bug in one engine    *)
(* cannot silently pass the other".                                        *)
EnginesAgree ==
    Deny(Context(main.tree, today)) = Gating(main.tree, today)

(* Every lapse is announced: a finding accepted today that will gate        *)
(* WarnWithin + 1 days from now, if nobody changes the tree, has an entry   *)
(* in today's --warn-expiring list (expiring_exceptions and is_expired      *)
(* draw the line at the same day).                                         *)
LapseIsAnnounced ==
    \A f \in Gating(main.tree, today + WarnWithin + 1) :
        f \notin Gating(main.tree, today)
            => \E e \in Expiring(main.tree, WarnWithin, today) :
                   e.finding = f /\ ~IsExpired(e, today)

(* A pull request merged on the day of its check, onto the main it was      *)
(* checked against, leaves main passing: what was judged is what landed.    *)
GreenMergeStaysGreen ==
    [][(/\ pr.open /\ ~pr'.open /\ main' # main
        /\ pr.day = today /\ pr.onto = main)
        => GatePasses(main', today)]_vars

(* The push trigger is "where the gate STAYS HONEST"                         *)
(* (dbx-config-validate.yml:15): with no run to come, a green badge speaks  *)
(* for main as it stands, and what gates under it nonetheless was accepted  *)
(* by an exception on main that has lapsed since.                          *)
GreenBadgeIsHonest ==
    badge.verdict = "green" /\ ~queued.open =>
        \A f \in Gating(main.tree, today) :
            \E e \in main.tree.exceptions :
                e.finding = f /\ e.expires.form = "date" /\ e.expires.day < today

(* A push that breaks the policy, by whatever file, shows: the badge turns  *)
(* red, or main is repaired first.                                         *)
BrokenPushShows ==
    (Gating(main.tree, today) # {} /\ badge.commit # main)
        ~> (badge.verdict = "red" \/ Gating(main.tree, today) = {})

(* What README.md says of the day after an exception's last one, "CI goes   *)
(* red again": a policy that lapses under a standing main turns it red too. *)
ExpiryTurnsRed ==
    (Gating(main.tree, today) # {})
        ~> (badge.verdict = "red" \/ Gating(main.tree, today) = {})

=============================================================================
