------------------------------- MODULE Worktrees -------------------------------
(***************************************************************************)
(* The git side of the local backend: the operator's repository, in which  *)
(* a session may get a worktree, and the fresh clones of the others.       *)
(*                                                                         *)
(* A session makes at most one commit, named after it, and histories are   *)
(* linear where they matter: a branch is the set of commits it has beyond  *)
(* the repository's HEAD, and a ref contains a commit of another exactly   *)
(* when its set includes it.                                               *)
(***************************************************************************)
EXTENDS Naturals, FiniteSets

CONSTANTS
  Session,   \* session uids; a session's own branch is named by its uid
  Ref,       \* branches a dispatch may name (git_ref)
  NoRef,     \* ... or this, for none
  Main,      \* the branch the repository is on
  Upstream,  \* a commit that only origin has
  OnOrigin,  \* the refs origin has, each with the commit Upstream
  MaxSlips   \* bound on failures of git or rm that reap passes over

ASSUME WorktreesAssumption ==
  /\ Session \cap Ref = {}
  /\ {NoRef, Main, Upstream} \cap (Session \cup Ref) = {}
  /\ OnOrigin \subseteq Ref
  /\ MaxSlips \in Nat

VARIABLES
  tree,    \* the registered worktrees: session -> the branch it has checked out
  dangling,\* those whose directory is gone
  clone,   \* the sessions that work in a clone
  heads,   \* local branches: name -> commits.  A clone's is kept under its uid
  remote,  \* refs/remotes/origin of the repository, or of the clone
  dirty,   \* sessions with uncommitted changes in their work dir
  slips    \* failures passed over so far

gitVars == <<tree, dangling, clone, heads, remote, dirty, slips>>

GitInit ==
  /\ tree = << >> /\ dangling = {} /\ clone = {} /\ dirty = {} /\ slips = 0
  /\ heads  = [b \in {Main} |-> {}]
  /\ remote = [b \in {Main} \cup OnOrigin |-> IF b = Main THEN {} ELSE {Upstream}]

With(f, x, v) == [y \in DOMAIN f \cup {x} |-> IF y = x THEN v ELSE f[y]]
Drop(f, x)    == [y \in DOMAIN f \ {x} |-> f[y]]

HasGit(s)     == s \in (DOMAIN tree \ dangling) \cup clone
CheckedOut(s) == IF s \in clone THEN s ELSE tree[s]

\* git refuses a branch that a registered worktree has checked out, also one
\* whose directory is long gone.
InUse(branch) == branch = Main \/ \E s \in DOMAIN tree : tree[s] = branch

(***************************************************************************)
(* START's worktree stage.                                                 *)
(***************************************************************************)
Checkout(s, branch, commits) ==
  /\ ~InUse(branch)
  /\ tree'  = With(tree, s, branch)
  /\ heads' = With(heads, branch, commits)

\* fetch_remote: the branch as it is if it exists here, else cut off origin's.
\* (git fetch has failed when origin lacks it; the last arm, off HEAD, is for
\* a repository whose origin has no tracking refs.)
FetchedCommits(ref) ==
  IF ref \in DOMAIN heads THEN heads[ref]
  ELSE IF ref \in DOMAIN remote THEN remote[ref] ELSE {}

AddFetched(s, ref) ==
  /\ ref \in OnOrigin
  /\ Checkout(s, ref, FetchedCommits(ref))

\* A named ref is created or reset off HEAD (-B); without one, a fresh branch
\* of the session (-b).
AddLocal(s, ref) ==
  IF ref = NoRef THEN s \notin DOMAIN heads /\ Checkout(s, s, {})
  ELSE Checkout(s, ref, {})

AddWorktree(s, ref, fetch) ==
  /\ IF fetch THEN AddFetched(s, ref) ELSE AddLocal(s, ref)
  /\ UNCHANGED <<dangling, clone, remote, dirty, slips>>

AddClone(s) ==
  /\ clone' = clone \cup {s}
  /\ heads' = With(heads, s, {})
  /\ remote' = With(remote, s, {})
  /\ UNCHANGED <<tree, dangling, dirty, slips>>

(***************************************************************************)
(* The agent at work.                                                      *)
(***************************************************************************)
Edit(s) ==
  /\ HasGit(s) /\ s \notin dirty
  /\ dirty' = dirty \cup {s}
  /\ UNCHANGED <<tree, dangling, clone, heads, remote, slips>>

Commit(s) ==
  /\ s \in dirty /\ s \notin heads[CheckedOut(s)]
  /\ dirty' = dirty \ {s}
  /\ heads' = [heads EXCEPT ![CheckedOut(s)] = @ \cup {s}]
  /\ UNCHANGED <<tree, dangling, clone, remote, slips>>

\* Without force: origin refuses a branch that lacks what it already has.
Push(s) ==
  /\ HasGit(s) /\ s \in heads[CheckedOut(s)]
  /\ CheckedOut(s) \in DOMAIN remote => remote[CheckedOut(s)] \subseteq heads[CheckedOut(s)]
  /\ remote' = With(remote, CheckedOut(s), heads[CheckedOut(s)])
  /\ UNCHANGED <<tree, dangling, clone, heads, dirty, slips>>

(***************************************************************************)
(* reap, and the assessment that precedes it.                              *)
(***************************************************************************)
\* Refs other than the checked out one that contain HEAD, in the repository
\* the session works in.
OtherRefs(s) ==
  LET here(b) == IF s \in clone THEN b = s ELSE b \notin clone
      head    == heads[CheckedOut(s)]
  IN {<<"heads", b>>   : b \in {c \in DOMAIN heads  : here(c) /\ c # CheckedOut(s) /\ head \subseteq heads[c]}}
       \cup
     {<<"remotes", b>> : b \in {c \in DOMAIN remote : here(c) /\ head \subseteq remote[c]}}

MutDeliveryCommittedOnly(s) ==
  IF ~HasGit(s) THEN "none" ELSE IF OtherRefs(s) = {} THEN "shipped" ELSE "empty"

\* delivery_signal: no git, no verdict; uncommitted changes, or a HEAD that no
\* other ref contains, are a diff.
DeliverySignal(s) ==
  IF ~HasGit(s) THEN "none"
  ELSE IF s \in dirty \/ OtherRefs(s) = {} THEN "shipped" ELSE "empty"

\* ... unless git fails: no verdict without its status or its refs.  Without the
\* name of HEAD, a session's own branch counts as one that has its commits.
FailedSignals(s) ==
  IF ~HasGit(s) THEN {} ELSE {"none"} \cup {v \in {"empty"} : s \notin dirty}

\* What the assessment reads, and whether git failed it.
ReadSignal(s, v) ==
  \/ v = DeliverySignal(s) /\ UNCHANGED slips
  \/ v \in FailedSignals(s) /\ slips < MaxSlips /\ slips' = slips + 1

MutRemoveDeletesBranch(s, registered, emptied, fails) ==
  /\ emptied /\ fails = 0 /\ UNCHANGED slips
  /\ tree'  = IF registered /\ s \in DOMAIN tree THEN Drop(tree, s) ELSE tree
  /\ dangling' = dangling /\ clone' = clone \ {s} /\ dirty' = dirty \ {s}
  /\ heads' = IF HasGit(s) THEN Drop(heads, CheckedOut(s)) ELSE heads
  /\ remote' = IF s \in clone THEN Drop(remote, s) ELSE remote

\* `git worktree remove` and `prune`, whose failures nobody hears of, in the
\* repository the handle names; `prune` drops every registration that has lost its
\* directory.  Then the rm: `emptied` says whether the task's directory went, and
\* `fails` is 1 if the rm failed.  The branch stays.
RemoveWorkDir(s, registered, emptied, fails) ==
  \E removed, pruned \in {TRUE, ~registered} :
    LET one(ok)  == IF ok THEN 0 ELSE 1
        dropped  == IF ~registered THEN {}
                    ELSE {t \in dangling : pruned} \cup {t \in {s} \ dangling : removed}
        left     == dangling \cup {t \in {s} : emptied}
    IN /\ slips' = slips + fails + one(removed) + one(pruned)
       /\ slips' <= MaxSlips
       /\ tree' = [t \in DOMAIN tree \ dropped |-> tree[t]]
       /\ dangling' = left \cap DOMAIN tree'
       /\ clone' = {t \in clone : t = s => ~emptied}
       /\ dirty' = {t \in dirty : t = s => ~emptied /\ s \notin dropped}
       /\ heads' = IF s \in clone \ clone' THEN Drop(heads, s) ELSE heads
       /\ remote' = IF s \in clone \ clone' THEN Drop(remote, s) ELSE remote
=============================================================================
