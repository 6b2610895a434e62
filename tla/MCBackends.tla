------------------------------- MODULE MCBackends -------------------------------
(***************************************************************************)
(* Instances of Backends: two sessions on any of the backends.             *)
(***************************************************************************)
EXTENDS Backends, TLC

CONSTANTS a, b, topic, none, main, upstream

\* Both sessions work on one repository.  If its name is long (LongNames), their
\* VMs' names cut off the uid and are the same.
OneRepo == [s \in Session |-> "repository"]

Asks(env, isolation, ref, fetch) ==
  [env |-> env, isolation |-> isolation, ref |-> ref, fetch |-> fetch]

\* One launcher for both backends that have the choice.
SameFlags == {f \in [{"exe_dev", "local"} -> Launcher] : f["exe_dev"] = f["local"]}

Symmetric == Permutations({a, b})

Own     == Asks("local", "worktree", none, FALSE)
Reset   == Asks("local", "worktree", topic, FALSE)
Fetched == Asks("local", "worktree", topic, TRUE)
Cloned(env) == Asks(env, "clone", none, FALSE)

\* A fetch without a ref, which START refuses.
Refused == Asks("local", "worktree", none, TRUE)

\* Two sessions on one backend, as only then they meet: worktrees of one
\* repository, on a branch each or on the same branch, VMs, sandboxes.  The other
\* requests meet one that START refuses.
Pair(x, y) == [s \in Session |-> IF s = a THEN x ELSE y]

AllPairs ==
  {Pair(Own, Own), Pair(Reset, Reset), Pair(Cloned("exe_dev"), Cloned("exe_dev")),
   Pair(Cloned("modal"), Cloned("modal")), Pair(Fetched, Refused), Pair(Cloned("local"), Refused)}
=============================================================================
