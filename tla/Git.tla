-------------------------------- MODULE Git --------------------------------
(***************************************************************************)
(* git/: the facade over go-git.  One Repo, whose calls are serialized as  *)
(* doc.go:180 asks, works on a clone with its index and worktree; somebody *)
(* edits the files, and others push to the same remote between any two     *)
(* calls.  Each call is one action; where it makes several go-git calls,   *)
(* what is left when one of them fails is one of its outcomes.  go-git is  *)
(* external: Fetched, CheckedOut, Unstaged and Staged say what it does     *)
(* with the options that this code passes (v5.16).                         *)
(***************************************************************************)
EXTENDS Naturals, Sequences

CONSTANTS Branch, Default,   \* the branches, and the one the remote's HEAD names
          Tag, Path, Content,
          Absent,            \* a path that a tree, the index or the worktree lacks
          None,              \* no such reference
          MaxCommits,        \* bound on the commits made
          MaxCalls           \* bound on the calls, and the others' steps, explored

ASSUME GitAssumption ==
  /\ Default \in Branch /\ Absent \notin Content /\ None \notin Nat
  /\ MaxCommits \in Nat \ {0} /\ MaxCalls \in Nat

VARIABLES commits,   \* commits[i]: the parent and the tree of commit i
          remote,    \* remote[b]: the commit of branch b in the remote, or None
          heads, tags, tracking,   \* the references of the clone
          head,      \* the branch HEAD names
          index, work,
          touched,   \* the paths staged since the index last equalled HEAD
          stale,     \* a branch has moved under the index
          calls,     \* calls made so far
          told       \* what the last call was told to discard, or None

refs == <<heads, tags, tracking, head>>
files == <<index, work, touched, stale>>
vars == <<commits, remote, refs, files, calls, told>>

Tree == [Path -> Content \cup {Absent}]
Commit == 1..Len(commits)

TypeOK ==
  /\ \A i \in Commit : commits[i].parent \in 0..(i - 1) /\ commits[i].tree \in Tree
  /\ remote \in [Branch -> Commit \cup {None}]
  /\ heads \in [Branch -> Commit \cup {None}]
  /\ tracking \in [Branch -> Commit \cup {None}]
  /\ tags \in [Tag -> Commit \cup {None}]
  /\ head \in Branch
  /\ index \in Tree /\ work \in Tree
  /\ touched \in SUBSET Path /\ stale \in BOOLEAN
  /\ calls \in 0..MaxCalls

(* A clone of a remote with one commit: its default branch is checked out. *)
Init ==
  /\ commits \in {<<[parent |-> 0, tree |-> t]>> : t \in [Path -> Content]}
  /\ remote = [b \in Branch |-> IF b = Default THEN 1 ELSE None]
  /\ heads = remote /\ tracking = remote
  /\ tags = [t \in Tag |-> None]
  /\ head = Default
  /\ index = commits[1].tree /\ work = commits[1].tree
  /\ touched = {} /\ stale = FALSE
  /\ calls = 0 /\ told = None
----------------------------------------------------------------------------
(* Commit i of cs and those it descends from. *)
History(cs, i) ==
  LET past[n \in 0..i] == IF n = 0 THEN {} ELSE {n} \cup past[cs[n].parent]
  IN  past[i]

(* go-git moves the reference from old to new without losing a commit. *)
FastForward(old, new) == old # None => old \in History(commits, new)

TreeOf(b) == commits[heads[b]].tree
Tip == heads[head]

(* The tracked paths whose file differs from the index. *)
Unstaged == {p \in Path : index[p] # Absent /\ work[p] # index[p]}

(* The paths whose Staging status is neither Unmodified nor Untracked: a   *)
(* file that is not in the index counts as untracked.                      *)
Staged ==
  {p \in Path : /\ index[p] # TreeOf(head)[p]
                /\ ~(index[p] = Absent /\ work[p] # Absent)}

(* A worktree after tree t is written over it: files that were not in the  *)
(* index may stay where t has none.                                        *)
Overwritten(t) ==
  {[p \in Path |-> IF p \in kept THEN work[p] ELSE t[p]] :
     kept \in SUBSET {p \in Path : index[p] = Absent /\ t[p] = Absent}}

(* Index and worktree become those of the commit i. *)
ResetTo(i) ==
  /\ index' = commits[i].tree
  /\ work' \in Overwritten(commits[i].tree)
  /\ touched' = {} /\ stale' = FALSE

(* Nothing in the index or the worktree changes, though the commit that    *)
(* HEAD names is now i.                                                    *)
LeftBehind(i) ==
  /\ stale' = (stale \/ commits[i].tree # TreeOf(head))
  /\ UNCHANGED <<index, work, touched>>

(* Worktree.Checkout of branch b at commit i: HEAD moves first; unstaged   *)
(* changes then stop a checkout that is not forced.                        *)
CheckedOut(b, i, force) ==
  \/ /\ head' = b
     /\ force \/ Unstaged = {}
     /\ ResetTo(i)
  \/ /\ head' = b
     /\ ~force /\ Unstaged # {}
     /\ LeftBehind(i)
  \/ /\ UNCHANGED head
     /\ LeftBehind(heads'[head])

(* Remote.Fetch: remote branches come under refs/remotes, whatever they    *)
(* were; a prune drops those that are gone.                                *)
Fetched(prune) ==
  [b \in Branch |-> IF remote[b] # None \/ prune THEN remote[b] ELSE tracking[b]]
----------------------------------------------------------------------------
(* What a revision can resolve to. *)
Revisions ==
  ({heads[b] : b \in Branch} \cup {tracking[b] : b \in Branch} \cup {tags[t] : t \in Tag}) \ {None}

(* The caller accepts the loss of a branch, a tag, commits of the remote,  *)
(* or edits of the worktree.                                               *)
Told(x) ==
  /\ calls < MaxCalls
  /\ calls' = calls + 1
  /\ told' = x

(* Broken: an existing branch is overwritten without force. *)
CreateAnyBranch(b, i, force) ==
  /\ heads' = [heads EXCEPT ![b] = i]
  /\ IF b = head THEN LeftBehind(i) ELSE UNCHANGED files
  /\ Told(IF force THEN b ELSE None)
  /\ UNCHANGED <<commits, remote, tags, tracking, head>>

CreateBranch(b, i, force) ==
  /\ heads[b] = None \/ force
  /\ heads' = [heads EXCEPT ![b] = i]
  /\ IF b = head THEN LeftBehind(i) ELSE UNCHANGED files
  /\ Told(IF force THEN b ELSE None)
  /\ UNCHANGED <<commits, remote, tags, tracking, head>>

(* A missing branch is made at HEAD first, and stays when the checkout     *)
(* then fails.                                                             *)
CheckoutBranch(b, createIfMissing, force) ==
  /\ heads[b] # None \/ createIfMissing
  /\ heads' = [heads EXCEPT ![b] = IF @ = None THEN Tip ELSE @]
  /\ CheckedOut(b, heads'[b], force)
  /\ Told(IF force THEN "work" ELSE None)
  /\ UNCHANGED <<commits, remote, tags, tracking>>

(* Broken: the branch that is checked out can be deleted. *)
DeleteAnyBranch(b) ==
  /\ heads[b] # None
  /\ heads' = [heads EXCEPT ![b] = None]
  /\ Told(b)
  /\ UNCHANGED <<commits, remote, tags, tracking, head, files>>

DeleteBranch(b) ==
  /\ heads[b] # None /\ b # head
  /\ heads' = [heads EXCEPT ![b] = None]
  /\ Told(b)
  /\ UNCHANGED <<commits, remote, tags, tracking, head, files>>

(* The local branch is set to the remote one, also where it exists. *)
CheckoutRemoteBranch(b, local) ==
  /\ tracking[b] # None
  /\ heads' = [heads EXCEPT ![local] = tracking[b]]
  /\ CheckedOut(local, tracking[b], FALSE)
  /\ Told(local)
  /\ UNCHANGED <<commits, remote, tags, tracking>>

CreateTag(t, i) ==
  /\ tags[t] = None
  /\ tags' = [tags EXCEPT ![t] = i]
  /\ Told(None)
  /\ UNCHANGED <<commits, remote, heads, tracking, head, files>>

DeleteTag(t) ==
  /\ tags[t] # None
  /\ tags' = [tags EXCEPT ![t] = None]
  /\ Told(t)
  /\ UNCHANGED <<commits, remote, heads, tracking, head, files>>
----------------------------------------------------------------------------
(* Paths that do not exist are ignored; a failure midway leaves the ones   *)
(* added before.                                                           *)
Add(paths) ==
  /\ \E added \in SUBSET {p \in paths : work[p] # Absent} :
       /\ index' = [p \in Path |-> IF p \in added THEN work[p] ELSE index[p]]
       /\ touched' = touched \cup added
  /\ Told(None)
  /\ UNCHANGED <<commits, remote, refs, work, stale>>

(* Paths that are not in the index are ignored, likewise. *)
Remove(paths) ==
  /\ \E gone \in SUBSET {p \in paths : index[p] # Absent} :
       /\ index' = [p \in Path |-> IF p \in gone THEN Absent ELSE index[p]]
       /\ work' = [p \in Path |-> IF p \in gone THEN Absent ELSE work[p]]
       /\ touched' = touched \cup gone
  /\ Told("work")
  /\ UNCHANGED <<commits, remote, refs, stale>>

Unstage(paths) ==
  /\ index' = [p \in Path |-> IF p \in paths \cap Staged THEN TreeOf(head)[p] ELSE index[p]]
  /\ touched' = touched \ (paths \cap Staged)
  /\ Told(None)
  /\ UNCHANGED <<commits, remote, refs, work, stale>>

(* The index becomes the tree of a new commit. *)
MakeCommit(allowEmpty) ==
  /\ Staged # {} \/ allowEmpty
  /\ index # TreeOf(head) \/ allowEmpty
  /\ Len(commits) < MaxCommits
  /\ commits' = Append(commits, [parent |-> Tip, tree |-> index])
  /\ heads' = [heads EXCEPT ![head] = Len(commits')]
  /\ touched' = {} /\ stale' = FALSE
  /\ Told(None)
  /\ UNCHANGED <<remote, tags, tracking, head, index, work>>
----------------------------------------------------------------------------
Fetch(prune) ==
  /\ tracking' = Fetched(prune)
  /\ Told(None)
  /\ UNCHANGED <<commits, remote, heads, tags, head, files>>

(* Broken: moves the branch and leaves the files. *)
PullReference ==
  LET i == remote[Default] IN
  /\ tracking' = Fetched(FALSE)
  /\ heads' = [heads EXCEPT ![head] = IF FastForward(Tip, i) THEN i ELSE Tip]
  /\ Told(None)
  /\ UNCHANGED <<commits, remote, tags, head, files>>

(* The current branch takes the commit that the remote's HEAD names, if    *)
(* that is a fast forward; unstaged changes are found only then.           *)
PullFFOnly ==
  LET i == remote[Default] IN
  /\ tracking' = Fetched(FALSE)
  /\ \/ /\ FastForward(Tip, i)
        /\ heads' = [heads EXCEPT ![head] = i]
        /\ IF Unstaged = {} THEN ResetTo(i) ELSE LeftBehind(i)
     \/ UNCHANGED <<heads, files>>
  /\ Told(None)
  /\ UNCHANGED <<commits, remote, tags, head>>

(* fromRef names a branch, which a plain name finds before the remote's,   *)
(* a branch of the remote or a tag.  The merge moves the current branch    *)
(* alone.                                                                  *)
FetchAndMerge ==
  /\ tracking' = Fetched(FALSE)
  /\ \/ \E i \in Revisions \cup {tracking'[b] : b \in Branch} :
          /\ i # None /\ FastForward(Tip, i)
          /\ heads' = [heads EXCEPT ![head] = i]
          /\ LeftBehind(i)
     \/ UNCHANGED <<heads, files>>
  /\ Told(None)
  /\ UNCHANGED <<commits, remote, tags, head>>

(* Without RefSpecs, go-git pushes every branch.  The answer may be lost.  *)
Push(force) ==
  /\ \A b \in Branch : heads[b] # None => force \/ FastForward(remote[b], heads[b])
  /\ remote' = [b \in Branch |-> IF heads[b] # None THEN heads[b] ELSE remote[b]]
  /\ tracking' \in {tracking, [b \in Branch |-> IF heads[b] # None THEN heads[b] ELSE tracking[b]]}
  /\ Told(IF force THEN "remote" ELSE None)
  /\ UNCHANGED <<commits, heads, tags, head, files>>
----------------------------------------------------------------------------
(* Somebody edits, makes or deletes a file of the worktree. *)
Edit(p, v) ==
  /\ work' = [work EXCEPT ![p] = v]
  /\ Told("work")
  /\ UNCHANGED <<commits, remote, refs, index, touched, stale>>

(* Others push a commit to branch b, or make it on the default branch. *)
OthersPush(b, p, v) ==
  LET i == IF remote[b] # None THEN remote[b] ELSE remote[Default] IN
  /\ Len(commits) < MaxCommits
  /\ commits' = Append(commits, [parent |-> i, tree |-> [commits[i].tree EXCEPT ![p] = v]])
  /\ remote' = [remote EXCEPT ![b] = Len(commits')]
  /\ Told(None)
  /\ UNCHANGED <<refs, files>>

OthersDelete(b) ==
  /\ b # Default /\ remote[b] # None
  /\ remote' = [remote EXCEPT ![b] = None]
  /\ Told("remote")
  /\ UNCHANGED <<commits, refs, files>>

Next ==
  \/ \E b \in Branch, i \in Revisions, force \in BOOLEAN : CreateBranch(b, i, force)
  \/ \E b \in Branch, new, force \in BOOLEAN : CheckoutBranch(b, new, force)
  \/ \E b \in Branch : DeleteBranch(b)
  \/ \E b, local \in Branch : CheckoutRemoteBranch(b, local)
  \/ \E t \in Tag, i \in Revisions : CreateTag(t, i)
  \/ \E t \in Tag : DeleteTag(t)
  \/ \E paths \in SUBSET Path : Add(paths) \/ Remove(paths) \/ Unstage(paths)
  \/ \E allowEmpty \in BOOLEAN : MakeCommit(allowEmpty)
  \/ \E prune \in BOOLEAN : Fetch(prune)
  \/ PullFFOnly \/ FetchAndMerge
  \/ \E force \in BOOLEAN : Push(force)
  \/ \E p \in Path, v \in Content \cup {Absent} : Edit(p, v)
  \/ \E b \in Branch, p \in Path, v \in Content : OthersPush(b, p, v)
  \/ \E b \in Branch : OthersDelete(b)

Spec == Init /\ [][Next]_vars
----------------------------------------------------------------------------
(* HEAD names a branch that exists: no call deletes the branch that is     *)
(* checked out, or checks one out that has gone.                           *)
HeadIsBorn == heads[head] # None

(* Unless a branch has moved under the index, the index differs from HEAD  *)
(* in nothing but what the caller staged: the next Commit holds that and   *)
(* nothing else.                                                           *)
CommitIsWhatWasStaged ==
  ~stale => \A p \in Path : index[p] # TreeOf(head)[p] => p \in touched

(* A branch loses commits only in DeleteBranch, CreateBranch with force    *)
(* and CheckoutRemoteBranch of that branch, and a tag never moves.         *)
RefsMoveAsTold ==
  [][/\ \A b \in Branch : heads[b] # None =>
          \/ heads'[b] # None /\ heads[b] \in History(commits', heads'[b])
          \/ told' = b
     /\ \A t \in Tag : tags[t] # None /\ tags'[t] # tags[t] => told' = t
    ]_vars

(* A branch of the remote loses commits by a forced push alone. *)
RemoteKeepsCommits ==
  [][\A b \in Branch : remote[b] # None /\ told' # "remote" =>
       remote'[b] # None /\ remote[b] \in History(commits', remote'[b])]_vars

(* An edit of a tracked file that is not staged is lost to a forced        *)
(* checkout and to Remove alone.                                           *)
EditsAreKept ==
  [][\A p \in Unstaged : work'[p] = work[p] \/ told' = "work"]_vars

(* The clone always has a branch to commit to.                             *)
HeadIsSound == TypeOK /\ HeadIsBorn

(* Commits, tags and edits go only in the operations meant to drop them.   *)
NothingIsLost == RefsMoveAsTold /\ RemoteKeepsCommits /\ EditsAreKept
=============================================================================
