-------------------------------- MODULE Updater --------------------------------
(***************************************************************************)
(* The gateway's hot update (apps/gateway/src/updater.ts): an update pulls *)
(* the checkout the gateway runs from and ends the process, which the loop *)
(* of docker/entrypoint.sh starts again on the new HEAD; a check fetches   *)
(* and counts the commits the checkout is behind.                          *)
(*                                                                         *)
(* Requests overlap, and every git command is awaited: one action is the   *)
(* code between two of them.  git is a process of its own, which outlives  *)
(* the gateway.  Commits are numbered along the one branch, which only     *)
(* grows.  A git command that only reads is one step with the code that    *)
(* follows it; where one that fails is caught, the step has both outcomes. *)
(***************************************************************************)
EXTENDS Naturals

CONSTANTS
  Update,     \* POST /gw/version/update, each sent once
  Check,      \* POST /gw/version/check, each sent once
  MaxPushes,  \* commits pushed to the remote after the start
  MaxDeaths,  \* ends of the gateway for another reason than an update
  NoCommit    \* a head, or a tip, that could not be read

ASSUME BoundsAreNumbers == MaxPushes \in Nat /\ MaxDeaths \in Nat
ASSUME NoCommitGiven == NoCommit \notin Nat

VARIABLES
  up,      \* the gateway process runs
  loaded,  \* the commit it was loaded from
  head,    \* HEAD of the checkout
  origin,  \* origin/<branch>, the checkout's copy of the remote's tip
  remote,  \* the remote's tip
  reload,  \* the timer of scheduleReload is running
  update,  \* the update requests
  git,     \* the `git pull` of each
  check,   \* the check requests
  deaths

updaterVars == <<up, loaded, head, origin, remote, reload, update, git, check, deaths>>
checkout == <<head, origin>>
process == <<up, loaded, reload, deaths>>

Commit == 0..MaxPushes
NoUpdate == [pc |-> "idle", from |-> 0, to |-> 0]

(* asked, own, counted and shared are a history: the remote's tip at the     *)
(* question, whether the branch was read, or that of the checkout all the     *)
(* same, whether the count succeeded, and whether somebody else moved refs.   *)
NoCheck == [pc |-> "idle", asked |-> 0, own |-> TRUE, head |-> NoCommit, behind |-> 0,
            counted |-> FALSE, tip |-> NoCommit, shared |-> FALSE]

UnderWay == {"asked", "fetched", "counted"}
Shared(others) ==
  [c \in Check |->
    [check[c] EXCEPT !.shared = @ \/ (c \in others /\ check[c].pc \in UnderWay)]]

Goto(r, pc) == update' = [update EXCEPT ![r].pc = pc]
Refused(r) == update' = [update EXCEPT ![r] = [NoUpdate EXCEPT !.pc = "failed"]]
Waits(r) == up /\ update[r].pc = "pulling"

UpdaterInit ==
  /\ up = TRUE /\ loaded = 0 /\ head = 0 /\ origin = 0 /\ remote = 0
  /\ reload = FALSE /\ deaths = 0
  /\ update = [r \in Update |-> NoUpdate]
  /\ git = [r \in Update |-> "none"]
  /\ check = [c \in Check |-> NoCheck]
--------------------------------------------------------------------------------
(* An update: rev-parse HEAD, the pull, rev-parse HEAD, the audit row, the    *)
(* reload and the answer.                                                    *)
Asks(r) ==
  /\ up /\ update[r].pc = "idle"
  /\ update' = [update EXCEPT ![r].pc = "asked", ![r].from = head]
  /\ UNCHANGED <<process, checkout, remote, git, check>>

Pulls(r) ==
  /\ up /\ update[r].pc = "asked" /\ Goto(r, "pulling")
  /\ git' = [git EXCEPT ![r] = "running"]
  /\ UNCHANGED <<process, checkout, remote, check>>

PullEnds(r) ==
  /\ Waits(r) /\ git[r] = "moved" /\ Goto(r, "pulled")
  /\ git' = [git EXCEPT ![r] = "none"]
  /\ UNCHANGED <<process, checkout, remote, check>>

(* The reload does not ask whether this pull brought anything.               *)
ReloadsIfMoved(r) == update[r].from # head   \* defect: a retry that pulls nothing does not reload
Reloads(r) == TRUE

(* The row is flushed before the reload is armed: nothing is awaited between. *)
Applied(r) ==
  /\ up /\ update[r].pc = "pulled"
  /\ update' = [update EXCEPT ![r].pc = "ok", ![r].to = head]
  /\ reload' = (reload \/ Reloads(r))
  /\ UNCHANGED <<up, loaded, deaths, checkout, remote, git, check>>

(* Any of the commands, or the audit, fails: HEAD may have moved by then.     *)
Fails(r) ==
  /\ up /\ \/ update[r].pc \in {"asked", "pulled"}
           \/ update[r].pc = "pulling" /\ git[r] = "failed"
  /\ Refused(r) /\ git' = [git EXCEPT ![r] = "none"]
  /\ UNCHANGED <<process, checkout, remote, check>>

(* execFile kills a git that takes longer than two minutes, wherever it is.   *)
TimesOutDone(r) == git[r] = "moved"   \* defect: no timeout for a git that hangs
TimesOut(r) == git[r] # "none"

PullTimesOut(r) ==
  /\ Waits(r) /\ TimesOut(r) /\ Refused(r)
  /\ git' = [git EXCEPT ![r] = "none"]
  /\ UNCHANGED <<process, checkout, remote, check>>
--------------------------------------------------------------------------------
(* git pull --ff-only: a fetch and a fast-forward.  It need not come to an    *)
(* end, and it goes on when the gateway has gone.                            *)
GitMoves(r) ==
  /\ git[r] = "running" /\ git' = [git EXCEPT ![r] = "moved"]
  /\ origin' = remote /\ head' = remote /\ check' = Shared(Check)
  /\ UNCHANGED <<process, remote, update>>

GitFails(r) ==
  /\ git[r] = "running" /\ git' = [git EXCEPT ![r] = "failed"]
  /\ origin' \in {origin, remote} /\ check' = Shared(Check)
  /\ UNCHANGED <<process, head, remote, update>>

Push ==
  /\ remote < MaxPushes /\ remote' = remote + 1
  /\ UNCHANGED <<process, checkout, update, git, check>>
--------------------------------------------------------------------------------
(* A check: the version, the fetch, the count, origin's tip.  A branch that   *)
(* cannot be read is taken for main, a head or a tip for none, a count for 0.  *)
CheckAsks(c) ==
  /\ up /\ check[c].pc = "idle"
  /\ \E own \in BOOLEAN, h \in {head, NoCommit} :
       check' = [check EXCEPT ![c] =
                   [NoCheck EXCEPT !.pc = "asked", !.asked = remote, !.own = own, !.head = h]]
  /\ UNCHANGED <<process, checkout, remote, update, git>>

(* The fetch of another branch leaves origin/<branch> as it is.               *)
Fetched(c) == IF check[c].own THEN remote ELSE origin

CheckFetches(c) ==
  /\ up /\ check[c].pc = "asked"
  /\ origin' = Fetched(c)
  /\ check' = [(IF check[c].own THEN Shared(Check \ {c}) ELSE check) EXCEPT ![c].pc = "fetched"]
  /\ UNCHANGED <<process, head, remote, update, git>>

Behind == origin - head

(* Of another branch the count may be any, and so the tip.                    *)
CheckCounts(c) ==
  /\ up /\ check[c].pc = "fetched"
  /\ \E counted \in BOOLEAN, any \in Commit :
       check' = [check EXCEPT ![c].pc = "counted", ![c].counted = counted,
                   ![c].behind = IF ~counted THEN 0 ELSE IF check[c].own THEN Behind ELSE any]
  /\ UNCHANGED <<process, checkout, remote, update, git>>

RemoteTip(c) == {remote, NoCommit}   \* defect: the remote is asked anew
Tip(c) == {NoCommit} \cup IF check[c].own THEN {origin} ELSE Commit

CheckAnswers(c) ==
  /\ up /\ check[c].pc = "counted"
  /\ \E tip \in Tip(c) : check' = [check EXCEPT ![c].pc = "ok", ![c].tip = tip]
  /\ UNCHANGED <<process, checkout, remote, update, git>>

(* Only a fetch that fails, or its timeout, fails the check.                 *)
CheckFails(c) ==
  /\ up /\ check[c].pc = "asked"
  /\ check' = [check EXCEPT ![c] = [NoCheck EXCEPT !.pc = "failed"]]
  /\ UNCHANGED <<process, checkout, remote, update, git>>
--------------------------------------------------------------------------------
(* The process ends at once: whoever still waits gets no answer.             *)
UpdateInProgress == {"asked", "pulling", "pulled"} \cup UnderWay
Lost(request, none) == IF request.pc \in UpdateInProgress THEN [none EXCEPT !.pc = "lost"] ELSE request

Ends ==
  /\ up /\ up' = FALSE /\ reload' = FALSE
  /\ update' = [r \in Update |-> Lost(update[r], NoUpdate)]
  /\ check' = [c \in Check |-> Lost(check[c], NoCheck)]
  /\ UNCHANGED <<loaded, checkout, remote, git>>

ReloadFires == reload /\ Ends /\ UNCHANGED deaths

Dies == deaths < MaxDeaths /\ deaths' = deaths + 1 /\ Ends

(* docker/entrypoint.sh: the loop starts it again, from the source.          *)
Restart ==
  /\ ~up /\ up' = TRUE /\ loaded' = head
  /\ UNCHANGED <<reload, deaths, checkout, remote, update, git, check>>

Handles(r) == Pulls(r) \/ PullEnds(r) \/ Applied(r) \/ Fails(r) \/ PullTimesOut(r)
Checks(c) == CheckFetches(c) \/ CheckCounts(c) \/ CheckAnswers(c) \/ CheckFails(c)

UpdaterNext ==
  \/ \E r \in Update : Asks(r) \/ Handles(r) \/ GitMoves(r) \/ GitFails(r)
  \/ \E c \in Check : CheckAsks(c) \/ Checks(c)
  \/ Push \/ ReloadFires \/ Dies \/ Restart

UpdaterSpec == UpdaterInit /\ [][UpdaterNext]_updaterVars

(* Timers fire, the reading git commands end or are killed, and the loop goes *)
(* on.  Nothing is assumed of the pull itself, nor of the network.           *)
Fairness ==
  /\ \A r \in Update : WF_updaterVars(Handles(r))
  /\ \A c \in Check : WF_updaterVars(Checks(c))
  /\ WF_updaterVars(ReloadFires) /\ WF_updaterVars(Restart)

FairSpec == UpdaterSpec /\ Fairness
--------------------------------------------------------------------------------
UpdaterTypeOK ==
  /\ up \in BOOLEAN /\ reload \in BOOLEAN /\ deaths \in 0..MaxDeaths
  /\ loaded \in Commit /\ head \in Commit /\ origin \in Commit /\ remote \in Commit
  /\ update \in [Update -> [pc : {"idle", "asked", "pulling", "pulled", "ok", "failed", "lost"},
                            from : Commit, to : Commit]]
  /\ git \in [Update -> {"none", "running", "moved", "failed"}]
  /\ check \in [Check -> [pc : {"idle", "asked", "fetched", "counted", "ok", "failed", "lost"},
                          asked : Commit, own : BOOLEAN, head : Commit \cup {NoCommit}, behind : Commit,
                          counted : BOOLEAN, tip : Commit \cup {NoCommit}, shared : BOOLEAN]]

(* An update that was answered "ok" ends with a gateway that serves at least  *)
(* the commit it named (updater.ts:8), also when an earlier one had moved     *)
(* HEAD and failed after it, when others overlap, and when the process dies.  *)
OkIsServed ==
  \A r \in Update : update[r].pc = "ok" ~> (up /\ loaded >= update[r].to)

(* Whoever asks gets an answer or sees the gateway end, also of a git that    *)
(* hangs (updater.ts:81); and a gateway that ended comes back.                *)
UpdatesEnd ==
  \A r \in Update : update[r].pc = "asked" ~> (up /\ update[r].pc \in {"ok", "failed", "lost"})

(* What a check of the checkout's branch reports, whoever pulls, fetches or    *)
(* pushes meanwhile and whichever of its reads fail: a tip that is no older   *)
(* than the question, and never more commits between the head and that tip   *)
(* than there are; and exactly those, if nobody else moved refs and no read   *)
(* failed.                                                                  *)
ReportsAddUp ==
  \A c \in Check : check[c].pc = "ok" /\ check[c].own /\ check[c].tip # NoCommit =>
    /\ check[c].tip >= check[c].asked
    /\ check[c].head # NoCommit =>
         /\ check[c].head + check[c].behind <= check[c].tip
         /\ ~check[c].shared /\ check[c].counted
              => check[c].head + check[c].behind = check[c].tip

(* What the header of updater.ts says the reload is for: a gateway at rest    *)
(* does not serve code older than the checkout.  It fails: a step after the   *)
(* pull may fail, and a pull under way outlives the reload of another update. *)
AtRest ==
  /\ up /\ ~reload
  /\ \A r \in Update : update[r].pc \notin UpdateInProgress /\ git[r] # "running"
HeadIsServed == AtRest => loaded = head
===============================================================================
