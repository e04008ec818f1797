----------------------------- MODULE GitHubRemote -----------------------------
(***************************************************************************)
(* The remote repository and syncRemote (src/adapters/github/sync.ts,      *)
(* remote-git.ts): the binding's refs, claim registers first and then its  *)
(* tags, are compared with one ls-remote and the absent ones pushed, while *)
(* the binding's own registers advance and others push, move and delete.   *)
(*                                                                         *)
(* git and the remote are external: a push creates an absent ref or moves  *)
(* a register forward, is rejected otherwise, and may fail before or after *)
(* it landed.  A repository the credential cannot see answers nothing.     *)
(***************************************************************************)
EXTENDS Naturals, Sequences, FiniteSets, SequencesExt

CONSTANTS
    Tags,         \* the tag names, in their order
    Register,     \* the ref of a claim register
    Recorded,     \* the refs the binding records at the start, and their commits
    Tips,         \* the commits the binding's register advances through
    Older,        \* <<c, d>> when register commit d descends from c
    Others,       \* ref -> the commits others may push it at
    NoCommit,     \* an absent ref
    MaxCalls, MaxEdits, MaxFaults  \* calls of any kind, and what befalls them

ASSUME OlderAssumption ==  \* descent is a strict order
    /\ \A e \in Older : e[1] # e[2]
    /\ \A e, f \in Older : e[2] = f[1] => <<e[1], f[2]>> \in Older

VARIABLES
    local,        \* the binding's refs
    remote,       \* the remote's refs
    visible,      \* whether the credential sees the repository
    sync,         \* the syncRemote call
    calls, edits, faults,
    stood         \* what each ref held on the remote since the call began

syncVars == <<sync, calls>>
remoteVars == <<local, remote, visible, edits, faults>>

Refs == {Register} \cup Tags
NoSync == [pc |-> "idle"]
Order == <<Register>> \o SetToSortSeq(Tags, <)
Enumerated(refs) == SelectSeq(Order, LAMBDA r : refs[r] # NoCommit)

(* classifyGitFailure: what a git failure is reported as.                  *)
GitFailures == {"refused-credential", "transport-failure"}

Call == calls < MaxCalls /\ calls' = calls + 1
Fault == faults < MaxFaults /\ faults' = faults + 1
Budget == faults' = faults

InitRemote ==
    /\ local = [r \in Refs |-> IF r \in DOMAIN Recorded THEN Recorded[r] ELSE NoCommit]
    /\ remote = [r \in Refs |-> NoCommit]
    /\ visible = TRUE
    /\ sync = NoSync
    /\ calls = 0
    /\ edits = 0
    /\ faults = 0
    /\ stood = [r \in Refs |-> {}]

-----------------------------------------------------------------------------
SyncCalls ==
    /\ sync.pc \in {"idle", "done"}
    /\ Call
    /\ sync' = [pc |-> "list"]
    /\ UNCHANGED remoteVars

(* No origin to push to: the call throws, and reports nothing.             *)
SyncThrows ==
    /\ sync.pc = "list"
    /\ Fault
    /\ sync' = NoSync
    /\ UNCHANGED <<local, remote, visible, edits, calls>>

SyncLists ==
    /\ sync.pc = "list"
    /\ visible
    /\ sync' = [pc |-> "enumerate", listing |-> remote]
    /\ UNCHANGED <<remoteVars, calls>>

(* Nothing was listed: every ref is reported with the one failure.         *)
SyncUnlisted ==
    /\ sync.pc = "list"
    /\ \E outcome \in GitFailures :
          /\ IF visible THEN Fault ELSE Budget /\ outcome = "transport-failure"
          /\ sync' = [pc |-> "done", recorded |-> local,
                      report |-> [r \in Refs |->
                         IF local[r] = NoCommit THEN "unrecorded" ELSE outcome]]
    /\ UNCHANGED <<local, remote, visible, edits, calls>>

(* The binding's refs are read after the remote's.                         *)
SyncEnumerates ==
    /\ sync.pc = "enumerate"
    /\ sync' = [pc |-> "refs", listing |-> sync.listing, recorded |-> local,
                queue |-> Enumerated(local), report |-> [r \in Refs |-> "unrecorded"]]
    /\ UNCHANGED <<remoteVars, calls>>

SyncReports(outcome) ==
    sync' = IF Len(sync.queue) > 1
            THEN [sync EXCEPT !.pc = "refs", !.queue = Tail(sync.queue),
                              !.report[Head(sync.queue)] = outcome]
            ELSE [pc |-> "done", recorded |-> sync.recorded,
                  report |-> [sync.report EXCEPT ![Head(sync.queue)] = outcome]]

(* What stands decides: the recorded target is skipped, another refused.   *)
Standing(r, target) ==
    IF target = sync.recorded[r] THEN "skipped" ELSE "already-pushed-different-target"

SyncCompares ==
    /\ sync.pc = "refs"
    /\ sync.listing[Head(sync.queue)] # NoCommit
    /\ SyncReports(Standing(Head(sync.queue), sync.listing[Head(sync.queue)]))
    /\ UNCHANGED <<remoteVars, calls>>

(* git push of the ref's name: what it holds by then, as the remote allows.*)
FastForwards(r) ==
    \/ remote[r] \in {NoCommit, local[r]}
    \/ r = Register /\ <<remote[r], local[r]>> \in Older
Pushing(r) ==
    /\ sync.pc = "refs"
    /\ r = Head(sync.queue)
    /\ sync.listing[r] = NoCommit
PushLands(r) == remote' = [remote EXCEPT ![r] = local[r]]

SyncPushes ==
    /\ \E r \in Refs : Pushing(r) /\ visible /\ FastForwards(r) /\ PushLands(r)
    /\ SyncReports("pushed")
    /\ UNCHANGED <<local, visible, edits, faults, calls>>

(* The remote rejects what does not fast-forward, and whatever a hook or a *)
(* protection of it refuses.                                               *)
SyncRejected ==
    /\ \E r \in Refs :
          /\ Pushing(r)
          /\ visible
          /\ IF FastForwards(r) THEN remote[r] # local[r] /\ Fault ELSE Budget
    /\ sync' = [sync EXCEPT !.pc = "raced"]
    /\ UNCHANGED <<local, remote, visible, edits, calls>>

(* A push that failed: a timeout is ambiguous, and the rest is classified  *)
(* by what git printed; a refused credential is the one that cannot have   *)
(* landed.                                                                 *)
SyncPushFails ==
    /\ \E r \in Refs, outcome \in {"ambiguous"} \cup GitFailures :
          /\ Pushing(r)
          /\ IF visible THEN Fault ELSE Budget /\ outcome = "transport-failure"
          /\ \/ remote' = remote
             \/ visible /\ outcome # "refused-credential" /\ FastForwards(r) /\ PushLands(r)
          /\ SyncReports(outcome)
    /\ UNCHANGED <<local, visible, edits, calls>>

(* A bug: the ref that raced the push is taken for the one pushed.         *)
MutantRaced(r) == IF remote[r] = NoCommit THEN "transport-failure" ELSE "skipped"

(* A rejected push is listed again, once.                                  *)
Raced(r) == IF remote[r] = NoCommit THEN "transport-failure" ELSE Standing(r, remote[r])
SyncRelists ==
    /\ sync.pc = "raced"
    /\ \/ visible /\ Budget /\ SyncReports(Raced(Head(sync.queue)))
       \/ (IF visible THEN Fault ELSE Budget) /\ SyncReports("transport-failure")
    /\ UNCHANGED <<local, remote, visible, edits, calls>>

Syncs ==
    \/ SyncCalls
    \/ SyncThrows
    \/ SyncLists
    \/ SyncUnlisted
    \/ SyncEnumerates
    \/ SyncCompares
    \/ SyncPushes
    \/ SyncRejected
    \/ SyncPushFails
    \/ SyncRelists

-----------------------------------------------------------------------------
(* A claim lands in the binding's register.                                *)
ClaimsAdvance ==
    /\ \E tip \in Tips : <<local[Register], tip>> \in Older
                         /\ local' = [local EXCEPT ![Register] = tip]
    /\ UNCHANGED <<remote, visible, edits, faults, syncVars>>

Edits == edits < MaxEdits /\ edits' = edits + 1

(* The credential loses sight of the repository; it is not given back.     *)
Hides ==
    /\ visible
    /\ Edits
    /\ visible' = FALSE
    /\ UNCHANGED <<local, remote, faults, syncVars>>

OthersPush ==
    /\ Edits
    /\ \E r \in Refs : \E c \in Others[r] \ {remote[r]} :
          remote' = [remote EXCEPT ![r] = c]
    /\ UNCHANGED <<local, visible, faults, syncVars>>

(* History: reset as a call begins, and extended by every step.            *)
Witnesses ==
    stood' = [r \in Refs |->
                 IF sync'.pc \in {"idle", "list"} THEN {remote'[r]}
                 ELSE stood[r] \cup {remote'[r]}]

-----------------------------------------------------------------------------
(* A report is true of the remote as it stood during the call: a ref       *)
(* reported pushed or skipped held the recorded target, one refused held   *)
(* another - whoever raced the push, and however it failed.  A register    *)
(* that advanced while it was being pushed is pushed at its newer tip.     *)
SyncReportsTrue ==
    sync.pc = "done" =>
        \A r \in Refs :
            /\ sync.report[r] \in {"pushed", "skipped"} /\ local[r] = sync.recorded[r] =>
                  sync.recorded[r] \in stood[r]
            /\ sync.report[r] = "already-pushed-different-target" =>
                  stood[r] \ {NoCommit, sync.recorded[r]} # {}
=============================================================================
